---------------------------- MODULE StoryRenders ----------------------------
(***************************************************************************)
(* The queue of story renders: STORY_RENDER_QUEUE of                       *)
(* commands/story_studio.rs.                                               *)
(*                                                                         *)
(* A job is appended by a command, and whoever finds no worker running     *)
(* claims worker_running and spawns one.  The worker takes the first       *)
(* queued job, renders it with no lock held, reports its progress into the *)
(* queue and marks it; when nothing is queued it clears worker_running and *)
(* ends.  A job may be cancelled anywhere.                                 *)
(*                                                                         *)
(* A job is named by its place in the queue, a worker by the job whose     *)
(* command spawned it.  The code finds a job by its render_id, which the   *)
(* command is given: they are taken to be unique, as the front end draws a *)
(* random one for each render.                                             *)
(***************************************************************************)
EXTENDS Naturals

CONSTANTS
    MaxJobs          \* bound on the jobs

ASSUME JobsAssumption == MaxJobs \in Nat

Jobs  == 1..MaxJobs
NoJob == 0

VARIABLES
    enqueued,        \* how many there are
    status,          \* StoryRenderJobStatus of each
    stopFlags,       \* the jobs whose stop_flag is set
    workerRunning,   \* worker_running
    stage,           \* the place of each worker
    job,             \* the job in its hands
    library          \* the jobs whose story is among the story audio items

vars == <<enqueued, status, stopFlags, workerRunning, stage, job, library>>

Active   == {"queued", "rendering", "assembling"}      \* is_active
Statuses == Active \cup {"none", "completed", "cancelled", "failed", "gone"}
Marks    == {"completed", "cancelled", "failed"}
Stages   == Marks \cup {"none", "starting", "take", "lines", "assemble",
                        "assembling", "announce", "store", "ok", "error",
                        "remove", "exited"}

TypeOK ==
    /\ enqueued \in 0..MaxJobs /\ workerRunning \in BOOLEAN
    /\ status \in [Jobs -> Statuses] /\ stage \in [Jobs -> Stages]
    /\ job \in [Jobs -> Jobs \cup {NoJob}]
    /\ stopFlags \subseteq Jobs /\ library \subseteq Jobs
    /\ \A w \in Jobs : stage[w] \notin {"none", "starting", "take", "exited"}
                          => job[w] \in 1..enqueued

Init ==
    /\ enqueued = 0 /\ workerRunning = FALSE
    /\ status = [j \in Jobs |-> "none"] /\ stage = [w \in Jobs |-> "none"]
    /\ job = [w \in Jobs |-> NoJob] /\ stopFlags = {} /\ library = {}

-----------------------------------------------------------------------------

GoTo(w, s) == stage' = [stage EXCEPT ![w] = s]
Mark(j, s) == status' = [status EXCEPT ![j] = s]

\* Mutant: the worker is spawned but not claimed.
EnqueueUnclaimed(j) ==
    /\ j = enqueued + 1 /\ enqueued' = j /\ Mark(j, "queued")
    /\ IF workerRunning THEN UNCHANGED stage ELSE GoTo(j, "starting")
    /\ UNCHANGED <<stopFlags, workerRunning, job, library>>

\* render_story_audio.
Enqueue(j) ==
    /\ j = enqueued + 1 /\ enqueued' = j /\ Mark(j, "queued")
    /\ IF workerRunning THEN UNCHANGED stage ELSE GoTo(j, "starting")
    /\ workerRunning' = TRUE
    /\ UNCHANGED <<stopFlags, job, library>>

Cancel(j) ==
    /\ status[j] \in Active
    /\ stopFlags' = stopFlags \cup {j} /\ Mark(j, "cancelled")
    /\ UNCHANGED <<enqueued, workerRunning, stage, job, library>>

-----------------------------------------------------------------------------
(* A worker *)

Started(w) ==
    /\ stage[w] = "starting" /\ GoTo(w, "take")
    /\ UNCHANGED <<enqueued, status, stopFlags, workerRunning, job, library>>

\* Mutant: only the job that asked for the thread is failed.
ResetOne(w) ==
    /\ stage[w] = "starting" /\ GoTo(w, "exited") /\ workerRunning' = FALSE
    /\ status' = [status EXCEPT ![w] =
                     IF status[w] \in Active THEN "failed" ELSE @]
    /\ UNCHANGED <<enqueued, stopFlags, job, library>>

\* The thread or its runtime does not start: reset_story_render_worker fails
\* whatever has been enqueued by now.
Reset(w) ==
    /\ stage[w] = "starting" /\ GoTo(w, "exited") /\ workerRunning' = FALSE
    /\ status' = [j \in Jobs |-> IF status[j] \in Active THEN "failed"
                                                         ELSE status[j]]
    /\ UNCHANGED <<enqueued, stopFlags, job, library>>

FirstQueued(j) ==
    status[j] = "queued" /\ \A i \in Jobs : status[i] = "queued" => j <= i

\* take_next_story_render_job: the first queued job, or the end.
Take(w) ==
    /\ stage[w] = "take"
    /\ \/ \E j \in Jobs :
             /\ FirstQueued(j) /\ Mark(j, "rendering") /\ GoTo(w, "lines")
             /\ job' = [job EXCEPT ![w] = j] /\ UNCHANGED workerRunning
       \/ /\ \A j \in Jobs : status[j] # "queued"
          /\ GoTo(w, "exited") /\ workerRunning' = FALSE
          /\ UNCHANGED <<status, job>>
    /\ UNCHANGED <<enqueued, stopFlags, library>>

\* The voices of the lines, or the assembly of their timeline; afterwards the
\* flag is looked at.
Produce(w, at, then) ==
    /\ stage[w] = at
    /\ GoTo(w, "error") \/ (job[w] \notin stopFlags /\ GoTo(w, then))
    /\ UNCHANGED <<enqueued, status, stopFlags, workerRunning, job, library>>

\* Mutant: progress is written over whatever the status is.
ReportOver(w, at, s, then) ==
    /\ stage[w] = at /\ GoTo(w, then) /\ Mark(job[w], s)
    /\ UNCHANGED <<enqueued, stopFlags, workerRunning, job, library>>

\* emit_progress: only an active job takes the status.
Report(w, at, s, then) ==
    /\ stage[w] = at /\ GoTo(w, then)
    /\ IF status[job[w]] \in Active THEN Mark(job[w], s) ELSE UNCHANGED status
    /\ UNCHANGED <<enqueued, stopFlags, workerRunning, job, library>>

\* The metadata is written and the item put into the library.
Store(w) ==
    /\ stage[w] = "store"
    /\ \/ GoTo(w, "error") /\ UNCHANGED library
       \/ GoTo(w, "ok") /\ library' = library \cup {job[w]}
    /\ UNCHANGED <<enqueued, status, stopFlags, workerRunning, job>>

\* story_render_worker looks at the flag, and at the text of an error, which may
\* say that something was cancelled; then it marks.
Judge(w) ==
    /\ stage[w] \in {"ok", "error"}
    /\ \/ (job[w] \in stopFlags \/ stage[w] = "error") /\ GoTo(w, "cancelled")
       \/ /\ job[w] \notin stopFlags
          /\ GoTo(w, IF stage[w] = "ok" THEN "completed" ELSE "failed")
    /\ UNCHANGED <<enqueued, status, stopFlags, workerRunning, job, library>>

Settle(w) ==
    /\ stage[w] \in Marks /\ Mark(job[w], stage[w])
    /\ GoTo(w, IF stage[w] = "completed" THEN "remove" ELSE "take")
    /\ UNCHANGED <<enqueued, stopFlags, workerRunning, job, library>>

\* remove_story_render_job.
Remove(w) ==
    /\ stage[w] = "remove" /\ Mark(job[w], "gone") /\ GoTo(w, "take")
    /\ UNCHANGED <<enqueued, stopFlags, workerRunning, job, library>>

\* The thread unwinds and nobody clears worker_running.
Panic(w) ==
    /\ stage[w] \in {"lines", "assembling"} /\ GoTo(w, "exited")
    /\ UNCHANGED <<enqueued, status, stopFlags, workerRunning, job, library>>

Work(w) ==
    \/ Started(w) \/ Reset(w) \/ Take(w)
    \/ Produce(w, "lines", "assemble")
    \/ Report(w, "assemble", "assembling", "assembling")
    \/ Produce(w, "assembling", "announce")
    \/ Report(w, "announce", "completed", "store")
    \/ Store(w) \/ Judge(w) \/ Settle(w) \/ Remove(w)

Next == \E j \in Jobs : Enqueue(j) \/ Cancel(j) \/ Work(j)

Spec == Init /\ [][Next]_vars

\* A render ends; nobody has to ask for one or cancel it.
FairSpec == Spec /\ \A w \in Jobs : WF_vars(Work(w))

\* With renders that panic; OneWorker is an expectation that fails under it.
PanicSpec == Init /\ [][Next \/ \E w \in Jobs : Panic(w)]_vars
-----------------------------------------------------------------------------
(* Properties *)

Alive(w) == stage[w] \notin {"none", "exited"}

\* Two jobs of the queue are never rendered at once, each with a model of its
\* own in memory, and a queued job always has a worker that will look at the queue again:
\* none is stranded between a worker that ends and a command that appends.
OneWorker ==
    /\ \A v, w \in Jobs : Alive(v) /\ Alive(w) => v = w
    /\ \A j \in Jobs : status[j] = "queued" => \E w \in Jobs : Alive(w)

\* A job that was cancelled, wherever its render was, is never seen rendering
\* or completed again, and one cancelled in the queue is not begun.  (It may
\* end as failed: a render that has failed is judged before it is marked.)
CancelHolds ==
    [][\A j \in Jobs : status[j] = "cancelled" =>
          status'[j] \in {"cancelled", "failed"}]_vars

\* Every job ends in one of the ways there are.
RendersEnd ==
    \A j \in Jobs : status[j] = "queued" ~>
        status[j] \in Marks \cup {"gone"}

\* An expectation that fails: a cancelled job leaves no story behind.  A
\* cancel after the last look at the flag finds the item stored.
CancelledLeavesNothing ==
    \A j \in library : status[j] # "cancelled"
=============================================================================
