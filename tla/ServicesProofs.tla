--------------------------- MODULE ServicesProofs ---------------------------
(***************************************************************************)
(* Proofs about StoryRenders, the component that MCServices extends, and   *)
(* the theorems of its other three, proved in modules of their own, for    *)
(* the instance in which the four stand beside each other.                 *)
(*                                                                         *)
(* A job is queued only while somebody has claimed worker_running, and     *)
(* whoever claimed it is alive; the stage of the worker bounds the status  *)
(* of the job in its hands, and the flag of a job that is cancelled there  *)
(* is set.                                                                 *)
(***************************************************************************)
EXTENDS MCServices, TLAPS

-----------------------------------------------------------------------------
(* The story renders *)

Making  == {"lines", "assemble", "assembling", "announce"}
Made    == {"store", "ok"}
Closing == {"completed", "remove"}

\* Only jobs that were enqueued have a status.
Named == \A j \in Jobs : status[j] # "none" => j \in 1..enqueued

\* worker_running is the claim of the one worker that lives.
Claimed ==
    /\ \A w \in Jobs : Alive(w) => workerRunning
    /\ workerRunning => \E w \in Jobs : Alive(w)
    /\ \A v, w \in Jobs : Alive(v) /\ Alive(w) => v = w

\* Nothing is queued without it.
NoneStranded == \A j \in Jobs : status[j] = "queued" => workerRunning

\* The flag of a job that is cancelled in the hands of its worker is set, and
\* stays set until its worker has looked at it.
Flagged ==
    \A w \in Jobs :
        stage[w] \in Making \cup Made /\ status[job[w]] = "cancelled"
            => job[w] \in stopFlags

\* What the status of a job can be while its worker is at a stage.
Held ==
    \A w \in Jobs :
        /\ stage[w] \in Making => status[job[w]] \in Active \cup {"cancelled"}
        /\ stage[w] \in Made => status[job[w]] \in {"completed", "cancelled"}
        /\ stage[w] \in Closing => status[job[w]] = "completed"

IInv == TypeOK /\ Named /\ Claimed /\ NoneStranded /\ Flagged /\ Held

-----------------------------------------------------------------------------

LEMMA InitIInv == Init => IInv
  <1> SUFFICES ASSUME Init PROVE IInv
    OBVIOUS
  <1>1. TypeOK
    <2>1. enqueued \in 0..MaxJobs
      BY JobsAssumption DEF Init
    <2>6. workerRunning \in BOOLEAN
      BY DEF Init
    <2>2. status \in [Jobs -> Statuses] /\ stage \in [Jobs -> Stages]
      BY DEF Init, Statuses, Stages
    <2>3. job \in [Jobs -> Jobs \cup {NoJob}]
      BY DEF Init
    <2>4. stopFlags \subseteq Jobs /\ library \subseteq Jobs
      BY DEF Init
    <2>5. \A w \in Jobs : stage[w] = "none"
      BY DEF Init
    <2> QED  BY <2>1, <2>2, <2>3, <2>4, <2>5, <2>6 DEF TypeOK
  <1>2. Named /\ Claimed /\ NoneStranded
    BY DEF Init, Named, Claimed, NoneStranded, Alive
  <1>3. Flagged /\ Held
    BY DEF Init, Flagged, Held, Making, Made, Closing
  <1> QED  BY <1>1, <1>2, <1>3 DEF IInv

\* A command that finds a claim leaves it; otherwise nobody lives and it claims.
LEMMA EnqueueKeeps ==
    ASSUME IInv, NEW j \in Jobs, Enqueue(j)
    PROVE  IInv'
  <1>1. TypeOK'
    BY JobsAssumption
    DEF Enqueue, GoTo, Mark, TypeOK, Named, Statuses, Stages, Marks, Active,
        Alive, Closing, IInv, Jobs
  <1>2. Named'
    BY DEF Enqueue, GoTo, Mark, TypeOK, Named, Active, Marks, IInv
  <1>3. Claimed'
    BY DEF Enqueue, GoTo, Mark, TypeOK, Claimed, Alive, Marks, IInv
  <1>4. NoneStranded'
    BY DEF Enqueue, GoTo, Mark, TypeOK, Claimed, NoneStranded, Alive,
      Active, Marks, IInv
  <1>5. Flagged'
    BY JobsAssumption
    DEF Enqueue, GoTo, Mark, TypeOK, Named, Claimed, Flagged, Alive,
      Active, Marks, Held, Closing, Made, Making, IInv
  <1>6. Held'
    BY JobsAssumption
    DEF Enqueue, GoTo, Mark, TypeOK, Named, Claimed, Flagged, Held, Alive,
        Making, Closing, Active, Marks, Made, IInv
  <1> QED  BY <1>1, <1>2, <1>3, <1>4, <1>5, <1>6 DEF IInv

\* A cancel changes a status and sets the flag with it.
LEMMA CancelKeeps ==
    ASSUME IInv, NEW j \in Jobs, Cancel(j)
    PROVE  IInv'
  <1>1. TypeOK'
    BY DEF Cancel, Mark, TypeOK, Named, Statuses, Stages, Marks, Active,
      Alive, Closing, IInv
  <1>2. Named'
    BY DEF Cancel, Mark, TypeOK, Named, Active, Marks, IInv
  <1>3. Claimed'
    BY DEF Cancel, Mark, TypeOK, Claimed, Alive, Marks, IInv
  <1>4. NoneStranded'
    BY DEF Cancel, Mark, TypeOK, Claimed, NoneStranded, Alive, Active,
      Marks, IInv
  <1>5. Flagged'
    BY JobsAssumption
    DEF Cancel, Mark, TypeOK, Named, Claimed, Flagged, Alive, Active,
      Marks, Held, Closing, Made, Making, IInv
  <1>6. Held'
    BY DEF Cancel, Mark, TypeOK, Named, Claimed, Flagged, Held, Alive,
      Closing, Active, Marks, IInv
  <1> QED  BY <1>1, <1>2, <1>3, <1>4, <1>5, <1>6 DEF IInv

\* A started worker goes to the queue.
LEMMA StartedKeeps ==
    ASSUME IInv, NEW w \in Jobs, Started(w)
    PROVE  IInv'
  <1>1. TypeOK'
    BY DEF Started, GoTo, TypeOK, Named, Statuses, Stages, Marks, Active,
      Alive, Closing, IInv
  <1>2. Named'
    BY DEF Started, GoTo, TypeOK, Named, Active, Marks, IInv
  <1>3. Claimed'
    BY DEF Started, GoTo, TypeOK, Claimed, Alive, Marks, IInv
  <1>4. NoneStranded'
    BY DEF Started, GoTo, TypeOK, Claimed, NoneStranded, Alive, Active,
      Marks, IInv
  <1>5. Flagged'
    BY JobsAssumption
    DEF Started, GoTo, TypeOK, Named, Claimed, Flagged, Alive, Active,
      Marks, Held, Closing, Made, Making, IInv
  <1>6. Held'
    BY DEF Started, GoTo, TypeOK, Named, Claimed, Flagged, Held, Alive,
      Making, Closing, Active, Marks, Made, IInv
  <1> QED  BY <1>1, <1>2, <1>3, <1>4, <1>5, <1>6 DEF IInv

\* A worker that does not start leaves nothing queued and nobody alive.
LEMMA ResetKeeps ==
    ASSUME IInv, NEW w \in Jobs, Reset(w)
    PROVE  IInv'
  <1>1. TypeOK'
    BY DEF Reset, GoTo, TypeOK, Named, Statuses, Stages, Marks, Active,
      Alive, Closing, IInv
  <1>2. Named'
    BY DEF Reset, GoTo, TypeOK, Named, Active, Marks, IInv
  <1>3. Claimed'
    BY DEF Reset, GoTo, TypeOK, Claimed, Alive, Marks, IInv
  <1>4. NoneStranded'
    BY DEF Reset, GoTo, TypeOK, Claimed, NoneStranded, Alive, Active, Marks,
      IInv
  <1>5. Flagged'
    BY JobsAssumption
    DEF Reset, GoTo, TypeOK, Named, Claimed, Flagged, Alive, Active,
      Marks, Held, Closing, Made, Making, IInv
  <1>6. Held'
    BY DEF Reset, GoTo, TypeOK, Named, Claimed, Flagged, Held, Alive,
      Making, Closing, Active, Marks, Made, IInv
  <1> QED  BY <1>1, <1>2, <1>3, <1>4, <1>5, <1>6 DEF IInv

\* A worker ends only when nothing is queued.
LEMMA TakeKeeps ==
    ASSUME IInv, NEW w \in Jobs, Take(w)
    PROVE  IInv'
  <1>1. ASSUME NEW j \in Jobs, FirstQueued(j), Mark(j, "rendering"),
               GoTo(w, "lines"), job' = [job EXCEPT ![w] = j],
               UNCHANGED <<workerRunning, enqueued, stopFlags, library>>
        PROVE  IInv'
    <2>1. status[j] = "queued" /\ j \in 1..enqueued
      BY <1>1 DEF IInv, Named, FirstQueued
    <2>2. /\ status' \in [Jobs -> Statuses] /\ stage' \in [Jobs -> Stages]
          /\ job' \in [Jobs -> Jobs \cup {NoJob}]
      BY <1>1 DEF IInv, TypeOK, Mark, GoTo, Statuses, Stages, Active
    <2>3. TypeOK'
      BY <1>1, <2>1, <2>2 DEF IInv, TypeOK, GoTo
    <2>4. Named'
      BY <1>1, <2>1 DEF IInv, TypeOK, Named, Mark
    <2>5. Claimed' /\ NoneStranded'
      BY <1>1 DEF IInv, TypeOK, Claimed, NoneStranded, Alive, GoTo, Mark, Take
    <2>6. Flagged'
      BY <1>1 DEF IInv, TypeOK, Flagged, GoTo, Mark
    <2>7. \A v \in Jobs : v # w => ~Alive(v)
      BY DEF IInv, Claimed, Alive, Take
    <2>8. Held'
      BY <1>1, <2>7
      DEF IInv, TypeOK, Held, Alive, Making, Made, Closing, GoTo, Mark, Active
    <2> QED  BY <2>3, <2>4, <2>5, <2>6, <2>8 DEF IInv
  <1>2. ASSUME \A j \in Jobs : status[j] # "queued", GoTo(w, "exited"),
               workerRunning' = FALSE,
               UNCHANGED <<status, job, enqueued, stopFlags, library>>
        PROVE  IInv'
    <2>1. TypeOK'
      BY <1>2 DEF IInv, TypeOK, GoTo, Stages
    <2>2. Named' /\ NoneStranded'
      BY <1>2 DEF IInv, Named, NoneStranded
    <2>3. Claimed'
      BY <1>2 DEF IInv, TypeOK, Claimed, Alive, GoTo, Take
    <2>4. Flagged' /\ Held'
      BY <1>2 DEF IInv, TypeOK, Flagged, Held, GoTo, Making, Made, Closing
    <2> QED  BY <2>1, <2>2, <2>3, <2>4 DEF IInv
  <1> QED  BY <1>1, <1>2 DEF Take

\* A look at the flag changes no status.
LEMMA ProduceKeeps ==
    ASSUME IInv, NEW w \in Jobs,
           \/ Produce(w, "lines", "assemble")
           \/ Produce(w, "assembling", "announce")
    PROVE  IInv'
  <1>1. TypeOK'
    BY DEF Produce, GoTo, TypeOK, Named, Statuses, Stages, Marks, Active,
      Alive, Closing, IInv
  <1>2. Named'
    BY DEF Produce, GoTo, TypeOK, Named, Active, Marks, IInv
  <1>3. Claimed'
    BY DEF Produce, GoTo, TypeOK, Claimed, Alive, Marks, IInv
  <1>4. NoneStranded'
    BY DEF Produce, GoTo, TypeOK, Claimed, NoneStranded, Alive, Active,
      Marks, IInv
  <1>5. Flagged'
    BY JobsAssumption
    DEF Produce, GoTo, TypeOK, Named, Claimed, Flagged, Alive, Active,
        Marks, Held, Closing, Made, Making, IInv
  <1>6. Held'
    BY JobsAssumption
    DEF Produce, GoTo, TypeOK, Named, Claimed, Flagged, Held, Alive, Making,
        Closing, Active, Marks, Made, IInv
  <1> QED  BY <1>1, <1>2, <1>3, <1>4, <1>5, <1>6 DEF IInv

\* Progress moves a job that is active and leaves a cancelled one.
LEMMA ReportKeeps ==
    ASSUME IInv, NEW w \in Jobs,
           \/ Report(w, "assemble", "assembling", "assembling")
           \/ Report(w, "announce", "completed", "store")
    PROVE  IInv'
  <1>1. TypeOK'
    BY DEF Report, GoTo, Mark, TypeOK, Named, Statuses, Stages, Marks,
      Active, Alive, Closing, IInv
  <1>2. Named'
    BY DEF Report, GoTo, Mark, TypeOK, Named, Active, Marks, IInv
  <1>3. Claimed'
    BY DEF Report, GoTo, Mark, TypeOK, Claimed, Alive, Marks, IInv
  <1>4. NoneStranded'
    BY DEF Report, GoTo, Mark, TypeOK, Claimed, NoneStranded, Alive, Active,
      Marks, IInv
  <1>5. Flagged'
    BY JobsAssumption
    DEF Report, GoTo, Mark, TypeOK, Named, Claimed, Flagged, Alive, Active,
        Marks, Held, Closing, Made, Making, IInv
  <1>6. Held'
    BY JobsAssumption
    DEF Report, GoTo, Mark, TypeOK, Named, Claimed, Flagged, Held, Alive,
        Making, Closing, Active, Marks, Made, IInv, Jobs
  <1> QED  BY <1>1, <1>2, <1>3, <1>4, <1>5, <1>6 DEF IInv

\* The library is nobody's status.
LEMMA StoreKeeps ==
    ASSUME IInv, NEW w \in Jobs, Store(w)
    PROVE  IInv'
  <1>1. TypeOK'
    <2>1. job[w] \in 1..enqueued
      BY DEF IInv, TypeOK, Store
    <2>2. stage' \in [Jobs -> Stages]
      BY DEF IInv, TypeOK, Store, GoTo, Stages
    <2>3. library' \subseteq Jobs
      <3>1. job[w] \in Jobs
        BY <2>1, JobsAssumption DEF IInv, TypeOK, Jobs
      <3>2. library' = library \/ library' = library \cup {job[w]}
        BY DEF Store
      <3> QED  BY <3>1, <3>2 DEF IInv, TypeOK
    <2>4. /\ enqueued' = enqueued /\ status' = status /\ job' = job
          /\ stopFlags' = stopFlags /\ workerRunning' = workerRunning
      BY DEF Store
    <2>5. \A v \in Jobs : v # w => stage'[v] = stage[v]
      BY DEF IInv, TypeOK, Store, GoTo
    <2>6. \A v \in Jobs : stage'[v] \notin {"none", "starting", "take", "exited"}
                            => job'[v] \in 1..enqueued'
      BY <2>1, <2>4, <2>5 DEF IInv, TypeOK
    <2> QED  BY <2>2, <2>3, <2>4, <2>6 DEF IInv, TypeOK
  <1>2. Named'
    BY DEF Store, GoTo, TypeOK, Named, Active, Marks, IInv
  <1>3. Claimed'
    BY DEF Store, GoTo, TypeOK, Claimed, Alive, Marks, IInv
  <1>4. NoneStranded'
    BY DEF Store, GoTo, TypeOK, Claimed, NoneStranded, Alive, Active, Marks,
      IInv
  <1>5. Flagged'
    BY JobsAssumption
    DEF Store, GoTo, TypeOK, Named, Claimed, Flagged, Alive, Active,
      Marks, Held, Closing, Made, Making, IInv
  <1>6. Held'
    BY JobsAssumption
    DEF Store, GoTo, TypeOK, Named, Claimed, Flagged, Held, Alive, Making,
        Closing, Active, Marks, Made, IInv
  <1> QED  BY <1>1, <1>2, <1>3, <1>4, <1>5, <1>6 DEF IInv

\* The mark chosen after the flag is the one the status allows.
LEMMA JudgeKeeps ==
    ASSUME IInv, NEW w \in Jobs, Judge(w)
    PROVE  IInv'
  <1>1. TypeOK'
    BY DEF Judge, GoTo, TypeOK, Named, Statuses, Stages, Marks, Active,
      Alive, Closing, IInv
  <1>2. Named'
    BY DEF Judge, GoTo, TypeOK, Named, Active, Marks, IInv
  <1>3. Claimed'
    BY DEF Judge, GoTo, TypeOK, Claimed, Alive, Marks, IInv
  <1>4. NoneStranded'
    BY DEF Judge, GoTo, TypeOK, Claimed, NoneStranded, Alive, Active, Marks,
      IInv
  <1>5. Flagged'
    BY JobsAssumption
    DEF Judge, GoTo, TypeOK, Named, Claimed, Flagged, Alive, Active,
      Marks, Held, Closing, Made, Making, IInv
  <1>6. Held'
    BY JobsAssumption
    DEF Judge, GoTo, TypeOK, Named, Claimed, Flagged, Held, Alive, Making,
        Closing, Active, Marks, Made, IInv, Jobs
  <1> QED  BY <1>1, <1>2, <1>3, <1>4, <1>5, <1>6 DEF IInv

\* A mark replaces the status of the job in hand.
LEMMA SettleKeeps ==
    ASSUME IInv, NEW w \in Jobs, Settle(w)
    PROVE  IInv'
  <1>1. TypeOK'
    BY DEF Settle, GoTo, Mark, TypeOK, Named, Statuses, Stages, Marks,
      Active, Alive, Closing, IInv
  <1>2. Named'
    BY DEF Settle, GoTo, Mark, TypeOK, Named, Active, Marks, IInv
  <1>3. Claimed'
    BY DEF Settle, GoTo, Mark, TypeOK, Claimed, Alive, Marks, IInv
  <1>4. NoneStranded'
    BY DEF Settle, GoTo, Mark, TypeOK, Claimed, NoneStranded, Alive, Active,
      Marks, IInv
  <1>5. Flagged'
    BY JobsAssumption
    DEF Settle, GoTo, Mark, TypeOK, Named, Claimed, Flagged, Alive,
      Active, Marks, Held, Closing, Made, Making, IInv
  <1>6. Held'
    BY DEF Settle, GoTo, Mark, TypeOK, Named, Claimed, Flagged, Held, Alive,
      Making, Closing, Active, Marks, Made, IInv
  <1> QED  BY <1>1, <1>2, <1>3, <1>4, <1>5, <1>6 DEF IInv

\* Only a completed job is removed.
LEMMA RemoveKeeps ==
    ASSUME IInv, NEW w \in Jobs, Remove(w)
    PROVE  IInv'
  <1>1. TypeOK'
    BY DEF Remove, GoTo, Mark, TypeOK, Named, Statuses, Stages, Marks,
      Active, Alive, Closing, IInv
  <1>2. Named'
    BY DEF Remove, GoTo, Mark, TypeOK, Named, Active, Marks, IInv
  <1>3. Claimed'
    BY DEF Remove, GoTo, Mark, TypeOK, Claimed, Alive, Marks, IInv
  <1>4. NoneStranded'
    BY DEF Remove, GoTo, Mark, TypeOK, Claimed, NoneStranded, Alive, Active,
      Marks, IInv
  <1>5. Flagged'
    BY JobsAssumption
    DEF Remove, GoTo, Mark, TypeOK, Named, Claimed, Flagged, Alive,
      Active, Marks, Held, Closing, Made, Making, IInv
  <1>6. Held'
    BY DEF Remove, GoTo, Mark, TypeOK, Named, Claimed, Flagged, Held, Alive,
      Making, Closing, Active, Marks, Made, IInv
  <1> QED  BY <1>1, <1>2, <1>3, <1>4, <1>5, <1>6 DEF IInv

LEMMA StutterKeeps ==
    ASSUME IInv, UNCHANGED vars
    PROVE  IInv'
  BY DEF IInv, vars, TypeOK, Named, Claimed, NoneStranded, Flagged, Held, Alive

\* Every step of the queue.
LEMMA NextKeeps == IInv /\ [Next]_vars => IInv'
  <1> SUFFICES ASSUME IInv, [Next]_vars PROVE IInv'
    OBVIOUS
  <1>1. CASE UNCHANGED vars
    BY <1>1, StutterKeeps
  <1>2. ASSUME NEW j \in Jobs, Enqueue(j) \/ Cancel(j) PROVE IInv'
    BY <1>2, EnqueueKeeps, CancelKeeps
  <1>3. ASSUME NEW w \in Jobs, Work(w) PROVE IInv'
    <2>1. CASE Started(w) \/ Reset(w) \/ Take(w)
      BY <2>1, StartedKeeps, ResetKeeps, TakeKeeps
    <2>2. CASE Produce(w, "lines", "assemble")
      BY <2>2, ProduceKeeps
    <2>3. CASE Produce(w, "assembling", "announce")
      BY <2>3, ProduceKeeps
    <2>4. CASE Report(w, "assemble", "assembling", "assembling")
      BY <2>4, ReportKeeps
    <2>5. CASE Report(w, "announce", "completed", "store")
      BY <2>5, ReportKeeps
    <2>6. CASE Store(w) \/ Judge(w) \/ Settle(w) \/ Remove(w)
      BY <2>6, StoreKeeps, JudgeKeeps, SettleKeeps, RemoveKeeps
    <2> QED  BY <1>3, <2>1, <2>2, <2>3, <2>4, <2>5, <2>6 DEF Work
  <1> QED  BY <1>1, <1>2, <1>3 DEF Next

THEOREM Invariance == Spec => []IInv
  BY InitIInv, NextKeeps, PTL DEF Spec

-----------------------------------------------------------------------------

\* Every worker, job and status is one that exists, for any number of jobs.
THEOREM TypeCorrect == Spec => []TypeOK
  <1>1. IInv => TypeOK
    BY DEF IInv
  <1> QED  BY <1>1, Invariance, PTL

\* Two renders never run at once, and a queued job has a worker: of
\* render_story_audio, take_next_story_render_job and
\* reset_story_render_worker in any order.
THEOREM RendersOne == Spec => []OneWorker
  <1>1. IInv => OneWorker
    BY DEF IInv, OneWorker, Claimed, NoneStranded
  <1> QED  BY <1>1, Invariance, PTL

-----------------------------------------------------------------------------

Undone == \A j \in Jobs : status[j] = "cancelled" =>
              status'[j] \in {"cancelled", "failed"}

\* Where a worker has a job in its hands.
InHand == Making \cup Made \cup Marks \cup {"error"}

\* A job in work is in the hands of a worker.
Worked ==
    \A j \in Jobs : status[j] \in {"rendering", "assembling"} =>
        \E w \in Jobs : stage[w] \in InHand /\ job[w] = j

\* The hands of the one worker that lives stay full until its job is marked.
LEMMA WorkedKeeps == ASSUME IInv, Worked, [Next]_vars PROVE Worked'
  <1>0. /\ stage \in [Jobs -> Stages] /\ status \in [Jobs -> Statuses]
        /\ job \in [Jobs -> Jobs \cup {NoJob}]
        /\ \A v, w \in Jobs : Alive(v) /\ Alive(w) => v = w
        /\ ~workerRunning => \A v \in Jobs : ~Alive(v)
    BY DEF IInv, TypeOK, Claimed
  <1>1. SUFFICES ASSUME NEW j \in Jobs, status'[j] \in {"rendering", "assembling"}
                 PROVE  \E w \in Jobs : stage'[w] \in InHand /\ job'[w] = j
    BY DEF Worked
  <1>2. CASE UNCHANGED vars
    BY <1>1, <1>2 DEF vars, Worked
  <1>3. ASSUME NEW i \in Jobs, Enqueue(i) \/ Cancel(i)
        PROVE  \E w \in Jobs : stage'[w] \in InHand /\ job'[w] = j
    <2>1. status[j] \in {"rendering", "assembling"} /\ job' = job
      BY <1>0, <1>1, <1>3 DEF Enqueue, Cancel, Mark
    <2>2. PICK w \in Jobs : stage[w] \in InHand /\ job[w] = j
      BY <2>1 DEF Worked
    <2>3. stage'[w] = stage[w]
      BY <1>0, <1>3, <2>2 DEF Enqueue, Cancel, GoTo, Alive, InHand, Making, Made, Marks
    <2> QED  BY <2>1, <2>2, <2>3
  <1>4. ASSUME NEW v \in Jobs, Work(v)
        PROVE  \E w \in Jobs : stage'[w] \in InHand /\ job'[w] = j
    <2> USE DEF Alive, InHand, Making, Made, Marks
    <2>1. CASE status[j] \in {"rendering", "assembling"}
      <3>1. PICK w \in Jobs : stage[w] \in InHand /\ job[w] = j
        BY <2>1 DEF Worked
      <3>2. Alive(v)
        BY <1>4 DEF Work, Started, Reset, Take, Produce, Report, Store, Judge, Settle, Remove
      <3>3. w = v /\ stage[v] \notin {"starting", "take", "remove"}
        BY <1>0, <3>1, <3>2
      <3>4. CASE Produce(v, "lines", "assemble") \/ Produce(v, "assembling", "announce")
        BY <1>0, <3>1, <3>3, <3>4 DEF Produce, GoTo
      <3>5. CASE \/ Report(v, "assemble", "assembling", "assembling")
                 \/ Report(v, "announce", "completed", "store")
        BY <1>0, <3>1, <3>3, <3>5 DEF Report, GoTo
      <3>6. CASE Store(v) \/ Judge(v)
        BY <1>0, <3>1, <3>3, <3>6 DEF Store, Judge, GoTo
      <3>7. ~Settle(v)
        BY <1>0, <1>1, <3>1, <3>3 DEF Settle, Mark
      <3> QED  BY <1>4, <3>3, <3>4, <3>5, <3>6, <3>7 DEF Work, Started, Reset, Take, Remove
    <2>2. CASE status[j] \notin {"rendering", "assembling"}
      <3>1. CASE Take(v)
        <4>1. PICK i \in Jobs : Mark(i, "rendering") /\ GoTo(v, "lines") /\ job' = [job EXCEPT ![v] = i]
          BY <1>0, <1>1, <2>2, <3>1 DEF Take
        <4>2. i = j
          BY <1>0, <1>1, <2>2, <4>1 DEF Mark
        <4> QED  BY <1>0, <4>1, <4>2 DEF GoTo
      <3>2. CASE Report(v, "assemble", "assembling", "assembling")
        <4>1. status[job[v]] \in Active /\ job[v] = j
          BY <1>0, <1>1, <2>2, <3>2 DEF Report, Mark
        <4> QED  BY <1>0, <3>2, <4>1 DEF Report, GoTo
      <3>3. CASE Reset(v)
        BY <1>0, <1>1, <3>3 DEF Reset, Active
      <3>4. CASE Settle(v) \/ Remove(v) \/ Report(v, "announce", "completed", "store")
        BY <1>0, <1>1, <2>2, <3>4 DEF Settle, Remove, Report, Mark
      <3>5. CASE \/ Started(v) \/ Store(v) \/ Judge(v) \/ Produce(v, "lines", "assemble")
                 \/ Produce(v, "assembling", "announce")
        BY <1>1, <2>2, <3>5 DEF Started, Store, Judge, Produce
      <3> QED  BY <1>4, <3>1, <3>2, <3>3, <3>4, <3>5 DEF Work
    <2> QED  BY <2>1, <2>2
  <1> QED  BY <1>2, <1>3, <1>4 DEF Next

\* No job is orphaned: one that is shown rendering or assembling is in the hands of
\* a worker.  With OneWorker, what RendersEnd rests on; a render that panics breaks
\* it (PanicSpec).
THEOREM NoneOrphaned == Spec => []Worked
  <1>1. Init => IInv /\ Worked
    BY InitIInv DEF Init, Worked
  <1>2. IInv /\ Worked /\ [Next]_vars => IInv' /\ Worked'
    BY NextKeeps, WorkedKeeps
  <1> QED  BY <1>1, <1>2, PTL DEF Spec

\* No step brings a cancelled job back.
LEMMA CancelledStays == IInv /\ [Next]_vars => Undone
  <1> SUFFICES ASSUME IInv, [Next]_vars PROVE Undone
    OBVIOUS
  <1>1. CASE UNCHANGED vars
    BY <1>1 DEF Undone, vars
  <1>2. ASSUME NEW j \in Jobs, Enqueue(j) \/ Cancel(j) PROVE Undone
    BY <1>2, JobsAssumption
    DEF Undone, IInv, TypeOK, Named, Enqueue, Cancel, Mark, Active, Jobs
  <1>3. ASSUME NEW w \in Jobs, Work(w) PROVE Undone
    <2>1. CASE Started(w) \/ Reset(w) \/ Take(w)
      BY <2>1
      DEF Undone, IInv, TypeOK, Started, Reset, Take, FirstQueued, Mark, Active
    <2>2. CASE Produce(w, "lines", "assemble") \/ Produce(w, "assembling", "announce")
      BY <2>2 DEF Undone, Produce
    <2>3. CASE \/ Report(w, "assemble", "assembling", "assembling")
               \/ Report(w, "announce", "completed", "store")
      BY <2>3 DEF Undone, IInv, TypeOK, Report, Mark, Active
    <2>4. CASE Settle(w)
      BY <2>4 DEF Undone, IInv, TypeOK, Settle, Held, Closing, Marks, Mark
    <2>5. CASE Store(w) \/ Judge(w) \/ Remove(w)
      BY <2>5 DEF Undone, IInv, TypeOK, Store, Judge, Remove, Held, Closing, Mark
    <2> QED  BY <1>3, <2>1, <2>2, <2>3, <2>4, <2>5 DEF Work
  <1> QED  BY <1>1, <1>2, <1>3 DEF Next

\* A cancelled job stays cancelled, or failed: of cancel_story_render_job
\* beside emit_progress and the marks of story_render_worker.
THEOREM CancelStays == Spec => CancelHolds
  <1>1. Undone => [\A j \in Jobs : status[j] = "cancelled" =>
                      status'[j] \in {"cancelled", "failed"}]_vars
    BY DEF Undone
  <1>2. IInv /\ [Next]_vars =>
          [\A j \in Jobs : status[j] = "cancelled" =>
               status'[j] \in {"cancelled", "failed"}]_vars
    BY <1>1, CancelledStays
  <1> QED  BY <1>2, Invariance, PTL DEF Spec, CancelHolds

-----------------------------------------------------------------------------
(* The components of the instance.  Each step is a step of one of them, and  *)
(* the others rest.                                                          *)

LEMMA SpeechRuns == ServicesSpec => Speech!Spec
  <1>1. ServicesInit => Speech!Init
    BY DEF ServicesInit
  <1>2. [StoryStep \/ SpeechStep \/ MeetingStep \/ LoadStep]_all
           => [Speech!Next]_(Speech!vars)
    BY DEF StoryStep, SpeechStep, MeetingStep, LoadStep, all, speech, Speech!vars,
           Speech!requests, Speech!tracker, Speech!window
  <1> QED  BY <1>1, <1>2, PTL DEF ServicesSpec, Speech!Spec

LEMMA StoriesRun == ServicesSpec => Spec
  <1>1. ServicesInit => Init
    BY DEF ServicesInit
  <1>2. [StoryStep \/ SpeechStep \/ MeetingStep \/ LoadStep]_all => [Next]_vars
    BY DEF StoryStep, SpeechStep, MeetingStep, LoadStep, all
  <1> QED  BY <1>1, <1>2, PTL DEF ServicesSpec, Spec

LEMMA MeetingsRun == ServicesSpec => Meet!Spec
  <1>1. ServicesInit => Meet!Init
    BY DEF ServicesInit
  <1>2. [StoryStep \/ SpeechStep \/ MeetingStep \/ LoadStep]_all
           => [Meet!Next]_(Meet!vars)
    BY DEF StoryStep, SpeechStep, MeetingStep, LoadStep, all, meetings, Meet!vars,
           Meet!audio, Meet!recovery, Meet!active, Meet!calls
  <1> QED  BY <1>1, <1>2, PTL DEF ServicesSpec, Meet!Spec

LEMMA DownloadsRun == ServicesSpec => Load!Spec
  <1>1. ServicesInit => Load!Init
    BY DEF ServicesInit
  <1>2. [StoryStep \/ SpeechStep \/ MeetingStep \/ LoadStep]_all
           => [Load!Next]_(Load!vars)
    BY DEF StoryStep, SpeechStep, MeetingStep, LoadStep, all, downloads, Load!vars,
           Load!disk, Load!progress, Load!control, Load!updating
  <1> QED  BY <1>1, <1>2, PTL DEF ServicesSpec, Load!Spec

\* request_tts, stop_playback and the playback gate of tts.rs: one request is
\* at the loudspeaker, the active one or one that was told to stop.
THEOREM OneVoiceAlways == ServicesSpec => []OneVoice
  <1>1. Speech!Spec => []Speech!OneVoice
    BY Speech!OneVoiceAlways
  <1> QED  BY <1>1, SpeechRuns, PTL DEF OneVoice

\* emit_playback_status and the main thread that shows and hides: the overlay
\* of speech, once displayed, is about the active request.
THEOREM OverlayFollowsAlways == ServicesSpec => []OverlayFollows
  <1>1. Speech!Spec => []Speech!OverlayFollows
    BY Speech!OverlayFollowsAlways
  <1> QED  BY <1>1, SpeechRuns, PTL DEF OverlayFollows

\* recover_interrupted_sessions of meeting_capture after a crash anywhere: no
\* meeting stays in work, and what it claims to have is there.
THEOREM NoneStuckAlways ==
    ASSUME NoSession \notin Meet!Records PROVE ServicesSpec => []NoneStuck
  <1>1. Meet!Spec => []Meet!NoneStuck
    BY Meet!NoneStuckAlways
  <1> QED  BY <1>1, MeetingsRun, PTL DEF NoneStuck

\* The tracks that meeting_capture has synced survive every failure, crash,
\* repair and analysis.
THEOREM AudioKeptAlways ==
    ASSUME NoSession \notin Meet!Records PROVE ServicesSpec => AudioKept
  <1>1. Meet!Spec => Meet!AudioKept
    BY Meet!AudioKeptAlways
  <1> QED  BY <1>1, MeetingsRun, PTL DEF AudioKept

\* A transcript that loaded its session before the names of the speakers were
\* edited does not overwrite them when it saves.
THEOREM EditKeptAlways ==
    ASSUME NoSession \notin Meet!Records PROVE ServicesSpec => EditKept
  <1>1. Meet!Spec => Meet!EditKept
    BY Meet!EditKeptAlways
  <1> QED  BY <1>1, MeetingsRun, PTL DEF EditKept

\* download_model after any number of cancels, listings, errors and ends of the
\* program: what has the name of the model is the whole of it (an archive: unless an
\* update looked just before its unpacking and swept after), what is resumed a
\* beginning.
THEOREM InstalledWholeAlways ==
    ASSUME Load!OneByOne PROVE ServicesSpec => []InstalledWhole
  <1>1. Load!Spec => []Load!InstalledWhole
    BY Load!InstalledWholeAlways
  <1> QED  BY <1>1, DownloadsRun, PTL DEF InstalledWhole

\* However download_model ended, it leaves no flag and no extraction, and the listing
\* is right when no update is under way, but for the loading an update had read
\* before, and for a directory whose linking failed.
THEOREM StatusRestsAlways ==
    ASSUME Load!OneByOne PROVE ServicesSpec => []StatusRests
  <1>1. Load!Spec => []Load!StatusRests
    BY Load!StatusRestsAlways
  <1> QED  BY <1>1, DownloadsRun, PTL DEF StatusRests

\* The component whose steps are taken has only values that exist: no ticket
\* that was not drawn, no track synced farther than it was written, no file with
\* blocks the download does not have.
THEOREM TypesOKAlways ==
    ASSUME NoSession \notin Meet!Records, Load!OneByOne
    PROVE  ServicesSpec => []TypesOK
  <1>1. /\ MaxTickets \in Nat /\ MaxEvents \in Nat /\ MaxCommands \in Nat
        /\ MaxFrames \in Nat /\ MaxUpdates \in Nat /\ MaxQuits \in Nat
    BY BoundsAssumption
  <1>2. Speech!Spec => []Speech!TypeOK
    BY <1>1, Speech!TypeCorrect
  <1>3. Meet!Spec => []Meet!TypeOK
    BY <1>1, Meet!TypeCorrect
  <1>4. Load!Spec => []Load!TypeOK
    BY <1>1, Load!TypeCorrect
  <1>5. TypeOK /\ Speech!TypeOK /\ Meet!TypeOK /\ Load!TypeOK => TypesOK
    BY DEF TypesOK
  <1>6. ServicesSpec => Spec
    BY StoriesRun
  <1> QED
    BY <1>2, <1>3, <1>4, <1>5, <1>6, TypeCorrect, SpeechRuns, MeetingsRun, DownloadsRun, PTL
=============================================================================
