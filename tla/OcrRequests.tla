---------------------------- MODULE OcrRequests -----------------------------
(***************************************************************************)
(* The OCR runtime: OcrRuntimeManager of ocr_runtime.rs.                   *)
(*                                                                         *)
(* Requests (a probe or the OCR of a frame) come from any thread and share *)
(* one Python child per loaded model.  A request draws its arrival number  *)
(* (its intent) before it queues for the transition gate; under the gate   *)
(* it supersedes, joins or waits for the request being served; it waits    *)
(* for the child's line with no lock held and settles under the gate again.*)
(* Escape and shutdown take the gate too.                                  *)
(*                                                                         *)
(* A section under the gate is split where another thread's arrival, which *)
(* needs no lock, can be seen.  A request is named by its intent, a child  *)
(* by the request it was spawned for, both from 1, and 0 is nobody; the    *)
(* metadata of the active request is its want and op.                      *)
(***************************************************************************)
EXTENDS Naturals

CONSTANTS
    MaxRequests,     \* bound on the requests
    MaxCancels,      \* bound on the cancels and shutdowns
    Models,
    NoModel          \* no catalog id

ASSUME RequestsAssumption ==
    /\ MaxRequests \in Nat /\ MaxCancels \in Nat
    /\ NoModel \notin Models

Requests == 1..MaxRequests
Nobody   == 0
Escape   == MaxRequests + 1      \* a thread in cancel_active
Shutdown == MaxRequests + 2      \* a thread in shutdown
Ops      == {"probe", "ocr"}

VARIABLES
    pc, want, op,    \* each request: its place, its model and its operation
    child, epochAt,  \* the child it has taken, the epoch it saw
    issued,          \* intent_sequence
    through,         \* cancelled_through_intent
    epoch,
    active, latest,  \* active_request_id, latest_started_request_id
    killTarget,
    parked, catalog, \* state.child, state.current_catalog_id
    alive,           \* the children not yet killed
    gate,            \* the request, Escape or Shutdown that holds the gate
    cancels

request == <<pc, want, op, child, epochAt>>
slots   == <<active, latest, killTarget>>
process == <<parked, catalog, alive>>
vars    == <<request, issued, through, epoch, slots, process, gate, cancels>>

Places == {"idle", "issued", "asleep", "woken", "supersede", "prepare",
           "publish", "waiting", "answered", "cancelled", "failed"}

TypeOK ==
    /\ pc \in [Requests -> Places] /\ op \in [Requests -> Ops]
    /\ want \in [Requests -> Models \cup {NoModel}]
    /\ issued \in 0..MaxRequests /\ through \in 0..issued
    /\ epoch \in Nat /\ epochAt \in [Requests -> 0..epoch]
    /\ child \in [Requests -> Requests \cup {Nobody}]
    /\ {active, latest, killTarget, parked} \subseteq Requests \cup {Nobody}
    /\ catalog \in Models \cup {NoModel} /\ alive \subseteq Requests
    /\ gate \in Requests \cup {Nobody, Escape, Shutdown}
    /\ cancels \in 0..MaxCancels

Init ==
    /\ pc = [r \in Requests |-> "idle"] /\ op = [r \in Requests |-> "probe"]
    /\ want = [r \in Requests |-> NoModel]
    /\ epochAt = [r \in Requests |-> 0]
    /\ child = [r \in Requests |-> Nobody]
    /\ issued = 0 /\ through = 0 /\ epoch = 0 /\ cancels = 0
    /\ active = Nobody /\ latest = Nobody /\ killTarget = Nobody
    /\ parked = Nobody /\ catalog = NoModel /\ alive = {} /\ gate = Nobody

-----------------------------------------------------------------------------

Go(r, s) == pc' = [pc EXCEPT ![r] = s]

IntentIsCurrent(r) == issued = r /\ through < r

\* Whether r waits for the active request instead of cancelling it: on the
\* same model unless both are OCR, on another one if only the active is OCR.
ShouldCoalesce(r) ==
    /\ active # Nobody
    /\ IF want[active] = want[r]
       THEN ~(op[active] = "ocr" /\ op[r] = "ocr")
       ELSE op[active] = "ocr" /\ op[r] = "probe"

\* Those who sleep on idle_cv when it is notified.
Notified(places) ==
    [r \in Requests |-> IF places[r] = "asleep" THEN "woken" ELSE places[r]]

\* cancel_active_locked: everyone up to intent n is dismissed, the child the
\* active request waits for and a parked one are killed.
CancelActiveLocked(n) ==
    /\ through' = IF n > through THEN n ELSE through
    /\ active' = Nobody /\ killTarget' = Nobody
    /\ alive' = alive \ {killTarget, parked}
    /\ parked' = Nobody
    /\ catalog' = IF parked = Nobody THEN catalog ELSE NoModel
    /\ epoch' = epoch + 1
    /\ UNCHANGED latest

-----------------------------------------------------------------------------
(* request_inner: arrival, and the section under the gate *)

Issue(r, m, o) ==
    /\ r = issued + 1 /\ issued' = r /\ Go(r, "issued")
    /\ want' = [want EXCEPT ![r] = m] /\ op' = [op EXCEPT ![r] = o]
    /\ UNCHANGED <<child, epochAt, through, epoch, slots, process, gate, cancels>>

\* Mutant: a request no longer the newest goes on.
EnterStale(r) ==
    /\ pc[r] \in {"issued", "woken"} /\ gate = Nobody
    /\ \/ /\ through >= r
          /\ Go(r, "cancelled") /\ UNCHANGED gate
       \/ /\ through < r /\ ShouldCoalesce(r)
          /\ Go(r, "asleep") /\ UNCHANGED gate
       \/ /\ through < r /\ ~ShouldCoalesce(r)
          /\ Go(r, IF active = Nobody THEN "prepare" ELSE "supersede")
          /\ gate' = r
    /\ UNCHANGED <<want, op, child, epochAt, issued, through, epoch, slots,
                   process, cancels>>

\* The gate is taken for the first time, or again after idle_cv.
Enter(r) ==
    /\ pc[r] \in {"issued", "woken"} /\ gate = Nobody
    /\ \/ /\ ~IntentIsCurrent(r)
          /\ Go(r, "cancelled") /\ UNCHANGED gate
       \/ /\ IntentIsCurrent(r) /\ ShouldCoalesce(r)
          /\ Go(r, "asleep") /\ UNCHANGED gate
       \/ /\ IntentIsCurrent(r) /\ ~ShouldCoalesce(r)
          /\ Go(r, IF active = Nobody THEN "prepare" ELSE "supersede")
          /\ gate' = r
    /\ UNCHANGED <<want, op, child, epochAt, issued, through, epoch, slots,
                   process, cancels>>

\* A condition variable may wake without being notified.
Spurious(r) ==
    /\ pc[r] = "asleep" /\ Go(r, "woken")
    /\ UNCHANGED <<want, op, child, epochAt, issued, through, epoch, slots,
                   process, gate, cancels>>

\* Mutant: nobody is woken when the active request is superseded.
SupersedeQuietly(r) ==
    /\ pc[r] = "supersede" /\ CancelActiveLocked(r - 1)
    /\ Go(r, "prepare")
    /\ UNCHANGED <<want, op, child, epochAt, issued, gate, cancels>>

Supersede(r) ==
    /\ pc[r] = "supersede" /\ CancelActiveLocked(r - 1)
    /\ pc' = Notified([pc EXCEPT ![r] = "prepare"])
    /\ UNCHANGED <<want, op, child, epochAt, issued, gate, cancels>>

\* Mutant: the parked child is reused whatever model it has loaded.
PrepareAny(r) ==
    /\ pc[r] = "prepare" /\ catalog' = want[r]
    /\ \/ /\ Go(r, "failed") /\ gate' = Nobody /\ parked' = Nobody
          /\ alive' = alive \ {parked} /\ UNCHANGED child
       \/ /\ Go(r, "publish") /\ UNCHANGED gate /\ parked' = Nobody
          /\ child' = [child EXCEPT ![r] = IF parked = Nobody THEN r ELSE parked]
          /\ alive' = alive \cup {child'[r]}
    /\ UNCHANGED <<want, op, epochAt, issued, through, epoch, slots, cancels>>

\* The parked child is taken if it has the model loaded, killed if not; with
\* none left one is spawned.  The spawn may fail, and so may the write to the
\* child, which then is killed.
Prepare(r) ==
    LET warm == parked # Nobody /\ catalog = want[r] IN
    /\ pc[r] = "prepare" /\ catalog' = want[r] /\ parked' = Nobody
    /\ \/ /\ Go(r, "failed") /\ gate' = Nobody
          /\ alive' = alive \ {parked} /\ UNCHANGED child
       \/ /\ Go(r, "publish") /\ UNCHANGED gate
          /\ child' = [child EXCEPT ![r] = IF warm THEN parked ELSE r]
          /\ alive' = (alive \ {parked}) \cup {child'[r]}
    /\ UNCHANGED <<want, op, epochAt, issued, through, epoch, slots, cancels>>

\* publish_wait_ownership, and the gate is released.
Publish(r) ==
    /\ pc[r] = "publish" /\ Go(r, "waiting") /\ gate' = Nobody
    /\ active' = r /\ latest' = r /\ killTarget' = child[r]
    /\ epochAt' = [epochAt EXCEPT ![r] = epoch]
    /\ UNCHANGED <<want, op, child, issued, through, epoch, process, cancels>>

-----------------------------------------------------------------------------
(* finalize_after_wait *)

IsCurrentWaitOwner(r) ==
    /\ epoch = epochAt[r] /\ latest = r /\ active = r /\ killTarget = child[r]

\* Mutant: the stale request kills the child in the slot, not its own.
FinalizeStaleKills(r) ==
    /\ pc[r] = "waiting" /\ gate = Nobody /\ ~IsCurrentWaitOwner(r)
    /\ Go(r, "cancelled") /\ alive' = alive \ {killTarget}
    /\ UNCHANGED <<want, op, child, epochAt, issued, through, epoch, slots,
                   parked, catalog, gate, cancels>>

\* Superseded or cancelled meanwhile: its own child is killed, no more.
FinalizeStale(r) ==
    /\ pc[r] = "waiting" /\ gate = Nobody /\ ~IsCurrentWaitOwner(r)
    /\ Go(r, "cancelled") /\ alive' = alive \ {child[r]}
    /\ UNCHANGED <<want, op, child, epochAt, issued, through, epoch, slots,
                   parked, catalog, gate, cancels>>

\* clear_wait_slots_if_owner, for the owner.
ClearWaitSlots(r, s) ==
    /\ active' = Nobody /\ killTarget' = Nobody
    /\ pc' = Notified([pc EXCEPT ![r] = s])
    /\ UNCHANGED latest

\* The line is the answer to this request: the child is parked.
FinalizeAnswer(r) ==
    /\ pc[r] = "waiting" /\ gate = Nobody /\ IsCurrentWaitOwner(r)
    /\ ClearWaitSlots(r, "answered") /\ parked' = child[r]
    /\ UNCHANGED <<want, op, child, epochAt, issued, through, epoch,
                   catalog, alive, gate, cancels>>

\* Mutant: the child of a failed request is not killed and stays parked if it
\* was; the catalog is cleared.
FinalizeFailureParks(r) ==
    /\ pc[r] = "waiting" /\ gate = Nobody /\ IsCurrentWaitOwner(r)
    /\ ClearWaitSlots(r, "failed")
    /\ catalog' = NoModel
    /\ UNCHANGED <<want, op, child, epochAt, issued, through, epoch,
                   parked, alive, gate, cancels>>

\* Another request's line, malformed, late, or the end of the output.
FinalizeFailure(r) ==
    /\ pc[r] = "waiting" /\ gate = Nobody /\ IsCurrentWaitOwner(r)
    /\ ClearWaitSlots(r, "failed")
    /\ alive' = alive \ {child[r]} /\ catalog' = NoModel
    /\ UNCHANGED <<want, op, child, epochAt, issued, through, epoch,
                   parked, gate, cancels>>

-----------------------------------------------------------------------------
(* cancel_active and shutdown *)

Cancel(who) ==
    /\ cancels < MaxCancels /\ cancels' = cancels + 1
    /\ gate = Nobody /\ gate' = who
    /\ CancelActiveLocked(issued) /\ pc' = Notified(pc)
    /\ UNCHANGED <<want, op, child, epochAt, issued>>

\* invalidate_intents_through_current: those who arrived during the kill are
\* dismissed as well.  A shutdown clears every slot before it.
CancelEnds ==
    /\ gate \in {Escape, Shutdown} /\ gate' = Nobody
    /\ through' = issued /\ pc' = Notified(pc)
    /\ IF gate = Shutdown
       THEN /\ alive' = alive \ {parked} /\ parked' = Nobody
            /\ catalog' = NoModel /\ active' = Nobody /\ killTarget' = Nobody
            /\ UNCHANGED latest
       ELSE UNCHANGED <<slots, process>>
    /\ UNCHANGED <<want, op, child, epochAt, issued, epoch, cancels>>

-----------------------------------------------------------------------------

Step(r) ==
    \/ Enter(r) \/ Supersede(r) \/ Prepare(r) \/ Publish(r)
    \/ FinalizeStale(r) \/ FinalizeAnswer(r) \/ FinalizeFailure(r)

Next ==
    \/ \E r \in Requests : Step(r) \/ Spurious(r)
    \/ \E r \in Requests, m \in Models, o \in Ops : Issue(r, m, o)
    \/ \E who \in {Escape, Shutdown} : Cancel(who)
    \/ CancelEnds

\* Threads run, and recv_timeout returns; nobody has to ask or cancel.
Fairness ==
    /\ \A r \in Requests : WF_vars(Step(r))
    /\ WF_vars(CancelEnds)

Spec == Init /\ [][Next]_vars /\ Fairness
-----------------------------------------------------------------------------
(* Properties *)

\* Whatever is superseded, cancelled, times out or fails to spawn, the
\* machine never holds two of these multi-gigabyte children.
OneChild == \A c, d \in alive : c = d

\* The child a request waits for, and the parked one once the gate is free,
\* has loaded the model the request, or the catalog id, names: a warm child
\* is never handed the frames of another model.
WarmMatches ==
    /\ \A r \in Requests :
          pc[r] = "waiting" /\ active = r => want[child[r]] = want[r]
    /\ gate = Nobody /\ parked # Nobody =>
          parked \in alive /\ want[parked] = catalog

\* A step that leaves the request being served its seat leaves it its child
\* and its kill target too: the late end of a superseded request harms
\* nobody, however many have come after it.
SuccessorUnharmed ==
    [][active # Nobody /\ active' = active =>
          killTarget' = child[active] /\ child[active] \in alive']_vars

\* How a request looks to LatestWins.
Age(r)  == IF r <= issued THEN r ELSE 0
Fate(r) == IF pc[r] = "idle" THEN "none"
           ELSE IF pc[r] = "answered" THEN "answered"
           ELSE IF pc[r] \in {"cancelled", "failed"} THEN "lost" ELSE "open"

\* The promise of LatestWins: served one at a time, never back to an older
\* request, and once Escape or a successor has dismissed a request, wherever
\* its thread was, it does not start and is not answered.
Promise == INSTANCE LatestWins WITH
    clock <- issued, seat <- active, last <- latest, floor <- through,
    age   <- [r \in Requests |-> Age(r)],
    fate  <- [r \in Requests |-> Fate(r)]
KeepsPromise == Promise!Spec

\* Every request returns: those who sleep behind another request's child are
\* woken whichever way that request ends.
RequestsReturn ==
    \A r \in Requests :
        pc[r] = "issued" ~> pc[r] \in {"answered", "cancelled", "failed"}
=============================================================================
