-------------------------- MODULE DictationSession --------------------------
(***************************************************************************)
(* What the dictation machinery promises its user, whatever threads,       *)
(* queues and cancels it is made of: one session at a time; a stopped      *)
(* session has one open run; that run is delivered at most once, or        *)
(* dropped; and only when it is closed can another session begin.          *)
(* Dictation implements it (Dictation!Session).                            *)
(***************************************************************************)
EXTENDS Naturals

CONSTANTS Bindings, Gens

VARIABLES
    phase,       \* "Idle", "Processing", or the binding being recorded
    used,        \* the newest run
    open,        \* the runs that may still deliver
    delivered    \* the runs whose text reached the document

vars == <<phase, used, open, delivered>>

Init ==
    /\ phase = "Idle"
    /\ used = 0
    /\ open = {}
    /\ delivered = {}

\* A key starts a session, or a cancel gives one up.
Begin ==
    /\ phase = "Idle"
    /\ phase' \in Bindings
    /\ UNCHANGED <<used, open, delivered>>

Abandon ==
    /\ phase \in Bindings
    /\ phase' = "Idle"
    /\ UNCHANGED <<used, open, delivered>>

\* Ending a recording opens the next run.
Stop ==
    /\ phase \in Bindings
    /\ used + 1 \in Gens
    /\ phase' = "Processing"
    /\ used' = used + 1
    /\ open' = {used + 1}
    /\ UNCHANGED delivered

Deliver(g) ==
    /\ g \in open
    /\ open' = open \ {g}
    /\ delivered' = delivered \cup {g}
    /\ UNCHANGED <<phase, used>>

Drop(g) ==
    /\ g \in open
    /\ open' = open \ {g}
    /\ UNCHANGED <<phase, used, delivered>>

\* The session is over once nothing of it can reach the document any more.
Close ==
    /\ phase = "Processing"
    /\ open = {}
    /\ phase' = "Idle"
    /\ UNCHANGED <<used, open, delivered>>

Next ==
    \/ Begin \/ Abandon \/ Stop \/ Close
    \/ \E g \in Gens : Deliver(g) \/ Drop(g)

Spec == Init /\ [][Next]_vars
=============================================================================
