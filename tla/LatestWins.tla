----------------------------- MODULE LatestWins -----------------------------
(***************************************************************************)
(* What the OCR runtime promises its callers, however it shares its one    *)
(* child process between them: one request at a time has the seat, only    *)
(* the request in the seat is answered, the seat never goes back to an     *)
(* older request, and a request that was dismissed never sits down.        *)
(***************************************************************************)
EXTENDS Naturals

CONSTANTS Requests, Nobody

VARIABLES
    clock,   \* requests that have arrived
    age,     \* the arrival number of each, 0 before it arrives
    fate,    \* "none", "open", "answered" or "lost"
    seat,    \* the request being served, or Nobody
    last,    \* age of the last one that sat down
    floor    \* requests of this age and older are dismissed

vars == <<clock, age, fate, seat, last, floor>>

Init ==
    /\ clock = 0 /\ last = 0 /\ floor = 0 /\ seat = Nobody
    /\ age = [r \in Requests |-> 0]
    /\ fate = [r \in Requests |-> "none"]

Arrive(r) ==
    /\ fate[r] = "none" /\ clock' = clock + 1
    /\ age' = [age EXCEPT ![r] = clock + 1]
    /\ fate' = [fate EXCEPT ![r] = "open"]
    /\ UNCHANGED <<seat, last, floor>>

Sit(r) ==
    /\ fate[r] = "open" /\ seat = Nobody
    /\ age[r] > last /\ age[r] > floor
    /\ seat' = r /\ last' = age[r]
    /\ UNCHANGED <<clock, age, fate, floor>>

\* Everyone up to age n, the one in the seat among them, is dismissed.
Dismiss(n) ==
    /\ n \in floor..clock /\ (seat # Nobody => age[seat] <= n)
    /\ floor' = n /\ seat' = Nobody
    /\ UNCHANGED <<clock, age, fate, last>>

Answer(r) ==
    /\ seat = r /\ seat' = Nobody
    /\ fate[r] = "open" /\ fate' = [fate EXCEPT ![r] = "answered"]
    /\ UNCHANGED <<clock, age, last, floor>>

Lose(r) ==
    /\ fate[r] = "open" /\ fate' = [fate EXCEPT ![r] = "lost"]
    /\ seat' = IF seat = r THEN Nobody ELSE seat
    /\ UNCHANGED <<clock, age, last, floor>>

Next ==
    \/ \E r \in Requests : Arrive(r) \/ Sit(r) \/ Answer(r) \/ Lose(r)
    \/ \E n \in 0..clock : Dismiss(n)

Spec == Init /\ [][Next]_vars
=============================================================================
