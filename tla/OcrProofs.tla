----------------------------- MODULE OcrProofs ------------------------------
(***************************************************************************)
(* The OCR runtime never has two children, never lends a warm child to     *)
(* another model, and keeps the promise of LatestWins: for any number of   *)
(* requests, models and cancels.                                           *)
(***************************************************************************)
EXTENDS OcrRequests, TLAPS

Holding == {"supersede", "prepare", "publish"}
Fresh   == {"idle", "issued", "asleep", "woken", "supersede", "prepare"}

\* Who is under the gate, and that intents are drawn in order.
Gated ==
    /\ \A r \in Requests : pc[r] \in Holding => gate = r
    /\ gate \in Requests => pc[gate] \in Holding
    /\ \A r \in Requests : pc[r] = "idle" <=> r > issued

\* What the seat of the active request vouches for.
Seated ==
    /\ active = Nobody => killTarget = Nobody
    /\ active # Nobody =>
          /\ pc[active] = "waiting" /\ latest = active /\ active > through
          /\ killTarget = child[active] /\ epochAt[active] = epoch
          /\ child[active] \in alive
          /\ want[child[active]] = want[active] /\ catalog = want[active]
          /\ parked = Nobody
    /\ gate \in {Escape, Shutdown} => active = Nobody

\* What the holder of the gate has secured so far.
Secured ==
    \A r \in Requests :
        /\ pc[r] \in Holding => r > through /\ r > latest
        /\ pc[r] \in {"prepare", "publish"} => active = Nobody
        /\ pc[r] = "publish" =>
              /\ parked = Nobody /\ child[r] \in alive
              /\ want[child[r]] = want[r] /\ catalog = want[r]

\* Nothing lives but the child of the active request, the parked one and
\* the one about to be published; the superseded ones are dead.
Living ==
    /\ \A c \in alive :
          \/ c = parked \/ c = killTarget
          \/ \E r \in Requests : pc[r] = "publish" /\ c = child[r]
    /\ parked # Nobody => parked \in alive /\ want[parked] = catalog
    /\ \A r \in Requests :
          pc[r] = "waiting" /\ active # r => child[r] \notin alive

\* A child has the name of a request that was there to spawn it.
Named ==
    /\ \A r \in Requests : child[r] # Nobody => pc[child[r]] \notin Fresh
    /\ \A r \in alive : pc[r] \notin Fresh
    /\ latest # Nobody => pc[latest] \notin Fresh \cup Holding

IInv == TypeOK /\ Gated /\ Seated /\ Secured /\ Living /\ Named

-----------------------------------------------------------------------------

LEMMA NamesDistinct ==
    /\ Requests \subseteq Nat /\ Nobody \notin Requests
    /\ Escape \notin Requests /\ Shutdown \notin Requests
    /\ Escape # Nobody /\ Shutdown # Nobody /\ Escape # Shutdown
BY RequestsAssumption DEF Requests, Nobody, Escape, Shutdown

LEMMA InitIInv == Init => IInv
BY NamesDistinct, RequestsAssumption
   DEF Init, IInv, TypeOK, Gated, Seated, Secured, Living, Named, Places, Ops,
       Holding, Fresh, Nobody, Escape, Shutdown, Requests

LEMMA IssueKeeps ==
    ASSUME IInv, NEW r \in Requests, NEW m \in Models, NEW o \in Ops, Issue(r, m, o)
    PROVE  IInv'
<1>1. TypeOK'
  BY NamesDistinct, RequestsAssumption DEF Issue, Go, request, slots,
      process, Places, Ops, Holding, Fresh, Nobody, TypeOK, IInv, Requests,
      Escape, Shutdown
<1>2. Gated'
  BY NamesDistinct, RequestsAssumption DEF Issue, Go, request, slots,
      process, Places, Ops, Holding, Fresh, Nobody, TypeOK, Gated, IInv,
      Requests, Escape, Shutdown
<1>3. Seated'
  BY NamesDistinct, RequestsAssumption DEF Issue, Go, request, slots,
      process, Places, Ops, Holding, Fresh, Nobody, TypeOK, Gated, Seated,
      Secured, IInv, Living, Named
<1>4. Secured'
  BY NamesDistinct, RequestsAssumption DEF Issue, Go, request, slots,
      process, Places, Ops, Holding, Fresh, Nobody, TypeOK, Gated, Seated,
      Secured, Named, IInv, Requests, Escape, Shutdown, Living
<1>5. Living'
  BY NamesDistinct, RequestsAssumption DEF Issue, Go, request, slots,
      process, Places, Ops, Holding, Fresh, Nobody, TypeOK, Gated, Seated,
      Secured, Living, Named, IInv
<1>6. Named'
  BY NamesDistinct, RequestsAssumption DEF Issue, Go, request, slots,
      process, Places, Ops, Holding, Fresh, Nobody, TypeOK, Gated, Seated,
      Secured, Living, Named, IInv
<1>7. QED  BY <1>1, <1>2, <1>3, <1>4, <1>5, <1>6 DEF IInv

LEMMA EnterKeeps ==
    ASSUME IInv, NEW r \in Requests, Enter(r)
    PROVE  IInv'
<1>0. /\ pc[r] \in {"issued", "woken"} /\ gate = Nobody
      /\ pc' = [pc EXCEPT ![r] = pc'[r]]
      /\ pc'[r] \in {"asleep", "cancelled", "supersede", "prepare"}
      /\ pc'[r] = "prepare" => active = Nobody
      /\ gate' \in {Nobody, r}
      /\ UNCHANGED <<want, op, child, epochAt, issued, through, epoch, active,
                     latest, killTarget, parked, catalog, alive, cancels>>
  BY DEF Enter, Go, IInv, TypeOK, slots, process
<1>1. TypeOK'
  BY <1>0, NamesDistinct DEF IInv, TypeOK, Places
<1>2. Gated'
  <2>1. pc'[r] \in Holding <=> gate' = r
    BY <1>0, NamesDistinct DEF Enter, Go, IInv, TypeOK, Holding
  <2>2. \A q \in Requests : pc[q] \notin Holding
    BY <1>0, NamesDistinct DEF IInv, TypeOK, Gated, Requests
  <2>3. \A q \in Requests : pc'[q] = "idle" <=> pc[q] = "idle"
    BY <1>0 DEF IInv, TypeOK
  <2>4. \A q \in Requests : pc'[q] \in Holding <=> q = r /\ gate' = r
    BY <1>0, <2>1, <2>2 DEF IInv, TypeOK
  <2> QED
    BY <1>0, <2>3, <2>4, NamesDistinct DEF IInv, Gated
<1>3. Seated'
  <2>1. active # Nobody => pc'[active] = pc[active]
    BY <1>0 DEF IInv, TypeOK, Seated
  <2>2. gate' \notin {Escape, Shutdown}
    BY <1>0, NamesDistinct
  <2>3. UNCHANGED <<active, latest, through, killTarget, child, epochAt, epoch,
                    alive, want, catalog, parked>>
    BY <1>0
  <2> QED  BY ONLY <2>1, <2>2, <2>3, IInv DEF IInv, Seated
<1>4. Secured'
  <2>1. pc'[r] \in {"supersede", "prepare"} => IntentIsCurrent(r)
    BY DEF Enter, Go, IInv, TypeOK
  <2>2. IntentIsCurrent(r) => r > through /\ r > latest
    BY <1>0, NamesDistinct, RequestsAssumption
       DEF IntentIsCurrent, IInv, TypeOK, Gated, Seated, Secured, Living, Named,
           Fresh, Requests, Nobody
  <2>3. \A q \in Requests : pc[q] \notin Holding
    BY <1>0, NamesDistinct DEF IInv, TypeOK, Gated, Requests
  <2>4. \A q \in Requests : pc'[q] \in Holding =>
            q = r /\ pc'[q] \in {"supersede", "prepare"}
    BY <1>0, <2>3 DEF IInv, TypeOK, Holding
  <2>5. QED  BY <1>0, <2>1, <2>2, <2>4 DEF Secured, Holding
<1>5. Living'
  BY <1>0 DEF IInv, TypeOK, Living
<1>6. Named'
  BY <1>0 DEF IInv, TypeOK, Seated, Named, Fresh, Holding, Nobody
<1>7. QED  BY <1>1, <1>2, <1>3, <1>4, <1>5, <1>6 DEF IInv

LEMMA SpuriousKeeps ==
    ASSUME IInv, NEW r \in Requests, Spurious(r)
    PROVE  IInv'
<1>1. TypeOK'
  BY NamesDistinct, RequestsAssumption DEF Spurious, Go, request, slots,
      process, Places, Ops, Holding, Fresh, Nobody, TypeOK, IInv, Requests,
      Escape, Shutdown
<1>2. Gated'
  BY NamesDistinct, RequestsAssumption DEF Spurious, Go, request, slots,
      process, Places, Ops, Holding, Fresh, Nobody, TypeOK, Gated, IInv,
      Requests, Escape, Shutdown
<1>3. Seated'
  BY NamesDistinct, RequestsAssumption DEF Spurious, Go, request, slots,
      process, Places, Ops, Holding, Fresh, Nobody, TypeOK, Gated, Seated,
      Secured, IInv, Living, Named
<1>4. Secured'
  BY NamesDistinct, RequestsAssumption DEF Spurious, Go, request, slots,
      process, Places, Ops, Holding, Fresh, Nobody, TypeOK, Gated, Seated,
      Secured, Named, IInv, Requests, Escape, Shutdown, Living
<1>5. Living'
  BY NamesDistinct, RequestsAssumption DEF Spurious, Go, request, slots,
      process, Places, Ops, Holding, Fresh, Nobody, TypeOK, Gated, Seated,
      Secured, Living, Named, IInv
<1>6. Named'
  BY NamesDistinct, RequestsAssumption DEF Spurious, Go, request, slots,
      process, Places, Ops, Holding, Fresh, Nobody, TypeOK, Gated, Seated,
      Secured, Living, Named, IInv
<1>7. QED  BY <1>1, <1>2, <1>3, <1>4, <1>5, <1>6 DEF IInv

LEMMA SupersedeKeeps ==
    ASSUME IInv, NEW r \in Requests, Supersede(r)
    PROVE  IInv'
<1>1. TypeOK'
  <2>1. pc' \in [Requests -> Places]
    BY DEF Supersede, Notified, IInv, TypeOK, Places
  <2>2. through' \in 0..issued /\ issued' = issued
    BY NamesDistinct DEF Supersede, CancelActiveLocked, IInv, TypeOK, Gated,
                         Requests
  <2>3. epoch' \in Nat /\ epochAt' \in [Requests -> 0..epoch']
    BY DEF Supersede, CancelActiveLocked, IInv, TypeOK
  <2>4. /\ catalog' \in Models \cup {NoModel} /\ alive' \subseteq Requests
        /\ {active', latest', killTarget', parked'} \subseteq Requests \cup {Nobody}
    BY DEF Supersede, CancelActiveLocked, IInv, TypeOK
  <2> QED
    BY <2>1, <2>2, <2>3, <2>4 DEF Supersede, CancelActiveLocked, IInv, TypeOK, Ops
<1>2. Gated'
  BY NamesDistinct, RequestsAssumption DEF Supersede, CancelActiveLocked,
      Notified, Go, request, slots, process, Places, Ops, Holding, Fresh,
      Nobody, TypeOK, Gated, IInv, Requests, Escape, Shutdown
<1>3. Seated'
  BY NamesDistinct, RequestsAssumption DEF Supersede, CancelActiveLocked,
      Notified, Go, request, slots, process, Places, Ops, Holding, Fresh,
      Nobody, TypeOK, Gated, Seated, Secured, IInv, Living, Named
<1>4. Secured'
  BY NamesDistinct, RequestsAssumption DEF Supersede, CancelActiveLocked,
      Notified, Go, request, slots, process, Places, Ops, Holding, Fresh,
      Nobody, TypeOK, Gated, Seated, Secured, Named, IInv, Requests, Escape,
      Shutdown, Living
<1>5. Living'
  BY NamesDistinct, RequestsAssumption DEF Supersede, CancelActiveLocked,
      Notified, Go, request, slots, process, Places, Ops, Holding, Fresh,
      Nobody, TypeOK, Gated, Seated, Secured, Living, Named, IInv
<1>6. Named'
  BY NamesDistinct, RequestsAssumption DEF Supersede, CancelActiveLocked,
      Notified, Go, request, slots, process, Places, Ops, Holding, Fresh,
      Nobody, TypeOK, Gated, Seated, Secured, Living, Named, IInv
<1>7. QED  BY <1>1, <1>2, <1>3, <1>4, <1>5, <1>6 DEF IInv

LEMMA PrepareKeeps ==
    ASSUME IInv, NEW r \in Requests, Prepare(r)
    PROVE  IInv'
<1>0. /\ pc[r] = "prepare" /\ gate = r /\ active = Nobody /\ r \notin alive
      /\ pc' = [pc EXCEPT ![r] = pc'[r]] /\ pc'[r] \in {"failed", "publish"}
      /\ catalog' = want[r] /\ parked' = Nobody
      /\ UNCHANGED <<want, op, epochAt, issued, through, epoch, active, latest,
                     killTarget, cancels>>
  BY DEF Prepare, Go, IInv, TypeOK, Gated, Secured, Named, Holding, Fresh, slots
<1>a. \/ /\ pc'[r] = "failed" /\ gate' = Nobody
         /\ alive' = alive \ {parked} /\ child' = child
      \/ \E c \in Requests :
            /\ pc'[r] = "publish" /\ gate' = gate
            /\ child' = [child EXCEPT ![r] = c]
            /\ c = r \/ (catalog = want[r] /\ c = parked)
            /\ alive' = (alive \ {parked}) \cup {c}
  <2>1. CASE pc'[r] = "failed"
    BY <2>1 DEF Prepare, Go, IInv, TypeOK
  <2>2. CASE pc'[r] = "publish"
    <3> DEFINE c == IF parked # Nobody /\ catalog = want[r] THEN parked ELSE r
    <3>1. c \in Requests /\ (c = r \/ (catalog = want[r] /\ c = parked))
      BY DEF IInv, TypeOK
    <3>2. child' = [child EXCEPT ![r] = c] /\ child'[r] = c /\ gate' = gate
      BY <2>2 DEF Prepare, Go, IInv, TypeOK
    <3>3. alive' = (alive \ {parked}) \cup {c}
      BY <2>2, <3>2 DEF Prepare, Go, IInv, TypeOK
    <3> QED
      BY <2>2, <3>1, <3>2, <3>3
  <2> QED
    BY <1>0, <2>1, <2>2
<1>c. alive \subseteq {parked}
  BY <1>0, NamesDistinct DEF IInv, TypeOK, Gated, Seated, Living, Holding
<1>1. TypeOK'
  <2>1. alive' \subseteq Requests /\ child' \in [Requests -> Requests \cup {Nobody}]
    <3>1. CASE child' = child /\ alive' = alive \ {parked}
      BY <3>1 DEF IInv, TypeOK
    <3>2. CASE \E c \in Requests : /\ child' = [child EXCEPT ![r] = c]
                                   /\ alive' = (alive \ {parked}) \cup {c}
      BY <3>2 DEF IInv, TypeOK
    <3> QED
      BY <1>a, <3>1, <3>2
  <2>2. catalog' \in Models \cup {NoModel} /\ pc' \in [Requests -> Places]
    BY <1>0 DEF IInv, TypeOK, Places
  <2>3. gate' \in Requests \cup {Nobody, Escape, Shutdown}
    BY <1>0, <1>a DEF IInv, TypeOK
  <2> QED
    BY <1>0, <2>1, <2>2, <2>3 DEF IInv, TypeOK
<1>2. Gated'
  BY <1>0, <1>a, NamesDistinct DEF IInv, TypeOK, Gated, Holding
<1>3. Seated'
  BY NamesDistinct, RequestsAssumption DEF Prepare, Go, request, slots,
      process, Places, Ops, Holding, Fresh, Nobody, TypeOK, Gated, Seated,
      Secured, IInv, Living, Named
<1>4. Secured'
  BY NamesDistinct, RequestsAssumption DEF Prepare, Go, request, slots,
      process, Places, Ops, Holding, Fresh, Nobody, TypeOK, Gated, Seated,
      Secured, Named, IInv, Requests, Escape, Shutdown, Living
<1>5. Living'
  <2>1. CASE pc'[r] = "failed" /\ alive' = alive \ {parked} /\ child' = child
    BY <1>0, <1>c, <2>1, NamesDistinct
       DEF IInv, TypeOK, Seated, Living, Named, Fresh, Nobody
  <2>2. ASSUME NEW c \in Requests,
               pc'[r] = "publish", gate' = gate,
               child' = [child EXCEPT ![r] = c],
               c = r \/ (catalog = want[r] /\ c = parked),
               alive' = (alive \ {parked}) \cup {c}
        PROVE  Living'
    BY <1>0, <1>c, <2>2, NamesDistinct
       DEF IInv, TypeOK, Seated, Living, Named, Fresh, Nobody
  <2> QED
    BY <1>a, <2>1, <2>2
<1>6. Named'
  <2>1. CASE pc'[r] = "failed" /\ alive' = alive \ {parked} /\ child' = child
    BY <1>0, <1>c, <2>1, NamesDistinct
       DEF IInv, TypeOK, Named, Living, Fresh, Holding, Nobody
  <2>2. ASSUME NEW c \in Requests,
               pc'[r] = "publish", gate' = gate,
               child' = [child EXCEPT ![r] = c],
               c = r \/ (catalog = want[r] /\ c = parked),
               alive' = (alive \ {parked}) \cup {c}
        PROVE  Named'
    <3>1. pc[c] \notin Fresh \/ c = r
      BY <2>2, NamesDistinct DEF IInv, TypeOK, Living, Named
    <3>2. \A q \in Requests : pc[q] \notin Fresh \/ q = r => pc'[q] \notin Fresh
      BY <1>0, <2>2 DEF IInv, TypeOK, Fresh
    <3>3. \A q \in Requests : child'[q] # Nobody => pc'[child'[q]] \notin Fresh
      BY <2>2, <3>1, <3>2 DEF IInv, TypeOK, Named
    <3>4. \A q \in alive' : pc'[q] \notin Fresh
      BY <2>2, <3>1, <3>2 DEF IInv, TypeOK, Named
    <3>5. latest' # Nobody => pc'[latest'] \notin Fresh \cup Holding
      BY <1>0, <2>2 DEF IInv, TypeOK, Named, Fresh, Holding
    <3> QED
      BY <3>3, <3>4, <3>5 DEF Named
  <2> QED
    BY <1>a, <2>1, <2>2
<1>7. QED  BY <1>1, <1>2, <1>3, <1>4, <1>5, <1>6 DEF IInv

LEMMA PublishKeeps ==
    ASSUME IInv, NEW r \in Requests, Publish(r)
    PROVE  IInv'
<1>1. TypeOK'
  BY NamesDistinct, RequestsAssumption DEF Publish, Go, request, slots,
      process, Places, Ops, Holding, Fresh, Nobody, TypeOK, IInv, Requests,
      Escape, Shutdown
<1>2. Gated'
  BY NamesDistinct, RequestsAssumption DEF Publish, Go, request, slots,
      process, Places, Ops, Holding, Fresh, Nobody, TypeOK, Gated, IInv,
      Requests, Escape, Shutdown
<1>3. Seated'
  BY NamesDistinct, RequestsAssumption DEF Publish, Go, request, slots,
      process, Places, Ops, Holding, Fresh, Nobody, TypeOK, Gated, Seated,
      Secured, IInv, Living, Named
<1>4. Secured'
  BY NamesDistinct, RequestsAssumption DEF Publish, Go, request, slots,
      process, Places, Ops, Holding, Fresh, Nobody, TypeOK, Gated, Seated,
      Secured, Named, IInv, Requests, Escape, Shutdown, Living
<1>5. Living'
  BY NamesDistinct, RequestsAssumption DEF Publish, Go, request, slots,
      process, Places, Ops, Holding, Fresh, Nobody, TypeOK, Gated, Seated,
      Secured, Living, Named, IInv
<1>6. Named'
  BY NamesDistinct, RequestsAssumption DEF Publish, Go, request, slots,
      process, Places, Ops, Holding, Fresh, Nobody, TypeOK, Gated, Seated,
      Secured, Living, Named, IInv
<1>7. QED  BY <1>1, <1>2, <1>3, <1>4, <1>5, <1>6 DEF IInv

LEMMA FinalizeStaleKeeps ==
    ASSUME IInv, NEW r \in Requests, FinalizeStale(r)
    PROVE  IInv'
<1>1. TypeOK'
  BY NamesDistinct, RequestsAssumption DEF FinalizeStale,
      IsCurrentWaitOwner, Go, request, slots, process, Places, Ops, Holding,
      Fresh, Nobody, TypeOK, IInv, Requests, Escape, Shutdown
<1>2. Gated'
  BY NamesDistinct, RequestsAssumption DEF FinalizeStale,
      IsCurrentWaitOwner, Go, request, slots, process, Places, Ops, Holding,
      Fresh, Nobody, TypeOK, Gated, IInv, Requests, Escape, Shutdown
<1>3. Seated'
  BY NamesDistinct, RequestsAssumption DEF FinalizeStale,
      IsCurrentWaitOwner, Go, request, slots, process, Places, Ops, Holding,
      Fresh, Nobody, TypeOK, Gated, Seated, Secured, IInv, Living, Named
<1>4. Secured'
  BY NamesDistinct, RequestsAssumption DEF FinalizeStale,
      IsCurrentWaitOwner, Go, request, slots, process, Places, Ops, Holding,
      Fresh, Nobody, TypeOK, Gated, Seated, Secured, Named, IInv, Requests,
      Escape, Shutdown, Living
<1>5. Living'
  BY NamesDistinct, RequestsAssumption DEF FinalizeStale,
      IsCurrentWaitOwner, Go, request, slots, process, Places, Ops, Holding,
      Fresh, Nobody, TypeOK, Gated, Seated, Secured, Living, Named, IInv
<1>6. Named'
  BY NamesDistinct, RequestsAssumption DEF FinalizeStale,
      IsCurrentWaitOwner, Go, request, slots, process, Places, Ops, Holding,
      Fresh, Nobody, TypeOK, Gated, Seated, Secured, Living, Named, IInv
<1>7. QED  BY <1>1, <1>2, <1>3, <1>4, <1>5, <1>6 DEF IInv

LEMMA FinalizeAnswerKeeps ==
    ASSUME IInv, NEW r \in Requests, FinalizeAnswer(r)
    PROVE  IInv'
<1>1. TypeOK'
  BY NamesDistinct, RequestsAssumption DEF FinalizeAnswer,
      IsCurrentWaitOwner, ClearWaitSlots, Notified, Go, request, slots,
      process, Places, Ops, Holding, Fresh, Nobody, TypeOK, IInv, Requests,
      Escape, Shutdown
<1>2. Gated'
  BY NamesDistinct, RequestsAssumption DEF FinalizeAnswer,
      IsCurrentWaitOwner, ClearWaitSlots, Notified, Go, request, slots,
      process, Places, Ops, Holding, Fresh, Nobody, TypeOK, Gated, IInv,
      Requests, Escape, Shutdown
<1>3. Seated'
  BY NamesDistinct, RequestsAssumption DEF FinalizeAnswer,
      IsCurrentWaitOwner, ClearWaitSlots, Notified, Go, request, slots,
      process, Places, Ops, Holding, Fresh, Nobody, TypeOK, Gated, Seated,
      Secured, IInv, Living, Named
<1>4. Secured'
  BY NamesDistinct, RequestsAssumption DEF FinalizeAnswer,
      IsCurrentWaitOwner, ClearWaitSlots, Notified, Go, request, slots,
      process, Places, Ops, Holding, Fresh, Nobody, TypeOK, Gated, Seated,
      Secured, Named, IInv, Requests, Escape, Shutdown, Living
<1>5. Living'
  BY NamesDistinct, RequestsAssumption DEF FinalizeAnswer,
      IsCurrentWaitOwner, ClearWaitSlots, Notified, Go, request, slots,
      process, Places, Ops, Holding, Fresh, Nobody, TypeOK, Gated, Seated,
      Secured, Living, Named, IInv
<1>6. Named'
  BY NamesDistinct, RequestsAssumption DEF FinalizeAnswer,
      IsCurrentWaitOwner, ClearWaitSlots, Notified, Go, request, slots,
      process, Places, Ops, Holding, Fresh, Nobody, TypeOK, Gated, Seated,
      Secured, Living, Named, IInv
<1>7. QED  BY <1>1, <1>2, <1>3, <1>4, <1>5, <1>6 DEF IInv

LEMMA FinalizeFailureKeeps ==
    ASSUME IInv, NEW r \in Requests, FinalizeFailure(r)
    PROVE  IInv'
<1>1. TypeOK'
  BY NamesDistinct, RequestsAssumption DEF FinalizeFailure,
      IsCurrentWaitOwner, ClearWaitSlots, Notified, Go, request, slots,
      process, Places, Ops, Holding, Fresh, Nobody, TypeOK, IInv, Requests,
      Escape, Shutdown
<1>2. Gated'
  BY NamesDistinct, RequestsAssumption DEF FinalizeFailure,
      IsCurrentWaitOwner, ClearWaitSlots, Notified, Go, request, slots,
      process, Places, Ops, Holding, Fresh, Nobody, TypeOK, Gated, IInv,
      Requests, Escape, Shutdown
<1>3. Seated'
  BY NamesDistinct, RequestsAssumption DEF FinalizeFailure,
      IsCurrentWaitOwner, ClearWaitSlots, Notified, Go, request, slots,
      process, Places, Ops, Holding, Fresh, Nobody, TypeOK, Gated, Seated,
      Secured, IInv, Living, Named
<1>4. Secured'
  BY NamesDistinct, RequestsAssumption DEF FinalizeFailure,
      IsCurrentWaitOwner, ClearWaitSlots, Notified, Go, request, slots,
      process, Places, Ops, Holding, Fresh, Nobody, TypeOK, Gated, Seated,
      Secured, Named, IInv, Requests, Escape, Shutdown, Living
<1>5. Living'
  BY NamesDistinct, RequestsAssumption DEF FinalizeFailure,
      IsCurrentWaitOwner, ClearWaitSlots, Notified, Go, request, slots,
      process, Places, Ops, Holding, Fresh, Nobody, TypeOK, Gated, Seated,
      Secured, Living, Named, IInv
<1>6. Named'
  BY NamesDistinct, RequestsAssumption DEF FinalizeFailure,
      IsCurrentWaitOwner, ClearWaitSlots, Notified, Go, request, slots,
      process, Places, Ops, Holding, Fresh, Nobody, TypeOK, Gated, Seated,
      Secured, Living, Named, IInv
<1>7. QED  BY <1>1, <1>2, <1>3, <1>4, <1>5, <1>6 DEF IInv

LEMMA CancelKeeps ==
    ASSUME IInv, NEW who \in {Escape, Shutdown}, Cancel(who)
    PROVE  IInv'
<1>1. TypeOK'
  <2>1. pc' \in [Requests -> Places]
    BY DEF Cancel, Notified, IInv, TypeOK, Places
  <2>2. /\ through' = issued /\ issued' = issued /\ cancels' \in 0..MaxCancels
        /\ epoch' = epoch + 1 /\ epochAt' = epochAt
    BY RequestsAssumption DEF Cancel, CancelActiveLocked, IInv, TypeOK
  <2> QED
    BY <2>1, <2>2 DEF Cancel, CancelActiveLocked, IInv, TypeOK, Ops
<1>2. Gated'
  BY NamesDistinct, RequestsAssumption DEF Cancel, CancelActiveLocked,
      Notified, Go, request, slots, process, Places, Ops, Holding, Fresh,
      Nobody, TypeOK, Gated, IInv, Requests, Escape, Shutdown
<1>3. Seated'
  BY NamesDistinct, RequestsAssumption DEF Cancel, CancelActiveLocked,
      Notified, Go, request, slots, process, Places, Ops, Holding, Fresh,
      Nobody, TypeOK, Gated, Seated, Secured, IInv, Living, Named
<1>4. Secured'
  BY NamesDistinct, RequestsAssumption DEF Cancel, CancelActiveLocked,
      Notified, Go, request, slots, process, Places, Ops, Holding, Fresh,
      Nobody, TypeOK, Gated, Seated, Secured, Named, IInv, Requests, Escape,
      Shutdown, Living
<1>5. Living'
  BY NamesDistinct, RequestsAssumption DEF Cancel, CancelActiveLocked,
      Notified, Go, request, slots, process, Places, Ops, Holding, Fresh,
      Nobody, TypeOK, Gated, Seated, Secured, Living, Named, IInv
<1>6. Named'
  BY NamesDistinct, RequestsAssumption DEF Cancel, CancelActiveLocked,
      Notified, Go, request, slots, process, Places, Ops, Holding, Fresh,
      Nobody, TypeOK, Gated, Seated, Secured, Living, Named, IInv
<1>7. QED  BY <1>1, <1>2, <1>3, <1>4, <1>5, <1>6 DEF IInv

LEMMA CancelEndsKeeps ==
    ASSUME IInv, CancelEnds
    PROVE  IInv'
<1>0. /\ gate \in {Escape, Shutdown} /\ gate' = Nobody /\ through' = issued
      /\ active = Nobody /\ active' = Nobody
      /\ killTarget = Nobody /\ killTarget' = Nobody
      /\ pc' \in [Requests -> Places]
      /\ \A r \in Requests : pc'[r] = IF pc[r] = "asleep" THEN "woken" ELSE pc[r]
      /\ \/ parked' = parked /\ alive' = alive /\ catalog' = catalog
         \/ parked' = Nobody /\ alive' = alive \ {parked} /\ catalog' = NoModel
      /\ UNCHANGED <<want, op, child, epochAt, issued, epoch, latest, cancels>>
  BY DEF CancelEnds, Notified, IInv, TypeOK, Seated, slots, process, Places
<1>a. \A r \in Requests : pc[r] \notin Holding
  BY <1>0, NamesDistinct DEF IInv, Gated
<1>1. TypeOK'
  <2>1. through' \in 0..issued'
    BY <1>0, RequestsAssumption DEF IInv, TypeOK
  <2> QED
    BY <1>0, <2>1 DEF IInv, TypeOK
<1>2. Gated'
  BY <1>0, <1>a, NamesDistinct DEF IInv, TypeOK, Gated, Holding
<1>3. Seated'
  BY <1>0 DEF Seated
<1>4. Secured'
  BY <1>0, <1>a DEF Secured, Holding
<1>5. Living'
  BY <1>0, <1>a, NamesDistinct DEF IInv, TypeOK, Living, Holding
<1>6. Named'
  BY <1>0, <1>a, NamesDistinct DEF IInv, TypeOK, Named, Fresh, Holding, Nobody
<1>7. QED  BY <1>1, <1>2, <1>3, <1>4, <1>5, <1>6 DEF IInv

-----------------------------------------------------------------------------

LEMMA StepIInv == IInv /\ [Next]_vars => IInv'
<1> SUFFICES ASSUME IInv, [Next]_vars PROVE IInv'
  OBVIOUS
<1>1. ASSUME NEW r \in Requests, Step(r) \/ Spurious(r)
      PROVE  IInv'
  BY <1>1, EnterKeeps, SupersedeKeeps, PrepareKeeps, PublishKeeps,
     FinalizeStaleKeeps, FinalizeAnswerKeeps, FinalizeFailureKeeps,
     SpuriousKeeps DEF Step
<1>2. ASSUME NEW r \in Requests, NEW m \in Models, NEW o \in Ops, Issue(r, m, o)
      PROVE  IInv'
  BY <1>2, IssueKeeps
<1>3. ASSUME NEW who \in {Escape, Shutdown}, Cancel(who)
      PROVE  IInv'
  BY <1>3, CancelKeeps
<1>4. CASE CancelEnds
  BY <1>4, CancelEndsKeeps
<1>5. CASE UNCHANGED vars
  BY <1>5 DEF vars, request, slots, process, IInv, TypeOK, Gated, Seated,
              Secured, Living, Named
<1> QED
  BY <1>1, <1>2, <1>3, <1>4, <1>5 DEF Next

\* The inductive invariant holds of every behaviour.
THEOREM Invariance == Spec => []IInv
BY InitIInv, StepIInv, PTL DEF Spec

\* The types of ocr_runtime.rs's manager: the invalidated intents are never
\* ahead of the issued ones.
THEOREM TypeCorrect == Spec => []TypeOK
<1>1. IInv => TypeOK
  BY DEF IInv
<1> QED
  BY <1>1, Invariance, PTL

\* At no time are two Python children alive.
THEOREM AtMostOneChild == Spec => []OneChild
<1>1. IInv => OneChild
  BY NamesDistinct DEF IInv, TypeOK, Gated, Seated, Secured, Living, OneChild,
                       Holding
<1> QED
  BY <1>1, Invariance, PTL

\* A warm child is only ever used for the model it has loaded.
THEOREM WarmChildMatches == Spec => []WarmMatches
<1>1. IInv => WarmMatches
  BY NamesDistinct DEF IInv, Seated, Living, WarmMatches, Nobody
<1> QED
  BY <1>1, Invariance, PTL

\* What ends late does not touch the child of the request being served.
THEOREM SuccessorsUnharmed == Spec => SuccessorUnharmed
<1>1. IInv /\ [Next]_vars =>
        [active # Nobody /\ active' = active =>
            killTarget' = child[active] /\ child[active] \in alive']_vars
  <2> SUFFICES ASSUME IInv, [Next]_vars, active # Nobody, active' = active
               PROVE  killTarget' = child[active] /\ child[active] \in alive'
    OBVIOUS
  <2>1. child' = child
    <3>1. \A r \in Requests : ~Prepare(r)
      BY DEF Prepare, IInv, Secured
    <3> QED
      BY <3>1 DEF Next, Step, Enter, Spurious, Supersede, Publish,
                  FinalizeStale, FinalizeAnswer, FinalizeFailure, Issue,
                  Cancel, CancelEnds, vars, request
  <2>2. IInv'
    BY StepIInv
  <2> QED
    BY <2>1, <2>2 DEF IInv, Seated
<1> QED
  BY <1>1, Invariance, PTL DEF Spec, SuccessorUnharmed

-----------------------------------------------------------------------------

LEMMA FateKept ==
    ASSUME NEW r \in Requests, NEW f,
           \A q \in Requests : Fate(q)' = IF q = r THEN f ELSE Fate(q),
           issued' = issued
    PROVE  /\ [q \in Requests |-> Fate(q)]' =
                 [[q \in Requests |-> Fate(q)] EXCEPT ![r] = f]
           /\ [q \in Requests |-> Age(q)]' = [q \in Requests |-> Age(q)]
BY DEF Age

LEMMA InitPromise == Init => Promise!Init
BY NamesDistinct DEF Init, Promise!Init, Age, Fate, Nobody, Requests

LEMMA ArriveRefined ==
    ASSUME IInv, NEW r \in Requests, NEW m \in Models, NEW o \in Ops, Issue(r, m, o)
    PROVE  Promise!Arrive(r)
<1>1. /\ r = issued + 1 /\ issued' = r /\ pc' = [pc EXCEPT ![r] = "issued"]
      /\ UNCHANGED <<active, latest, through>> /\ pc[r] = "idle"
  BY NamesDistinct DEF Issue, Go, slots, IInv, TypeOK, Gated, Requests
<1>2. \A q \in Requests : Fate(q)' = IF q = r THEN "open" ELSE Fate(q)
  BY <1>1 DEF Fate, IInv, TypeOK
<1>3. \A q \in Requests : Age(q)' = IF q = r THEN issued + 1 ELSE Age(q)
  BY <1>1, NamesDistinct DEF Age, IInv, TypeOK
<1>4. Fate(r) = "none"
  BY <1>1 DEF Fate
<1> QED
  BY <1>1, <1>2, <1>3, <1>4 DEF Promise!Arrive

LEMMA EnterLoses ==
    ASSUME IInv, NEW r \in Requests, Enter(r), pc'[r] \in {"cancelled", "failed"}
    PROVE  Promise!Lose(r)
<1>1. /\ pc[r] \notin {"idle", "answered", "cancelled", "failed"}
      /\ \A q \in Requests :
            q # r => pc'[q] = pc[q] \/ (pc[q] = "asleep" /\ pc'[q] = "woken")
      /\ active' = IF active = r THEN Nobody ELSE active
      /\ UNCHANGED <<issued, latest, through>>
  BY NamesDistinct DEF Enter, Go, slots, IInv, TypeOK, Gated, Seated
<1>2. \A q \in Requests : Fate(q)' = IF q = r THEN "lost" ELSE Fate(q)
  BY <1>1 DEF Fate, IInv, TypeOK
<1>3. Fate(r) = "open"
  BY <1>1 DEF Fate
<1> QED
  BY <1>1, <1>2, <1>3, FateKept DEF Promise!Lose

LEMMA PrepareLoses ==
    ASSUME IInv, NEW r \in Requests, Prepare(r), pc'[r] \in {"cancelled", "failed"}
    PROVE  Promise!Lose(r)
<1>1. /\ pc[r] \notin {"idle", "answered", "cancelled", "failed"}
      /\ \A q \in Requests :
            q # r => pc'[q] = pc[q] \/ (pc[q] = "asleep" /\ pc'[q] = "woken")
      /\ active' = IF active = r THEN Nobody ELSE active
      /\ UNCHANGED <<issued, latest, through>>
  BY NamesDistinct DEF Prepare, Go, slots, IInv, TypeOK, Gated, Seated, Secured
<1>2. \A q \in Requests : Fate(q)' = IF q = r THEN "lost" ELSE Fate(q)
  BY <1>1 DEF Fate, IInv, TypeOK
<1>3. Fate(r) = "open"
  BY <1>1 DEF Fate
<1> QED
  BY <1>1, <1>2, <1>3, FateKept DEF Promise!Lose

LEMMA StaleLoses ==
    ASSUME IInv, NEW r \in Requests, FinalizeStale(r), pc'[r] \in {"cancelled", "failed"}
    PROVE  Promise!Lose(r)
<1>1. /\ pc[r] \notin {"idle", "answered", "cancelled", "failed"}
      /\ \A q \in Requests :
            q # r => pc'[q] = pc[q] \/ (pc[q] = "asleep" /\ pc'[q] = "woken")
      /\ active' = IF active = r THEN Nobody ELSE active
      /\ UNCHANGED <<issued, latest, through>>
  BY NamesDistinct DEF FinalizeStale, Go, slots, IInv, TypeOK, Gated, Seated, IsCurrentWaitOwner
<1>2. \A q \in Requests : Fate(q)' = IF q = r THEN "lost" ELSE Fate(q)
  BY <1>1 DEF Fate, IInv, TypeOK
<1>3. Fate(r) = "open"
  BY <1>1 DEF Fate
<1> QED
  BY <1>1, <1>2, <1>3, FateKept DEF Promise!Lose

LEMMA FailureLoses ==
    ASSUME IInv, NEW r \in Requests, FinalizeFailure(r), pc'[r] \in {"cancelled", "failed"}
    PROVE  Promise!Lose(r)
<1>1. /\ pc[r] \notin {"idle", "answered", "cancelled", "failed"}
      /\ \A q \in Requests :
            q # r => pc'[q] = pc[q] \/ (pc[q] = "asleep" /\ pc'[q] = "woken")
      /\ active' = IF active = r THEN Nobody ELSE active
      /\ UNCHANGED <<issued, latest, through>>
  BY NamesDistinct
  DEF FinalizeFailure, Go, slots, IInv, TypeOK, Gated, Seated, ClearWaitSlots,
      Notified, IsCurrentWaitOwner
<1>2. \A q \in Requests : Fate(q)' = IF q = r THEN "lost" ELSE Fate(q)
  BY <1>1 DEF Fate, IInv, TypeOK
<1>3. Fate(r) = "open"
  BY <1>1 DEF Fate
<1> QED
  BY <1>1, <1>2, <1>3, FateKept DEF Promise!Lose

LEMMA EnterStutters ==
    ASSUME IInv, NEW r \in Requests, Enter(r), pc'[r] \notin {"cancelled", "failed"}
    PROVE  UNCHANGED Promise!vars
<1>1. /\ \A q \in Requests :
            pc'[q] = pc[q] \/ {pc[q], pc'[q]} \cap {"idle", "answered", "cancelled", "failed"} = {}
      /\ UNCHANGED <<issued, active, latest, through>>
  BY DEF Enter, Go, slots, IInv, TypeOK, Places
<1>2. \A q \in Requests : Fate(q)' = Fate(q)
  BY <1>1 DEF Fate
<1> QED
  BY <1>1, <1>2 DEF Promise!vars, Age

LEMMA SpuriousStutters ==
    ASSUME IInv, NEW r \in Requests, Spurious(r)
    PROVE  UNCHANGED Promise!vars
<1>1. /\ \A q \in Requests :
            pc'[q] = pc[q] \/ {pc[q], pc'[q]} \cap {"idle", "answered", "cancelled", "failed"} = {}
      /\ UNCHANGED <<issued, active, latest, through>>
  BY DEF Spurious, Go, slots, IInv, TypeOK
<1>2. \A q \in Requests : Fate(q)' = Fate(q)
  BY <1>1 DEF Fate
<1> QED
  BY <1>1, <1>2 DEF Promise!vars, Age

LEMMA PrepareStutters ==
    ASSUME IInv, NEW r \in Requests, Prepare(r), pc'[r] \notin {"cancelled", "failed"}
    PROVE  UNCHANGED Promise!vars
<1>1. /\ \A q \in Requests :
            pc'[q] = pc[q] \/ {pc[q], pc'[q]} \cap {"idle", "answered", "cancelled", "failed"} = {}
      /\ UNCHANGED <<issued, active, latest, through>>
  BY DEF Prepare, Go, slots, IInv, TypeOK
<1>2. \A q \in Requests : Fate(q)' = Fate(q)
  BY <1>1 DEF Fate
<1> QED
  BY <1>1, <1>2 DEF Promise!vars, Age

LEMMA PublishSits ==
    ASSUME IInv, NEW r \in Requests, Publish(r)
    PROVE  Promise!Sit(r)
<1>1. /\ pc[r] = "publish" /\ pc' = [pc EXCEPT ![r] = "waiting"]
      /\ active = Nobody /\ active' = r /\ latest' = r
      /\ r > latest /\ r > through /\ r <= issued
      /\ UNCHANGED <<issued, through>>
  BY NamesDistinct DEF Publish, Go, IInv, TypeOK, Gated, Secured, Holding, Requests
<1>2. \A q \in Requests : Fate(q)' = Fate(q)
  BY <1>1 DEF Fate, IInv, TypeOK
<1>3. Age(r) = r /\ Fate(r) = "open"
  BY <1>1 DEF Age, Fate
<1> QED
  BY <1>1, <1>2, <1>3 DEF Promise!Sit, Age

LEMMA AnswerAnswers ==
    ASSUME IInv, NEW r \in Requests, FinalizeAnswer(r)
    PROVE  Promise!Answer(r)
<1>1. /\ pc[r] = "waiting" /\ pc'[r] = "answered"
      /\ \A q \in Requests :
            q # r => pc'[q] = pc[q] \/ (pc[q] = "asleep" /\ pc'[q] = "woken")
      /\ active = r /\ active' = Nobody
      /\ UNCHANGED <<issued, latest, through>>
  BY DEF FinalizeAnswer, ClearWaitSlots, Notified, IsCurrentWaitOwner, IInv, TypeOK
<1>2. \A q \in Requests : Fate(q)' = IF q = r THEN "answered" ELSE Fate(q)
  BY <1>1 DEF Fate, IInv, TypeOK
<1>3. Fate(r) = "open"
  BY <1>1 DEF Fate
<1> QED
  BY <1>1, <1>2, <1>3, FateKept DEF Promise!Answer

LEMMA SupersedeDismisses ==
    ASSUME IInv, NEW r \in Requests, Supersede(r)
    PROVE  Promise!Dismiss(r - 1) /\ r - 1 \in 0..issued
<1>1. /\ \A q \in Requests :
            pc'[q] = pc[q] \/ {pc[q], pc'[q]} \cap {"idle", "answered", "cancelled", "failed"} = {}
      /\ active' = Nobody /\ UNCHANGED <<issued, latest>>
  BY DEF Supersede, CancelActiveLocked, Notified, IInv, TypeOK
<1>2. through' = r - 1 /\ r - 1 \in through..issued
  BY NamesDistinct DEF Supersede, CancelActiveLocked, IInv, TypeOK, Gated, Secured,
                       Holding, Requests
<1>3. active # Nobody => Age(active) <= r - 1
  BY NamesDistinct DEF Supersede, Age, IInv, TypeOK, Seated, Secured, Holding,
                       Requests, Nobody
<1>4. \A q \in Requests : Fate(q)' = Fate(q)
  BY <1>1 DEF Fate
<1>5. active # Nobody => active \in Requests
  BY DEF IInv, TypeOK
<1>6. r - 1 \in 0..issued
  BY <1>2 DEF IInv, TypeOK
<1> QED
  BY <1>1, <1>2, <1>3, <1>4, <1>5, <1>6 DEF Promise!Dismiss, Age

LEMMA AllDismissed ==
    ASSUME IInv, CancelEnds \/ \E who \in {Escape, Shutdown} : Cancel(who)
    PROVE  Promise!Dismiss(issued) /\ issued \in 0..issued
<1>1. /\ \A q \in Requests :
            pc'[q] = pc[q] \/ {pc[q], pc'[q]} \cap {"idle", "answered", "cancelled", "failed"} = {}
      /\ active' = Nobody /\ UNCHANGED <<issued, latest>>
  BY DEF Cancel, CancelEnds, CancelActiveLocked, Notified, IInv, TypeOK, Seated,
         slots, process
<1>2. through' = issued /\ issued \in through..issued /\ issued \in 0..issued
  BY RequestsAssumption DEF Cancel, CancelEnds, CancelActiveLocked, IInv, TypeOK
<1>3. active # Nobody => active \in Requests /\ Age(active) <= issued
  BY RequestsAssumption, NamesDistinct DEF Age, IInv, TypeOK, Requests
<1>4. \A q \in Requests : Fate(q)' = Fate(q)
  BY <1>1 DEF Fate
<1> QED
  BY <1>1, <1>2, <1>3, <1>4 DEF Promise!Dismiss, Age

LEMMA StepPromise == IInv /\ [Next]_vars => [Promise!Next]_(Promise!vars)
<1> SUFFICES ASSUME IInv, [Next]_vars PROVE [Promise!Next]_(Promise!vars)
  OBVIOUS
<1>1. ASSUME NEW r \in Requests, Step(r) \/ Spurious(r)
      PROVE  [Promise!Next]_(Promise!vars)
  <2>1. CASE Enter(r)
    BY <2>1, EnterLoses, EnterStutters DEF Promise!Next
  <2>2. CASE Prepare(r)
    BY <2>2, PrepareLoses, PrepareStutters DEF Promise!Next
  <2>3. CASE FinalizeStale(r)
    <3>1. pc'[r] = "cancelled"
      BY <2>3 DEF FinalizeStale, Go, IInv, TypeOK
    <3> QED
      BY <2>3, <3>1, StaleLoses DEF Promise!Next
  <2>4. CASE FinalizeFailure(r)
    <3>1. pc'[r] = "failed"
      BY <2>4 DEF FinalizeFailure, ClearWaitSlots, Notified, IInv, TypeOK
    <3> QED
      BY <2>4, <3>1, FailureLoses DEF Promise!Next
  <2>5. CASE Supersede(r)
    BY <2>5, SupersedeDismisses DEF Promise!Next
  <2>6. CASE Publish(r)
    BY <2>6, PublishSits DEF Promise!Next
  <2>7. CASE FinalizeAnswer(r)
    BY <2>7, AnswerAnswers DEF Promise!Next
  <2>8. CASE Spurious(r)
    BY <2>8, SpuriousStutters
  <2> QED
    BY <1>1, <2>1, <2>2, <2>3, <2>4, <2>5, <2>6, <2>7, <2>8 DEF Step
<1>2. ASSUME NEW r \in Requests, NEW m \in Models, NEW o \in Ops, Issue(r, m, o)
      PROVE  [Promise!Next]_(Promise!vars)
  BY <1>2, ArriveRefined DEF Promise!Next
<1>3. CASE CancelEnds \/ \E who \in {Escape, Shutdown} : Cancel(who)
  BY <1>3, AllDismissed DEF Promise!Next
<1>4. CASE UNCHANGED vars
  BY <1>4 DEF vars, request, slots, Promise!vars, Age, Fate
<1> QED
  BY <1>1, <1>2, <1>3, <1>4 DEF Next

\* The manager of ocr_runtime.rs implements LatestWins: each of its steps is
\* one of the promise's or changes nothing the promise speaks of.
THEOREM PromiseKept == Spec => KeepsPromise
BY InitPromise, StepPromise, Invariance, PTL DEF Spec, KeepsPromise, Promise!Spec

-----------------------------------------------------------------------------
(* Nobody sleeps behind nobody *)

Attended == \A r \in Requests : pc[r] = "asleep" => active # Nobody

\* Whoever takes the seat from a request, or gives it up, wakes the sleepers.
LEMMA SeatChanges ==
    ASSUME IInv, Attended, Next, active' # active
    PROVE  \A r \in Requests : pc'[r] # "asleep"
<1> USE DEF IInv, TypeOK
<1>1. ASSUME NEW q \in Requests, Supersede(q) \/ FinalizeAnswer(q) \/ FinalizeFailure(q)
      PROVE  \A r \in Requests : pc'[r] # "asleep"
  <2>1. PICK s \in {"prepare", "answered", "failed"} : pc' = Notified([pc EXCEPT ![q] = s])
    BY <1>1 DEF Supersede, FinalizeAnswer, FinalizeFailure, ClearWaitSlots
  <2> QED  BY <2>1 DEF Notified
<1>2. ASSUME NEW q \in Requests, Publish(q)
      PROVE  \A r \in Requests : pc'[r] # "asleep"
  <2>1. active = Nobody /\ pc' = [pc EXCEPT ![q] = "waiting"]
    BY <1>2 DEF Publish, Go, Secured
  <2> QED  BY <2>1 DEF Attended
<1>3. CASE (\E who \in {Escape, Shutdown} : Cancel(who)) \/ CancelEnds
  BY <1>3 DEF Cancel, CancelEnds, Notified
<1>4. ASSUME NEW q \in Requests, Enter(q) \/ Prepare(q) \/ FinalizeStale(q) \/ Spurious(q)
      PROVE  active' = active
  BY <1>4 DEF Enter, Prepare, FinalizeStale, Spurious, slots
<1>5. ASSUME NEW q \in Requests, NEW m \in Models, NEW o \in Ops, Issue(q, m, o)
      PROVE  active' = active
  BY <1>5 DEF Issue, slots
<1> QED  BY <1>1, <1>2, <1>3, <1>4, <1>5 DEF Next, Step

\* A request goes to sleep behind an active one only.
LEMMA SleepsBehind ==
    ASSUME IInv, Attended, [Next]_vars
    PROVE  Attended'
<1> USE DEF IInv, TypeOK
<1>1. CASE active' # active
  BY <1>1, SeatChanges DEF Attended, vars, slots
<1>2. ASSUME NEW r \in Requests, pc'[r] = "asleep", pc[r] # "asleep" PROVE active # Nobody
  <2>1. ASSUME NEW q \in Requests, Enter(q) PROVE active # Nobody
    <3>1. pc' = [pc EXCEPT ![q] = pc'[q]]
      BY <2>1 DEF Enter, Go
    <3>2. q = r
      BY <1>2, <3>1
    <3> QED  BY <1>2, <2>1, <3>2 DEF Enter, Go, ShouldCoalesce
  <2>2. ASSUME NEW q \in Requests, \/ Supersede(q) \/ Prepare(q) \/ Publish(q)
                                  \/ FinalizeStale(q) \/ FinalizeAnswer(q)
                                  \/ FinalizeFailure(q) \/ Spurious(q)
        PROVE  FALSE
    BY <1>2, <2>2 DEF Supersede, Prepare, Publish, FinalizeStale, FinalizeAnswer,
                      FinalizeFailure, Spurious, Go, ClearWaitSlots, Notified
  <2>3. ASSUME NEW q \in Requests, NEW m \in Models, NEW o \in Ops, Issue(q, m, o)
        PROVE  FALSE
    BY <1>2, <2>3 DEF Issue, Go
  <2>4. ~((\E who \in {Escape, Shutdown} : Cancel(who)) \/ CancelEnds \/ UNCHANGED vars)
    BY <1>2 DEF Cancel, CancelEnds, Notified, vars, request
  <2> QED  BY <2>1, <2>2, <2>3, <2>4 DEF Next, Step
<1> QED  BY <1>1, <1>2 DEF Attended

LEMMA AlwaysAttended == Spec => [](IInv /\ Attended)
<1>1. Init => IInv /\ Attended
  BY InitIInv DEF Init, Attended
<1>2. (IInv /\ Attended) /\ [Next]_vars => (IInv /\ Attended)'
  BY StepIInv, SleepsBehind
<1> QED
  BY <1>1, <1>2, PTL DEF Spec

\* Every request under way can go on or waits for one that can: it sleeps behind
\* the active request, which waits for its child and no longer than the timeout,
\* or it queues for the gate, whose holder is at work.
WaitsForTheLiving ==
    \A r \in Requests :
        /\ pc[r] = "asleep" => active \in Requests \ {r} /\ pc[active] = "waiting"
        /\ pc[r] \in {"issued", "woken", "waiting"} /\ gate # Nobody =>
              gate \in {Escape, Shutdown} \/ pc[gate] \in Holding

\* idle_cv loses no sleeper and the gate is held by nobody who waits: what
\* RequestsReturn rests on.
THEOREM NobodyForgotten == Spec => []WaitsForTheLiving
<1>1. IInv /\ Attended => WaitsForTheLiving
  BY NamesDistinct DEF IInv, TypeOK, Gated, Seated, Attended, WaitsForTheLiving
<1> QED
  BY <1>1, AlwaysAttended, PTL

\* The step that ends the service of a request, whichever way, is the one that
\* wakes all who sleep behind it.
THEOREM SleepersWoken ==
    Spec => [][active' # active => \A r \in Requests : pc'[r] # "asleep"]_vars
<1>1. (IInv /\ Attended) /\ [Next]_vars =>
         [active' # active => \A r \in Requests : pc'[r] # "asleep"]_vars
  BY SeatChanges
<1> QED
  BY <1>1, AlwaysAttended, PTL DEF Spec
=============================================================================
