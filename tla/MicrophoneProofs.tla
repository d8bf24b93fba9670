-------------------------- MODULE MicrophoneProofs --------------------------
(***************************************************************************)
(* Proofs about Microphone, for any set of failure threads and commands    *)
(* and any bounds.  A call is a list of steps; what the proofs need of the *)
(* lists is that a start does its opening steps first, that a change of    *)
(* the profile unlocks at its very end, and that the linger worker has no  *)
(* other steps than its own.  Then come the locks, which nobody waits for  *)
(* in a circle, recordings and the deferred close alone, and at last the   *)
(* capture worker, Recorder.                                               *)
(***************************************************************************)
EXTENDS MCCapture, SequenceTheorems, FiniteSetTheorems, TLAPS

Opening == {"Ensure", "Open", "Publish", "Begin"}
Rebuild == {"Refresh", "StopStream", "Drop", "Open", "Publish", "Undo"}
OfDict  == Opening \cup {"Check", "Take", "Halt", "Clear", "Later", "Settle"}

\* What a start has left to open stands before the rest.
DictPlan(s) ==
    /\ \A i \in 1..Len(s) : s[i] \in OfDict
    /\ \A j \in 1..Len(s) : \A i \in 1..j : s[j] \in Opening => s[i] \in Opening

\* A change of the profile ends with the release of the state mutex.
ProfilePlan(s) ==
    s # <<>> => /\ s[Len(s)] = "Unlock"
                /\ \A i \in 1..(Len(s) - 1) : s[i] \in Rebuild

LingerPlan(s) == \A i \in 1..Len(s) : s[i] \in {"IfOnDemand", "CloseIf"}

Plans ==
    /\ todo \in [Threads -> Seq(Steps)]
    /\ DictPlan(todo[Dict]) /\ ProfilePlan(todo[Profile])
    /\ LingerPlan(todo[Linger])

\* The change of a profile holds the state mutex from its check to its end.
Guarded == ~Idle(Profile) => stateLock = Profile /\ state = "Idle" /\ ~isRecording

\* No close is queued or under way for an epoch to come, and one under way for
\* the present epoch began when its start was over.
Behind == (pending # NoClose => pending <= epoch) /\ closing <= epoch
Spared == ~Idle(Linger) /\ closing = epoch => ~Starting

IInv == TypeOK /\ Plans /\ Guarded /\ Behind /\ Spared

-----------------------------------------------------------------------------
(* Lists of steps *)

LEMMA ThreadsDistinct ==
    /\ Dict \in Threads /\ Profile \in Threads /\ Linger \in Threads
    /\ Main \in Threads /\ Cancel \in Threads /\ Failers \subseteq Threads
    /\ Dict # Profile /\ Dict # Linger /\ Profile # Linger
    /\ Dict # Main /\ Dict # Cancel /\ Dict \notin Failers
    /\ Profile # Main /\ Profile # Cancel /\ Profile \notin Failers
    /\ Linger # Main /\ Linger # Cancel /\ Linger \notin Failers
  BY ConstantsAssumption DEF Threads

LEMMA Bounds == MaxEpoch \in Nat /\ MaxCalls \in Nat /\ MaxFailures \in Nat
  <1>1. \A n \in {MaxEpoch, MaxCalls, MaxFailures} : n \in Nat
    BY ConstantsAssumption
  <1> QED  BY <1>1

\* What replaces the first step of a list stands before the others.
Splice(q, r, s) ==
    /\ s[1] = Head(s) /\ Len(q) = Len(r) + Len(s) - 1
    /\ Len(s) \in Nat \ {0} /\ Len(r) \in Nat
    /\ q # <<>> => Head(q) = q[1] /\ Len(q) > 0
    /\ \A k \in 1..Len(q) :
          \/ k \in 1..Len(r) /\ q[k] = r[k]
          \/ k > Len(r) /\ k - Len(r) + 1 \in 2..Len(s) /\ q[k] = s[k - Len(r) + 1]

LEMMA Replaced ==
    ASSUME NEW s \in Seq(Steps), s # <<>>, NEW r \in Seq(Steps)
    PROVE  r \o Tail(s) \in Seq(Steps) /\ Splice(r \o Tail(s), r, s)
  <1> DEFINE q == r \o Tail(s)
  <1>1. q \in Seq(Steps) /\ Len(q) = Len(r) + Len(s) - 1
    OBVIOUS
  <1>2. s[1] = Head(s) /\ Len(s) \in Nat \ {0} /\ Len(r) \in Nat
    OBVIOUS
  <1>3. q # <<>> => Head(q) = q[1] /\ Len(q) > 0
    OBVIOUS
  <1>4. ASSUME NEW k \in 1..Len(q)
        PROVE  \/ k \in 1..Len(r) /\ q[k] = r[k]
               \/ /\ k > Len(r) /\ k - Len(r) + 1 \in 2..Len(s)
                  /\ q[k] = s[k - Len(r) + 1]
    BY <1>1, <1>2
  <1> QED  BY <1>1, <1>2, <1>3, <1>4 DEF Splice

\* Of a start: opening steps give way to opening steps.
LEMMA DictReplaced ==
    ASSUME NEW s, DictPlan(s), NEW r, NEW q, Splice(q, r, s),
           \A i \in 1..Len(r) : r[i] \in Opening,
           Len(r) > 0 => Head(s) \in Opening
    PROVE  DictPlan(q) /\ (q # <<>> /\ Head(q) \in Opening => Head(s) \in Opening)
  <1>1. ASSUME NEW k \in 1..Len(q) PROVE q[k] \in OfDict
    BY <1>1 DEF DictPlan, Splice, OfDict
  <1>2. ASSUME NEW j \in 1..Len(q), NEW i \in 1..j, q[j] \in Opening
        PROVE  q[i] \in Opening
    <2>1. i \in 1..Len(q)
      BY DEF Splice
    <2>2. CASE i \in 1..Len(r)
      BY <2>1, <2>2 DEF Splice
    <2>3. CASE i > Len(r)
      <3>1. /\ q[i] = s[i - Len(r) + 1] /\ q[j] = s[j - Len(r) + 1]
            /\ i - Len(r) + 1 \in 1..(j - Len(r) + 1)
            /\ j - Len(r) + 1 \in 1..Len(s)
        BY <2>1, <2>3 DEF Splice
      <3> QED  BY <1>2, <3>1 DEF DictPlan
    <2> QED  BY <2>1, <2>2, <2>3 DEF Splice
  <1>3. ASSUME q # <<>>, Head(q) \in Opening PROVE Head(s) \in Opening
    <2>1. CASE Len(r) = 0
      <3>1. 2 \in 1..Len(s) /\ 1 \in 1..2 /\ Head(q) = s[2] /\ s[1] = Head(s)
        BY <1>3, <2>1 DEF Splice
      <3> QED  BY <1>3, <3>1 DEF DictPlan
    <2> QED  BY <2>1 DEF Splice
  <1> QED  BY <1>1, <1>2, <1>3 DEF DictPlan

\* Of a change of the profile: before the release.
LEMMA ProfileReplaced ==
    ASSUME NEW s, s # <<>>, ProfilePlan(s), Head(s) # "Unlock",
           NEW r, NEW q, Splice(q, r, s), \A i \in 1..Len(r) : r[i] \in Rebuild
    PROVE  ProfilePlan(q)
  <1>1. s[Len(s)] = "Unlock" /\ \A i \in 1..(Len(s) - 1) : s[i] \in Rebuild
    BY DEF ProfilePlan
  <1>2. Len(s) > 1
    BY <1>1 DEF Splice
  <1>3. q[Len(q)] = "Unlock"
    BY <1>1, <1>2 DEF Splice
  <1>4. ASSUME NEW i \in 1..(Len(q) - 1) PROVE q[i] \in Rebuild
    <2>1. i \in 1..Len(q)
      BY DEF Splice
    <2>2. CASE i > Len(r)
      <3>1. q[i] = s[i - Len(r) + 1] /\ i - Len(r) + 1 \in 1..(Len(s) - 1)
        BY <2>1, <2>2 DEF Splice
      <3> QED  BY <1>1, <3>1
    <2> QED  BY <2>1, <2>2 DEF Splice
  <1> QED  BY <1>3, <1>4 DEF ProfilePlan

-----------------------------------------------------------------------------
(* A thread does a step of its list *)

\* The steps a thread can be at.
LEMMA Whose ==
    ASSUME Plans, NEW t \in Threads, NEW x, At(t, x)
    PROVE  /\ t = Dict => x \in OfDict
           /\ t = Profile => x \in Rebuild \cup {"Unlock"}
           /\ t = Linger => x \in {"IfOnDemand", "CloseIf"}
           /\ todo[t] \in Seq(Steps) /\ todo[t] # <<>> /\ Head(todo[t]) = x
  <1>1. todo[t] \in Seq(Steps) /\ todo[t] # <<>> /\ Head(todo[t]) = x
    BY DEF Plans, At, Idle
  <1>2. ASSUME NEW s \in Seq(Steps), s # <<>>
        PROVE  /\ 1 \in 1..Len(s) /\ s[1] = Head(s)
               /\ Len(s) # 1 => 1 \in 1..(Len(s) - 1)
    <2>1. Len(s) \in Nat /\ Len(s) # 0 /\ s[1] = Head(s)
      BY <1>2
    <2>2. \A n \in Nat : n # 0 => 1 \in 1..n /\ (n # 1 => 1 \in 1..(n - 1))
      OBVIOUS
    <2> QED  BY <2>1, <2>2, Zenon
  <1> QED  BY <1>1, <1>2 DEF Plans, DictPlan, ProfilePlan, LingerPlan

\* What one thread's list may become.
LEMMA Listed ==
    ASSUME Plans, NEW t \in Threads, NEW q \in Seq(Steps),
           todo' = [todo EXCEPT ![t] = q],
           t = Dict => DictPlan(q), t = Profile => ProfilePlan(q),
           t = Linger => LingerPlan(q)
    PROVE  Plans' /\ todo'[t] = q /\ \A u \in Threads : u # t => todo'[u] = todo[u]
  BY ThreadsDistinct DEF Plans, DictPlan, ProfilePlan, LingerPlan

\* A step that other steps replace.
LEMMA Progress ==
    ASSUME Plans, NEW t \in Threads, NEW x, At(t, x), NEW r \in Seq(Steps),
           Then(t, r),
           t = Dict => /\ \A i \in 1..Len(r) : r[i] \in Opening
                       /\ Len(r) > 0 => x \in Opening,
           t = Profile => x # "Unlock" /\ \A i \in 1..Len(r) : r[i] \in Rebuild,
           t = Linger => r = <<>>
    PROVE  /\ Plans' /\ (Starting' => Starting)
           /\ \A u \in Threads : u # t => todo'[u] = todo[u]
  <1> DEFINE s == todo[t]
             q == r \o Tail(s)
  <1>1. s \in Seq(Steps) /\ s # <<>> /\ Head(s) = x
    BY Whose
  <1>2. q \in Seq(Steps) /\ Splice(q, r, s)
    BY <1>1, Replaced
  <1>3. todo' = [todo EXCEPT ![t] = q]
    BY DEF Then
  <1> HIDE DEF q
  <1>4. t = Dict => DictPlan(q) /\ (q # <<>> /\ Head(q) \in Opening => x \in Opening)
    BY <1>1, <1>2, DictReplaced DEF Plans
  <1>5. t = Profile => ProfilePlan(q)
    BY <1>1, <1>2, ProfileReplaced DEF Plans
  <1>6. t = Linger => LingerPlan(q)
    <2> SUFFICES ASSUME t = Linger, NEW k \in 1..Len(q)
                 PROVE  q[k] \in {"IfOnDemand", "CloseIf"}
      BY DEF LingerPlan
    <2>1. Len(r) = 0
      OBVIOUS
    <2>2. k + 1 \in 1..Len(s) /\ q[k] = s[k + 1]
      BY <1>2, <2>1 DEF Splice
    <2> QED  BY <2>2 DEF Plans, LingerPlan
  <1>7. Plans' /\ todo'[t] = q /\ \A u \in Threads : u # t => todo'[u] = todo[u]
    BY <1>2, <1>3, <1>4, <1>5, <1>6, Listed
  <1>8. Starting' => Starting
    BY <1>1, <1>4, <1>7, ThreadsDistinct DEF Starting, At, Idle, Opening
  <1> QED  BY <1>7, <1>8

-----------------------------------------------------------------------------
(* Steps that leave the epoch, the state mutex and the linger worker alone *)

Mild ==
    /\ UNCHANGED <<epoch, closing, stateLock>> /\ pending' \in {pending, epoch}
    /\ state' \in {state, "Idle"} /\ isRecording' \in {isRecording, FALSE}

\* A thread's list becomes q, and no start begins.
LEMMA ByList ==
    ASSUME IInv, NEW t \in Threads, NEW q \in Seq(Steps),
           todo' = [todo EXCEPT ![t] = q], Mild,
           todo' \in [Threads -> Seq(Steps)] => TypeOK',
           t \in {Profile, Linger} => ~Idle(t),
           t = Dict => DictPlan(q) /\ (q = <<>> \/ Head(q) \notin Opening),
           t = Profile => ProfilePlan(q), t = Linger => q = <<>>
    PROVE  IInv'
  <1>1. t = Linger => LingerPlan(q)
    BY DEF LingerPlan
  <1>2. Plans' /\ todo'[t] = q /\ \A u \in Threads : u # t => todo'[u] = todo[u]
    BY <1>1, Listed DEF IInv
  <1>3. TypeOK'
    BY <1>2 DEF Plans
  <1>4. Guarded'
    BY <1>2, ThreadsDistinct DEF IInv, Guarded, Mild, Idle
  <1>5. Behind'
    BY DEF IInv, TypeOK, Behind, Mild
  <1>6. Spared'
    BY <1>2, ThreadsDistinct
       DEF IInv, Spared, Starting, At, Idle, Opening, Mild
  <1> QED  BY <1>2, <1>3, <1>4, <1>5, <1>6 DEF IInv

\* A step gives way to the steps r.
LEMMA ByStep ==
    ASSUME IInv, NEW t \in Threads, NEW x, At(t, x), NEW r \in Seq(Steps),
           Then(t, r), Mild,
           todo' \in [Threads -> Seq(Steps)] => TypeOK',
           t = Dict => /\ \A i \in 1..Len(r) : r[i] \in Opening
                       /\ Len(r) > 0 => x \in Opening,
           t = Profile => x # "Unlock" /\ \A i \in 1..Len(r) : r[i] \in Rebuild,
           t = Linger => r = <<>>
    PROVE  IInv'
  <1>1. /\ Plans' /\ (Starting' => Starting)
        /\ \A u \in Threads : u # t => todo'[u] = todo[u]
    BY Progress DEF IInv
  <1>2. TypeOK'
    BY <1>1 DEF Plans
  <1>3. Guarded'
    BY <1>1, ThreadsDistinct DEF IInv, Guarded, Mild, Idle, At
  <1>4. Behind'
    BY DEF IInv, TypeOK, Behind, Mild
  <1>5. Spared'
    BY <1>1, ThreadsDistinct DEF IInv, Spared, At, Idle, Mild
  <1> QED  BY <1>1, <1>2, <1>3, <1>4, <1>5 DEF IInv

\* A step is done and nothing replaces it.
LEMMA ByDone ==
    ASSUME IInv, NEW t \in Threads, NEW x, At(t, x), Done(t), Mild,
           todo' \in [Threads -> Seq(Steps)] => TypeOK',
           t = Profile => x # "Unlock"
    PROVE  IInv'
  <1> DEFINE r == <<>>
  <1>1. r \in Seq(Steps) /\ r = <<>> /\ ~(Len(r) > 0) /\ \A i \in 1..Len(r) : FALSE
    OBVIOUS
  <1>2. Then(t, r)
    BY DEF Done
  <1> HIDE DEF r
  <1> QED  BY <1>1, <1>2, ByStep, Zenon

LEMMA InitIInv == Init => IInv
  <1> SUFFICES ASSUME Init PROVE IInv
    OBVIOUS
  <1>1. \A t \in Threads : todo[t] = <<>>
    BY DEF Init
  <1>2. todo \in [Threads -> Seq(Steps)]
    BY DEF Init
  <1>3. TypeOK
    <2>1. 0 \in 0..MaxEpoch /\ 0 \in 0..MaxCalls /\ 0 \in 0..MaxFailures
      BY ConstantsAssumption
    <2>2. mode \in Modes /\ alwaysOn \in BOOLEAN /\ target \in Modes
      BY ConstantsAssumption DEF Init, Modes
    <2>3. recorder \in Slots /\ isOpen \in BOOLEAN
      BY DEF Init, Slots
    <2> QED  BY <1>2, <2>1, <2>2, <2>3 DEF Init, TypeOK
  <1>4. Plans
    BY <1>1, <1>2, ThreadsDistinct DEF Plans, DictPlan, ProfilePlan, LingerPlan
  <1>5. Guarded /\ Behind /\ Spared
    BY <1>1, ThreadsDistinct DEF Init, Guarded, Behind, Spared, Idle
  <1> QED  BY <1>3, <1>4, <1>5 DEF IInv

-----------------------------------------------------------------------------
(* The steps of the threads *)

\* These are done and leave the rest of their list.
LEMMA DoneKeeps ==
    ASSUME IInv, NEW t \in Threads,
           \/ Publish(t) \/ StopStream(t) \/ Drop(t) \/ Halt(t) \/ Clear(t)
           \/ Later(t) \/ Settle(t)
           \/ t = Dict /\ Check
           \/ t = Linger /\ CloseIf
           \/ t = Main /\ Store
           \/ t = Profile /\ Undo
    PROVE  IInv'
  <1> USE DEF flags, slot, locks, timers, modes, counts, DropSlot
  <1>1. ASSUME Publish(t) PROVE IInv'
    <2>1. At(t, "Publish") /\ Done(t) /\ Mild
      BY <1>1 DEF Publish, Mild, IInv, TypeOK
    <2>2. todo' \in [Threads -> Seq(Steps)] => TypeOK'
      BY <1>1 DEF Publish, IInv, TypeOK, Slots, Modes
    <2> QED  BY <2>1, <2>2, ByDone
  <1>2. ASSUME StopStream(t) PROVE IInv'
    <2>1. At(t, "StopStream") /\ Done(t) /\ Mild
      BY <1>2 DEF StopStream, Mild, IInv, TypeOK
    <2>2. todo' \in [Threads -> Seq(Steps)] => TypeOK'
      BY <1>2 DEF StopStream, IInv, TypeOK, Slots, Modes
    <2> QED  BY <2>1, <2>2, ByDone
  <1>3. ASSUME Drop(t) PROVE IInv'
    <2>1. At(t, "Drop") /\ Done(t) /\ Mild
      BY <1>3 DEF Drop, Mild, IInv, TypeOK
    <2>2. todo' \in [Threads -> Seq(Steps)] => TypeOK'
      BY <1>3 DEF Drop, IInv, TypeOK, Slots, Modes
    <2> QED  BY <2>1, <2>2, ByDone
  <1>4. ASSUME Halt(t) PROVE IInv'
    <2>1. At(t, "Halt") /\ Done(t) /\ Mild
      BY <1>4 DEF Halt, Mild, IInv, TypeOK
    <2>2. todo' \in [Threads -> Seq(Steps)] => TypeOK'
      BY <1>4 DEF Halt, IInv, TypeOK, Slots, Modes
    <2> QED  BY <2>1, <2>2, ByDone
  <1>5. ASSUME Clear(t) PROVE IInv'
    <2>1. At(t, "Clear") /\ Done(t) /\ Mild
      BY <1>5 DEF Clear, Mild, IInv, TypeOK
    <2>2. todo' \in [Threads -> Seq(Steps)] => TypeOK'
      BY <1>5 DEF Clear, IInv, TypeOK, Slots, Modes
    <2> QED  BY <2>1, <2>2, ByDone
  <1>6. ASSUME Later(t) PROVE IInv'
    <2>1. At(t, "Later") /\ Done(t) /\ Mild
      BY <1>6 DEF Later, Mild, IInv, TypeOK
    <2>2. todo' \in [Threads -> Seq(Steps)] => TypeOK'
      BY <1>6 DEF Later, IInv, TypeOK, Slots, Modes
    <2> QED  BY <2>1, <2>2, ByDone
  <1>7. ASSUME Settle(t) PROVE IInv'
    <2>1. At(t, "Settle") /\ Done(t) /\ Mild
      BY <1>7 DEF Settle, Mild, IInv, TypeOK
    <2>2. todo' \in [Threads -> Seq(Steps)] => TypeOK'
      BY <1>7 DEF Settle, IInv, TypeOK, Slots, Modes
    <2> QED  BY <2>1, <2>2, ByDone
  <1>8. ASSUME t = Dict, Check PROVE IInv'
    <2>1. At(t, "Check") /\ Done(t) /\ Mild
      BY <1>8 DEF Check, Mild, IInv, TypeOK
    <2>2. todo' \in [Threads -> Seq(Steps)] => TypeOK'
      BY <1>8 DEF Check, IInv, TypeOK, Slots, Modes
    <2> QED  BY <2>1, <2>2, ByDone
  <1>9. ASSUME t = Linger, CloseIf PROVE IInv'
    <2>1. At(t, "CloseIf") /\ Done(t) /\ Mild
      BY <1>9 DEF CloseIf, Mild, IInv, TypeOK
    <2>2. todo' \in [Threads -> Seq(Steps)] => TypeOK'
      BY <1>9 DEF CloseIf, IInv, TypeOK, Slots, Modes
    <2> QED  BY <2>1, <2>2, ByDone
  <1>10. ASSUME t = Main, Store PROVE IInv'
    <2>1. At(t, "Store") /\ Done(t) /\ Mild
      BY <1>10 DEF Store, Mild, IInv, TypeOK
    <2>2. todo' \in [Threads -> Seq(Steps)] => TypeOK'
      BY <1>10 DEF Store, IInv, TypeOK, Slots, Modes
    <2> QED  BY <2>1, <2>2, ByDone
  <1>11. ASSUME t = Profile, Undo PROVE IInv'
    <2>1. At(t, "Undo") /\ Done(t) /\ Mild
      BY <1>11 DEF Undo, Mild, IInv, TypeOK
    <2>2. todo' \in [Threads -> Seq(Steps)] => TypeOK'
      BY <1>11 DEF Undo, IInv, TypeOK, Slots, Modes
    <2> QED  BY <2>1, <2>2, ByDone
  <1> QED  BY <1>1, <1>2, <1>3, <1>4, <1>5, <1>6, <1>7, <1>8, <1>9, <1>10, <1>11

\* The lists that a step, a return or a failure may leave.
LEMMA Lists ==
    /\ <<>> \in Seq(Steps) /\ DictPlan(<<>>) /\ ProfilePlan(<<>>)
    /\ <<"Check">> \in Seq(Steps) /\ DictPlan(<<"Check">>)
    /\ Head(<<"Check">>) = "Check" /\ "Check" \notin Opening
    /\ <<"Undo", "Unlock">> \in Seq(Steps) /\ ProfilePlan(<<"Undo", "Unlock">>)
  BY DEF Steps, DictPlan, ProfilePlan, OfDict, Opening, Rebuild

\* These return, and what they called is not done.
LEMMA ReturnKeeps ==
    ASSUME IInv, NEW t \in Threads, ~Idle(t), Return(t), Mild,
           todo' \in [Threads -> Seq(Steps)] => TypeOK'
    PROVE  IInv'
  <1> DEFINE q == <<>>
  <1>1. todo' = [todo EXCEPT ![t] = q]
    BY DEF Return
  <1>2. q \in Seq(Steps) /\ DictPlan(q) /\ ProfilePlan(q) /\ q = <<>>
    BY Lists
  <1> HIDE DEF q
  <1> QED  BY <1>1, <1>2, ByList, Zenon

LEMMA FailKeeps ==
    ASSUME IInv, NEW t \in Threads \ {Linger}, ~Idle(t), Fail(t), Mild,
           todo' \in [Threads -> Seq(Steps)] => TypeOK'
    PROVE  IInv'
  <1>1. CASE t = Dict
    <2> DEFINE q == <<"Check">>
    <2>1. todo' = [todo EXCEPT ![t] = q]
      BY <1>1 DEF Fail
    <2>2. q \in Seq(Steps) /\ DictPlan(q) /\ Head(q) \notin Opening
      BY Lists
    <2> HIDE DEF q
    <2> QED  BY <1>1, <2>1, <2>2, ThreadsDistinct, ByList, Zenon
  <1>2. CASE t = Profile
    <2> DEFINE q == <<"Undo", "Unlock">>
    <2>0. t # Dict
      BY <1>2, ThreadsDistinct
    <2>1. todo' = [todo EXCEPT ![t] = q]
      BY <1>2, <2>0 DEF Fail
    <2>2. q \in Seq(Steps) /\ ProfilePlan(q)
      BY Lists
    <2> HIDE DEF q
    <2> QED  BY <1>2, <2>1, <2>2, ThreadsDistinct, ByList, Zenon
  <1>3. CASE t \notin {Dict, Profile}
    <2>1. Return(t)
      BY <1>3 DEF Fail, Return
    <2> QED  BY <2>1, ReturnKeeps
  <1> QED  BY <1>1, <1>2, <1>3

\* The steps that other steps can replace.
LEMMA Replacements ==
    /\ <<>> \in Seq(Steps)
    /\ \A x \in {"Open", "Publish", "Drop", "StopStream"} : <<x>> \in Seq(Steps)
    /\ <<"StopStream", "Drop", "Open">> \in Seq(Steps)
  BY DEF Steps

LEMMA OpenKeeps == ASSUME IInv, NEW t \in Threads, Open(t) PROVE IInv'
  <1> USE DEF flags, slot, locks, timers, modes, counts
  <1>1. At(t, "Open") /\ ~Idle(t) /\ t # Linger
    BY Whose DEF Open, IInv, At
  <1>2. Mild /\ (todo' \in [Threads -> Seq(Steps)] => TypeOK')
    BY DEF Open, Mild, IInv, TypeOK, Slots
  <1>3. CASE Done(t)
    BY <1>1, <1>2, <1>3, ByDone
  <1>4. CASE Then(t, <<"Publish">>)
    <2> DEFINE r == <<"Publish">>
    <2>1. /\ r \in Seq(Steps) /\ Then(t, r) /\ "Open" \in Opening
          /\ \A i \in 1..Len(r) : r[i] \in Opening /\ r[i] \in Rebuild
      BY <1>4, Replacements DEF Opening, Rebuild
    <2> HIDE DEF r
    <2> QED  BY <1>1, <1>2, <2>1, ByStep
  <1>5. CASE Fail(t)
    BY <1>1, <1>2, <1>5, FailKeeps
  <1> QED  BY <1>3, <1>4, <1>5 DEF Open

LEMMA RefreshKeeps == ASSUME IInv, NEW t \in Threads, Refresh(t) PROVE IInv'
  <1> USE DEF flags, slot, locks, timers, modes, counts
  <1>1. At(t, "Refresh") /\ t # Linger /\ t # Dict
    BY Whose DEF Refresh, IInv, OfDict, Opening
  <1>2. Mild /\ (todo' \in [Threads -> Seq(Steps)] => TypeOK')
    BY DEF Refresh, Mild, IInv, TypeOK
  <1>3. PICK r : /\ r \in {<<"StopStream", "Drop", "Open">>, <<"Drop">>}
                 /\ Then(t, r)
    BY DEF Refresh
  <1>4. r \in Seq(Steps) /\ \A i \in 1..Len(r) : r[i] \in Rebuild
    <2>1. CASE r = <<"StopStream", "Drop", "Open">>
      BY <2>1, Replacements DEF Rebuild
    <2>2. CASE r = <<"Drop">>
      BY <2>2, Replacements DEF Rebuild
    <2> QED  BY <1>3, <2>1, <2>2
  <1> QED  BY <1>1, <1>2, <1>3, <1>4, ByStep

LEMMA DictKeeps == ASSUME IInv, Ensure \/ Begin PROVE IInv'
  <1> USE DEF flags, slot, locks, timers, modes, counts
  <1>1. ASSUME Ensure PROVE IInv'
    <2>1. Mild /\ (todo' \in [Threads -> Seq(Steps)] => TypeOK')
      BY <1>1 DEF Ensure, Mild, IInv, TypeOK
    <2>2. PICK r : r \in {<<"Open">>, <<>>} /\ Then(Dict, r)
      BY <1>1 DEF Ensure
    <2>3. r \in Seq(Steps) /\ \A i \in 1..Len(r) : r[i] \in Opening
      <3>1. CASE r = <<"Open">>
        BY <3>1, Replacements DEF Opening
      <3>2. CASE r = <<>>
        BY <3>2, Replacements
      <3> QED  BY <2>2, <3>1, <3>2
    <2>4. At(Dict, "Ensure") /\ "Ensure" \in Opening
      BY <1>1 DEF Ensure, Opening
    <2> QED  BY <2>1, <2>2, <2>3, <2>4, ThreadsDistinct, ByStep
  <1>2. ASSUME Begin, Fail(Dict), UNCHANGED <<state, isRecording, capturing>>
        PROVE  IInv'
    <2>1. Mild /\ (todo' \in [Threads -> Seq(Steps)] => TypeOK') /\ ~Idle(Dict)
      BY <1>2 DEF Begin, Mild, IInv, TypeOK, At
    <2> QED  BY <1>2, <2>1, ThreadsDistinct, FailKeeps
  <1>3. ASSUME Begin, Done(Dict), isRecording' = TRUE, state' = "Recording",
               capturing' = (recorder \in Working)
        PROVE  IInv'
    <2>1. At(Dict, "Begin") /\ stateLock = Free /\ todo \in [Threads -> Seq(Steps)]
      BY <1>3 DEF Begin, IInv, Plans
    <2> DEFINE r == <<>>
    <2>2. r \in Seq(Steps) /\ ~(Len(r) > 0) /\ \A i \in 1..Len(r) : FALSE
      OBVIOUS
    <2>3. Then(Dict, r)
      BY <1>3 DEF Done
    <2> HIDE DEF r
    <2>4. /\ Plans' /\ (Starting' => Starting)
          /\ \A u \in Threads : u # Dict => todo'[u] = todo[u]
      BY <2>1, <2>2, <2>3, ThreadsDistinct, Progress, Zenon DEF IInv
    <2>5. TypeOK'
      BY <1>3, <2>4 DEF Begin, Plans, IInv, TypeOK
    <2>6. Guarded'
      BY <1>3, <2>1, <2>4, ThreadsDistinct, ConstantsAssumption
         DEF IInv, Guarded, Begin, Idle
    <2>7. Behind' /\ Spared'
      BY <1>3, <2>4, ThreadsDistinct DEF IInv, Behind, Spared, Begin, Idle
    <2> QED  BY <2>4, <2>5, <2>6, <2>7 DEF IInv
  <1> QED  BY <1>1, <1>2, <1>3 DEF Begin

LEMMA TakeKeeps == ASSUME IInv, NEW t \in Threads, Take(t) PROVE IInv'
  <1> USE DEF flags, slot, locks, timers, modes, counts
  <1>1. At(t, "Take") /\ ~Idle(t) /\ t # Linger /\ t # Profile
    BY Whose DEF Take, IInv, Rebuild, At
  <1>2. Mild /\ (todo' \in [Threads -> Seq(Steps)] => TypeOK')
    BY DEF Take, Mild, IInv, TypeOK
  <1>3. CASE Done(t)
    BY <1>1, <1>2, <1>3, ByDone
  <1>4. CASE todo' = [todo EXCEPT ![t] = <<"Settle">>]
    <2> DEFINE q == <<"Settle">>
    <2>1. q \in Seq(Steps) /\ DictPlan(q) /\ Head(q) \notin Opening
      BY DEF Steps, DictPlan, OfDict, Opening
    <2>2. todo' = [todo EXCEPT ![t] = q]
      BY <1>4
    <2> HIDE DEF q
    <2> QED  BY <1>1, <1>2, <2>1, <2>2, ByList
  <1> QED  BY <1>3, <1>4 DEF Take

\* The linger worker looks at the mode.
LEMMA IfOnDemandKeeps == ASSUME IInv, IfOnDemand PROVE IInv'
  <1> USE DEF flags, slot, locks, timers, modes, counts
  <1>1. At(Linger, "IfOnDemand") /\ ~Idle(Linger)
    BY DEF IfOnDemand, At
  <1>2. Mild /\ (todo' \in [Threads -> Seq(Steps)] => TypeOK')
    BY DEF IfOnDemand, Mild, IInv, TypeOK
  <1> QED  BY <1>1, <1>2, ThreadsDistinct, ByDone, ReturnKeeps DEF IfOnDemand

\* A failure thread looks at the recording and at the mode.
LEMMA FailerKeeps ==
    ASSUME IInv, NEW f \in Failers, IfIdle(f) \/ IfAlwaysOn(f) PROVE IInv'
  <1> USE DEF flags, slot, locks, timers, modes, counts
  <1>0. f \in Threads /\ f # Dict /\ f # Profile /\ f # Linger
    BY ThreadsDistinct
  <1>1. Mild /\ (todo' \in [Threads -> Seq(Steps)] => TypeOK') /\ ~Idle(f)
    BY DEF IfIdle, IfAlwaysOn, Mild, IInv, TypeOK, At
  <1>2. ASSUME IfIdle(f) PROVE IInv'
    BY <1>0, <1>1, <1>2, ByDone, ReturnKeeps DEF IfIdle
  <1>3. ASSUME IfAlwaysOn(f) PROVE IInv'
    <2>1. PICK r : r \in {<<"Open">>, <<>>} /\ Then(f, r)
      BY <1>3 DEF IfAlwaysOn
    <2>2. r \in Seq(Steps)
      BY <2>1, Replacements
    <2> QED  BY <1>0, <1>1, <1>3, <2>1, <2>2, ByStep DEF IfAlwaysOn
  <1> QED  BY <1>2, <1>3

\* update_mode.
LEMMA SwitchKeeps == ASSUME IInv, Switch PROVE IInv'
  <1> USE DEF flags, slot, locks, timers, modes, counts
  <1>1. At(Main, "Switch")
    BY DEF Switch
  <1>2. Mild /\ (todo' \in [Threads -> Seq(Steps)] => TypeOK')
    BY ThreadsDistinct DEF Switch, Mild, IInv, TypeOK
  <1>3. PICK r : r \in {<<"StopStream">>, <<"Open">>, <<>>} /\ Then(Main, r)
    BY DEF Switch, Done
  <1>4. r \in Seq(Steps)
    BY <1>3, Replacements
  <1> QED  BY <1>1, <1>2, <1>3, <1>4, ThreadsDistinct, ByStep

\* The change of the profile is over when the mutex is released.
LEMMA UnlockKeeps == ASSUME IInv, Unlock PROVE IInv'
  <1> USE DEF flags, slot, locks, timers, modes, counts
  <1>1. At(Profile, "Unlock") /\ ProfilePlan(todo[Profile])
    BY DEF Unlock, IInv, Plans
  <1>2. todo[Profile] \in Seq(Steps) /\ todo[Profile] # <<>>
        /\ Head(todo[Profile]) = "Unlock"
    BY <1>1, ThreadsDistinct, Whose DEF IInv
  <1> DEFINE s == todo[Profile]
             q == <<>> \o Tail(s)
  <1>3. <<>> \in Seq(Steps) /\ Len(<<>>) = 0
    OBVIOUS
  <1>4. q \in Seq(Steps) /\ Splice(q, <<>>, s)
    BY <1>2, <1>3, Replaced
  <1>5. todo' = [todo EXCEPT ![Profile] = q]
    BY DEF Unlock, Done, Then
  <1> HIDE DEF q
  <1>6. Len(s) = 1
    <2>1. Len(s) \in Nat \ {0} /\ s[1] = "Unlock"
      BY <1>2, <1>4 DEF Splice
    <2>2. \A i \in 1..(Len(s) - 1) : s[i] # "Unlock"
      BY <1>1, <1>2 DEF ProfilePlan, Rebuild
    <2>3. \A n \in Nat \ {0} : n = 1 \/ 1 \in 1..(n - 1)
      OBVIOUS
    <2> HIDE DEF s
    <2> QED  BY <2>1, <2>2, <2>3
  <1>7. q = <<>>
    BY <1>3, <1>4, <1>6, EmptySeq DEF Splice
  <1>8. Plans' /\ todo'[Profile] = <<>>
        /\ \A u \in Threads : u # Profile => todo'[u] = todo[u]
    BY <1>4, <1>5, <1>7, Lists, ThreadsDistinct, Listed DEF IInv
  <1>9. TypeOK'
    BY <1>8 DEF Unlock, Plans, IInv, TypeOK
  <1>10. Guarded' /\ Behind' /\ Spared'
    BY <1>8, ThreadsDistinct
       DEF Unlock, IInv, Guarded, Behind, Spared, Starting, At, Idle
  <1> QED  BY <1>8, <1>9, <1>10 DEF IInv

\* The deferred close takes the epoch it was queued for.
LEMMA LingerExpiresKeeps == ASSUME IInv, LingerExpires PROVE IInv'
  <1> USE DEF flags, slot, locks, timers, modes, counts
  <1> DEFINE q == <<"IfOnDemand", "CloseIf">>
  <1>1. q \in Seq(Steps) /\ LingerPlan(q)
    BY DEF Steps, LingerPlan
  <1>2. todo' = [todo EXCEPT ![Linger] = q]
    BY DEF LingerExpires, Call
  <1> HIDE DEF q
  <1>3. Plans' /\ \A u \in Threads : u # Linger => todo'[u] = todo[u]
    BY <1>1, <1>2, ThreadsDistinct, Listed DEF IInv
  <1>4. pending \in Nat /\ pending # NoClose
    BY DEF LingerExpires, LingerOver, IInv, TypeOK
  <1>5. TypeOK'
    BY <1>3, <1>4 DEF LingerExpires, Plans, IInv, TypeOK
  <1>6. Guarded' /\ Behind' /\ Spared'
    BY <1>3, <1>4, ThreadsDistinct
       DEF LingerExpires, LingerOver, IInv, Guarded, Behind, Spared, Starting,
           At, Idle
  <1> QED  BY <1>3, <1>5, <1>6 DEF IInv

\* A start belongs to an epoch that no close has seen.
LEMMA StartRecordingKeeps == ASSUME IInv, StartRecording PROVE IInv'
  <1> USE DEF flags, slot, locks, timers, modes, counts
  <1> DEFINE q == <<"Ensure", "Begin", "Check">>
  <1>1. q \in Seq(Steps) /\ DictPlan(q)
    BY DEF Steps, DictPlan, OfDict, Opening
  <1>2. todo' = [todo EXCEPT ![Dict] = q]
    BY DEF StartRecording, Call
  <1> HIDE DEF q
  <1>3. Plans' /\ \A u \in Threads : u # Dict => todo'[u] = todo[u]
    BY <1>1, <1>2, ThreadsDistinct, Listed DEF IInv
  <1>4. TypeOK'
    <2>1. epoch' \in 0..MaxEpoch
      BY Bounds DEF StartRecording, IInv, TypeOK
    <2> QED  BY <1>3, <2>1 DEF StartRecording, Plans, IInv, TypeOK
  <1>5. closing # epoch' /\ epoch \in Nat
    BY ConstantsAssumption DEF StartRecording, IInv, TypeOK, Behind
  <1>6. Guarded' /\ Behind' /\ Spared'
    BY <1>3, <1>5, ThreadsDistinct, SMTT(30)
       DEF StartRecording, IInv, TypeOK, Guarded, Behind, Spared, Idle
  <1> QED  BY <1>3, <1>4, <1>6 DEF IInv

\* A settings command is counted.
LEMMA GivesTyped ==
    ASSUME IInv, NEW c, Gives(c)
    PROVE  calls' \in 0..MaxCalls
  BY Bounds DEF Gives, IInv, TypeOK

\* update_acoustic_profile locks what nobody holds.
LEMMA SetProfileKeeps == ASSUME IInv, SetProfile PROVE IInv'
  <1> USE DEF flags, slot, locks, timers, modes, counts
  <1> DEFINE q == <<"Refresh", "Unlock">>
  <1>1. q \in Seq(Steps) /\ ProfilePlan(q)
    BY DEF Steps, ProfilePlan, Rebuild
  <1>2. todo' = [todo EXCEPT ![Profile] = q]
    BY DEF SetProfile, Call
  <1> HIDE DEF q
  <1>3. Plans' /\ \A u \in Threads : u # Profile => todo'[u] = todo[u]
    BY <1>1, <1>2, ThreadsDistinct, Listed DEF IInv
  <1>4. TypeOK'
    <2>1. calls' \in 0..MaxCalls
      BY GivesTyped DEF SetProfile
    <2>2. stateLock' \in Threads
      BY ThreadsDistinct DEF SetProfile
    <2> QED  BY <1>3, <2>1, <2>2 DEF SetProfile, Plans, IInv, TypeOK
  <1>5. Guarded' /\ Behind' /\ Spared'
    BY <1>3, ThreadsDistinct
       DEF SetProfile, IInv, Guarded, Behind, Spared, Starting, At, Idle
  <1> QED  BY <1>3, <1>4, <1>5 DEF IInv

\* Another thread begins to do what q says.
LEMMA CallKeeps ==
    ASSUME IInv, NEW t \in Threads \ {Profile, Linger}, NEW q \in Seq(Steps),
           Call(t, q), Mild, todo' \in [Threads -> Seq(Steps)] => TypeOK',
           t = Dict => DictPlan(q) /\ Head(q) \notin Opening
    PROVE  IInv'
  BY ByList DEF Call

\* The calls of the other threads.
LEMMA Calls ==
    /\ \A x \in {"Drop", "Refresh", "Open", "StopStream"} : <<x>> \in Seq(Steps)
    /\ <<"Switch", "Store">> \in Seq(Steps)
    /\ <<"StopStream", "Open">> \in Seq(Steps)
    /\ <<"IfIdle", "StopStream", "IfAlwaysOn">> \in Seq(Steps)
    /\ StopSteps \in Seq(Steps) /\ DictPlan(StopSteps)
    /\ Head(StopSteps) \notin Opening
  BY DEF Steps, StopSteps, DictPlan, OfDict, Opening

LEMMA UserKeeps == ASSUME IInv, User PROVE IInv'
  <1> USE DEF flags, slot, locks, timers, modes, counts, Gives
  <1>1. CASE StopRecording \/ CancelRecording
    <2>1. Mild /\ (todo' \in [Threads -> Seq(Steps)] => TypeOK')
      <3>1. calls' \in 0..MaxCalls
        BY <1>1, Bounds DEF StopRecording, CancelRecording, IInv, TypeOK
      <3> QED  BY <1>1, <3>1 DEF StopRecording, CancelRecording, Mild, IInv, TypeOK
    <2> QED  BY <1>1, <2>1, Calls, CallKeeps, ThreadsDistinct
             DEF StopRecording, CancelRecording
  <1>2. ASSUME NEW m \in Modes, SetMode(m) PROVE IInv'
    <2>1. Mild /\ (todo' \in [Threads -> Seq(Steps)] => TypeOK')
      <3>1. calls' \in 0..MaxCalls
        BY <1>2, GivesTyped DEF SetMode
      <3>2. alwaysOn' \in BOOLEAN /\ target' \in Modes
        BY <1>2 DEF SetMode
      <3>3. Mild
        BY <1>2 DEF SetMode, Mild
      <3> QED  BY <1>2, <3>1, <3>2, <3>3 DEF SetMode, IInv, TypeOK
    <2> QED  BY <1>2, <2>1, Calls, CallKeeps, ThreadsDistinct DEF SetMode
  <1>3. CASE SelectDevice \/ SetEnhancement \/ StartPreview \/ StopPreview
    <2>1. Mild /\ (todo' \in [Threads -> Seq(Steps)] => TypeOK')
      <3>1. calls' \in 0..MaxCalls
        BY <1>3, GivesTyped
           DEF SelectDevice, SetEnhancement, StartPreview, StopPreview
      <3>2. UNCHANGED <<state, stage, flags, slot, locks, timers, modes, failures>>
        BY <1>3 DEF SelectDevice, SetEnhancement, StartPreview, StopPreview
      <3> QED  BY <3>1, <3>2 DEF Mild, IInv, TypeOK
    <2>2. PICK q : /\ Call(Main, q)
                   /\ q \in {<<"StopStream", "Open">>, <<"Drop">>, <<"Refresh">>,
                             <<"Open">>, <<"StopStream">>}
      BY <1>3 DEF SelectDevice, SetEnhancement, StartPreview, StopPreview
    <2>3. q \in Seq(Steps)
      BY <2>2, Calls
    <2> QED  BY <2>1, <2>2, <2>3, CallKeeps, ThreadsDistinct
  <1> QED  BY <1>1, <1>2, <1>3, StartRecordingKeeps, SetProfileKeeps DEF User

LEMMA DeviceFailsKeeps ==
    ASSUME IInv, NEW f \in Failers, DeviceFails(f) PROVE IInv'
  <1> USE DEF flags, slot, locks, timers, modes, counts
  <1>1. Mild /\ (todo' \in [Threads -> Seq(Steps)] => TypeOK')
    <2>1. failures' \in 0..MaxFailures
      BY Bounds DEF DeviceFails, IInv, TypeOK
    <2>2. recorder' \in Slots /\ leaked' \in BOOLEAN /\ streamFailed' \in BOOLEAN
      BY DEF DeviceFails, IInv, TypeOK, Slots
    <2>3. Mild
      BY DEF DeviceFails, Mild
    <2> QED  BY <2>1, <2>2, <2>3 DEF DeviceFails, IInv, TypeOK
  <1> QED  BY <1>1, Calls, CallKeeps, ThreadsDistinct DEF DeviceFails

-----------------------------------------------------------------------------

LEMMA StutterKeeps == ASSUME IInv, UNCHANGED vars PROVE IInv'
  BY DEF vars, flags, slot, locks, timers, modes, counts, IInv, TypeOK, Plans,
         Guarded, Behind, Spared, Starting, At, Idle

LEMMA NextKeeps == IInv /\ [Next]_vars => IInv'
  <1> SUFFICES ASSUME IInv, [Next]_vars PROVE IInv'
    OBVIOUS
  <1>1. ASSUME NEW t \in Threads, Step(t) PROVE IInv'
    <2>1. CASE Open(t) \/ Refresh(t) \/ Take(t)
      BY <2>1, OpenKeeps, RefreshKeeps, TakeKeeps
    <2>2. CASE \/ Publish(t) \/ StopStream(t) \/ Drop(t) \/ Halt(t) \/ Clear(t)
               \/ Later(t) \/ Settle(t)
      BY <2>2, DoneKeeps
    <2>3. CASE t = Dict /\ (Ensure \/ Begin \/ Check)
      BY <2>3, DictKeeps, DoneKeeps
    <2>4. CASE t = Linger /\ (LingerExpires \/ IfOnDemand \/ CloseIf)
      BY <2>4, LingerExpiresKeeps, IfOnDemandKeeps, DoneKeeps
    <2>5. CASE t \in Failers /\ (IfIdle(t) \/ IfAlwaysOn(t))
      BY <2>5, FailerKeeps
    <2>6. CASE t = Main /\ (Switch \/ Store)
      BY <2>6, SwitchKeeps, DoneKeeps
    <2>7. CASE t = Profile /\ (Undo \/ Unlock)
      BY <2>7, UnlockKeeps, DoneKeeps
    <2> QED
      BY <1>1, <2>1, <2>2, <2>3, <2>4, <2>5, <2>6, <2>7 DEF Step
  <1> QED  BY <1>1, UserKeeps, DeviceFailsKeeps, StutterKeeps DEF Next

THEOREM Invariance == Spec => []IInv
  BY InitIInv, NextKeeps, PTL DEF Spec

\* Whatever is called, flags, locks and lists are what they can be, and no
\* epoch or counter passes its bound.
THEOREM TypeCorrect == Spec => []TypeOK
  <1>1. IInv => TypeOK
    BY DEF IInv
  <1> QED  BY <1>1, Invariance, PTL

\* update_acoustic_profile runs outside any recording, for any number of
\* recordings, cancels, commands and failures around it.
THEOREM ProfileAloneAlways == Spec => []ProfileAlone
  <1>1. IInv => ProfileAlone
    BY DEF IInv, Guarded, ProfileAlone
  <1> QED  BY <1>1, Invariance, PTL

\* stop_microphone_stream_if_epoch closes no stream that a start has opened and
\* is about to use, whatever number of recordings and closes came before.
THEOREM LingerSparesAlways == Spec => LingerSpares
  <1>1. IInv /\ [Next]_vars =>
          [CloseIf /\ isOpen /\ ~isOpen' => ~isRecording /\ ~At(Dict, "Begin")]_vars
    <2> SUFFICES ASSUME IInv, CloseIf, isOpen, ~isOpen'
                 PROVE  ~isRecording /\ ~At(Dict, "Begin")
      OBVIOUS
    <2>1. epoch = closing /\ ~isRecording /\ ~Idle(Linger)
      BY DEF CloseIf, MayClose, At
    <2> QED  BY <2>1 DEF IInv, Spared, Starting
  <1> QED  BY <1>1, Invariance, PTL DEF Spec, LingerSpares

-----------------------------------------------------------------------------
(* Locks in their order *)

\* Whose steps are whose.
Mine(t, x) ==
    /\ x \in {"Ensure", "Begin", "Check"} => t = Dict
    /\ x \in {"IfOnDemand", "CloseIf"} => t = Linger
    /\ x \in {"IfIdle", "IfAlwaysOn"} => t \in Failers
    /\ x \in {"Switch", "Store"} => t = Main
    /\ x \in {"Undo", "Unlock"} => t = Profile

\* A list has no foreign steps, publishes at once what it has opened, and
\* switches the mode as update_mode does.
OwnList(t, s) ==
    \A i \in 1..Len(s) :
        /\ Mine(t, s[i]) /\ (s[i] = "Publish" => i = 1)
        /\ s[i] = "Switch" => i = 1 /\ Len(s) = 2 /\ s[2] = "Store"

\* Who holds which mutex across steps, and where.
LockInv ==
    /\ \A t \in Threads : OwnList(t, todo[t]) /\ (At(t, "Publish") <=> recLock = t)
    /\ stateLock # Free => stateLock = Profile /\ ~Idle(Profile)
    /\ modeLock # Free => modeLock = Main /\ At(Main, "Store")

\* What a list becomes when its first step gives way to the steps r.
LEMMA OwnReplaced ==
    ASSUME NEW t, NEW s, OwnList(t, s), NEW r, NEW q, Splice(q, r, s),
           \A i \in 1..Len(r) : /\ Mine(t, r[i]) /\ r[i] # "Switch"
                                /\ r[i] = "Publish" => i = 1
    PROVE  /\ OwnList(t, q)
           /\ q # <<>> /\ Head(q) = "Publish" => Len(r) > 0 /\ r[1] = "Publish"
           /\ Len(r) > 0 => Len(q) > 0 /\ q[1] = r[1]
           /\ Head(s) = "Switch" /\ Len(r) = 0 => Len(q) = 1 /\ q[1] = "Store"
  <1>1. /\ Len(s) \in Nat \ {0} /\ Len(r) \in Nat /\ s[1] = Head(s) /\ 1 \in 1..Len(s)
        /\ Len(q) = Len(r) + Len(s) - 1
        /\ \A k \in 1..Len(q) :
              \/ k \in 1..Len(r) /\ q[k] = r[k]
              \/ k > Len(r) /\ k - Len(r) + 1 \in 2..Len(s) /\ q[k] = s[k - Len(r) + 1]
    BY DEF Splice
  <1>2. \A j \in 2..Len(s) : /\ j \in 1..Len(s) /\ j # 1 /\ Mine(t, s[j])
                             /\ s[j] # "Publish" /\ s[j] # "Switch"
    BY <1>1 DEF OwnList
  <1>3. OwnList(t, q)
    <2> SUFFICES ASSUME NEW k \in 1..Len(q)
                 PROVE  /\ Mine(t, q[k]) /\ (q[k] = "Publish" => k = 1)
                        /\ q[k] # "Switch"
      BY DEF OwnList
    <2>1. CASE k \in 1..Len(r) /\ q[k] = r[k]
      BY <2>1
    <2>2. CASE k - Len(r) + 1 \in 2..Len(s) /\ q[k] = s[k - Len(r) + 1]
      BY <1>2, <2>2
    <2> QED  BY <1>1, <2>1, <2>2
  <1>4. Len(r) > 0 => Len(q) > 0 /\ q[1] = r[1]
    BY <1>1
  <1>5. q # <<>> /\ Head(q) = "Publish" => Len(r) > 0 /\ r[1] = "Publish"
    <2> SUFFICES ASSUME q # <<>>, Head(q) = "Publish" PROVE Len(r) > 0 /\ r[1] = "Publish"
      OBVIOUS
    <2>1. Head(q) = q[1] /\ 1 \in 1..Len(q)
      BY <1>1 DEF Splice
    <2>2. CASE 1 \in 1..Len(r) /\ q[1] = r[1]
      BY <1>1, <2>1, <2>2
    <2>3. CASE 1 - Len(r) + 1 \in 2..Len(s) /\ q[1] = s[1 - Len(r) + 1]
      BY <1>2, <2>1, <2>3
    <2> QED  BY <1>1, <2>1, <2>2, <2>3
  <1>6. Head(s) = "Switch" /\ Len(r) = 0 => Len(q) = 1 /\ q[1] = "Store"
    BY <1>1 DEF OwnList
  <1> QED  BY <1>3, <1>4, <1>5, <1>6

\* A change of the profile that goes on has its release before it.
LEMMA ProfileGoesOn ==
    ASSUME NEW s \in Seq(Steps), s # <<>>, ProfilePlan(s), Head(s) # "Unlock",
           NEW r, NEW q \in Seq(Steps), Splice(q, r, s)
    PROVE  q # <<>>
  <1>1. s[Len(s)] = "Unlock" /\ s[1] = Head(s) /\ Len(s) \in Nat \ {0}
    BY DEF ProfilePlan, Splice
  <1>2. Len(q) > 0
    BY <1>1 DEF Splice
  <1> QED  BY <1>2

\* The first step of a list gives way to r; the step to take a mutex takes it.
LEMMA LocksByRest ==
    ASSUME IInv, LockInv, NEW t \in Threads, NEW x, At(t, x), NEW r \in Seq(Steps), Then(t, r),
           \A i \in 1..Len(r) : Mine(t, r[i]) /\ r[i] # "Switch",
           \A i \in 1..Len(r) : r[i] = "Publish" => Len(r) = 1 /\ recLock = Free /\ recLock' = t,
           (\A i \in 1..Len(r) : r[i] # "Publish") =>
                recLock' = IF x = "Publish" THEN Free ELSE recLock,
           stateLock' = IF x = "Unlock" THEN Free ELSE stateLock,
           \/ modeLock' = modeLock /\ (x = "Store" => modeLock = Free)
           \/ x = "Switch" /\ Len(r) = 0 /\ modeLock' = Main
    PROVE  LockInv'
  <1> DEFINE s == todo[t]
             q == r \o Tail(s)
  <1>1. s \in Seq(Steps) /\ s # <<>> /\ Head(s) = x /\ OwnList(t, s)
    BY Whose DEF IInv, LockInv
  <1>2. q \in Seq(Steps) /\ Splice(q, r, s)
    BY <1>1, Replaced
  <1>3. todo' = [todo EXCEPT ![t] = q] /\ todo \in [Threads -> Seq(Steps)]
    BY DEF Then, IInv, Plans
  <1>4. t = Profile /\ x # "Unlock" => q # <<>>
    BY <1>1, <1>2, ProfileGoesOn DEF IInv, Plans
  <1>5. Len(r) \in Nat /\ Len(q) \in Nat /\ (Len(q) > 0 => q # <<>> /\ Head(q) = q[1])
    <2>1. Len(q) \in Nat /\ Len(r) \in Nat /\ (Len(q) > 0 => q # <<>>)
      BY <1>2
    <2>2. q # <<>> => Head(q) = q[1]
      BY <1>2 DEF Splice
    <2> QED  BY <2>1, <2>2
  <1>6. \A i \in 1..Len(r) : r[i] = "Publish" => i = 1
    BY <1>5
  <1>7. Mine(t, x)
    <2>1. s[1] = x /\ 1 \in 1..Len(s)
      BY <1>1, <1>2 DEF Splice
    <2> QED  BY <1>1, <2>1 DEF OwnList
  <1> HIDE DEF q, s
  <1>8. /\ OwnList(t, q)
        /\ q # <<>> /\ Head(q) = "Publish" => Len(r) > 0 /\ r[1] = "Publish"
        /\ Len(r) > 0 => Len(q) > 0 /\ q[1] = r[1]
        /\ x = "Switch" /\ Len(r) = 0 => Len(q) = 1 /\ q[1] = "Store"
    BY <1>1, <1>2, <1>6, OwnReplaced
  <1>9. todo'[t] = q /\ \A u \in Threads \ {t} : todo'[u] = todo[u]
    BY <1>3
  <1>10. \A u \in Threads : OwnList(u, todo'[u])
    BY <1>8, <1>9 DEF LockInv
  <1>11. ASSUME NEW u \in Threads PROVE At(u, "Publish")' <=> recLock' = u
    <2>0. Free \notin Threads /\ (At(t, "Publish") <=> x = "Publish")
      BY <1>1, ConstantsAssumption DEF At, Idle, s
    <2>1. CASE \E i \in 1..Len(r) : r[i] = "Publish"
      <3>1. Len(r) > 0 /\ r[1] = "Publish" /\ recLock = Free /\ recLock' = t
        BY <1>5, <2>1, <1>6
      <3>2. u # t => ~At(u, "Publish")'
        BY <1>9, <2>0, <3>1 DEF LockInv, At, Idle
      <3>3. At(t, "Publish")'
        BY <1>5, <1>8, <1>9, <3>1 DEF At, Idle
      <3> QED  BY <3>1, <3>2, <3>3
    <2>2. CASE \A i \in 1..Len(r) : r[i] # "Publish"
      <3>1. ~(Len(r) > 0 /\ r[1] = "Publish")
        BY <1>5, <2>2
      <3>2. ~At(t, "Publish")'
        BY <1>8, <1>9, <3>1 DEF At, Idle
      <3>3. recLock' # t
        BY <2>0, <2>2 DEF LockInv
      <3>4. u # t => (At(u, "Publish")' <=> At(u, "Publish")) /\ (recLock' = u <=> recLock = u)
        BY <1>9, <2>0, <2>2 DEF LockInv, At, Idle
      <3> QED  BY <3>2, <3>3, <3>4 DEF LockInv
    <2> QED  BY <2>1, <2>2
  <1>12. stateLock' # Free => stateLock' = Profile /\ ~Idle(Profile)'
    BY <1>4, <1>9, ThreadsDistinct DEF LockInv, Idle
  <1>13. modeLock' # Free => modeLock' = Main /\ At(Main, "Store")'
    <2>1. CASE x = "Switch" /\ Len(r) = 0 /\ modeLock' = Main
      BY <1>5, <1>7, <1>8, <1>9, <2>1 DEF At, Idle, Mine
    <2>2. CASE modeLock' = modeLock /\ (x = "Store" => modeLock = Free)
      <3>1. modeLock # Free => t # Main
        BY <1>1, <2>2 DEF LockInv, At, s
      <3> QED  BY <1>9, <2>2, <3>1, ThreadsDistinct DEF LockInv, At, Idle
    <2> QED  BY <2>1, <2>2
  <1> QED  BY <1>10, <1>11, <1>12, <1>13 DEF LockInv

\* A thread turns to the list q.
LEMMA LocksByList ==
    ASSUME IInv, LockInv, NEW t \in Threads, NEW q, todo' = [todo EXCEPT ![t] = q],
           OwnList(t, q), q = <<>> \/ Head(q) # "Publish", t = Profile => q # <<>>,
           Idle(t) \/ \E x : x \notin {"Publish", "Store"} /\ At(t, x),
           stateLock' = stateLock \/ (t = Profile /\ stateLock' = Profile),
           UNCHANGED <<recLock, modeLock>>
    PROVE  LockInv'
  <1>1. todo'[t] = q /\ \A u \in Threads \ {t} : todo'[u] = todo[u]
    BY DEF IInv, Plans
  <1>2. ~At(t, "Publish") /\ ~At(t, "Store") /\ ~At(t, "Publish")'
    BY <1>1 DEF At, Idle
  <1>3. \A u \in Threads : OwnList(u, todo'[u]) /\ (At(u, "Publish")' <=> recLock' = u)
    BY <1>1, <1>2 DEF LockInv, At, Idle
  <1>4. stateLock' # Free => stateLock' = Profile /\ ~Idle(Profile)'
    BY <1>1, ThreadsDistinct DEF LockInv, Idle
  <1>5. modeLock' # Free => modeLock' = Main /\ At(Main, "Store")'
    BY <1>1, <1>2, ThreadsDistinct DEF LockInv, At, Idle
  <1> QED  BY <1>3, <1>4, <1>5 DEF LockInv

\* The step of a list is done.
LEMMA LocksByDone ==
    ASSUME IInv, LockInv, NEW t \in Threads, NEW x, At(t, x), Done(t),
           recLock' = IF x = "Publish" THEN Free ELSE recLock,
           stateLock' = IF x = "Unlock" THEN Free ELSE stateLock,
           \/ modeLock' = modeLock /\ (x = "Store" => modeLock = Free)
           \/ x = "Switch" /\ modeLock' = Main
    PROVE  LockInv'
  <1> DEFINE r == <<>>
  <1>1. r \in Seq(Steps) /\ Len(r) = 0 /\ Then(t, r)
    BY DEF Done
  <1>2. \A i \in 1..Len(r) : FALSE
    BY <1>1
  <1> HIDE DEF r
  <1> QED  BY <1>1, <1>2, LocksByRest

\* It gives way to one of the others.
LEMMA LocksByOthers ==
    ASSUME IInv, LockInv, NEW t \in Threads,
           NEW x \in {"Refresh", "Ensure", "IfAlwaysOn", "Switch"}, At(t, x),
           NEW r \in {<<"StopStream", "Drop", "Open">>, <<"Drop">>, <<"Open">>, <<"StopStream">>},
           Then(t, r), UNCHANGED locks
    PROVE  LockInv'
  <1>1. r \in Seq(Steps) /\ \A i \in 1..Len(r) : r[i] \in {"StopStream", "Drop", "Open"}
    <2>1. CASE r = <<"StopStream", "Drop", "Open">>
      BY <2>1, Replacements
    <2>2. ASSUME NEW y \in {"Drop", "Open", "StopStream"}, r = <<y>>
          PROVE  r \in Seq(Steps) /\ \A i \in 1..Len(r) : r[i] \in {"StopStream", "Drop", "Open"}
      BY <2>2, Replacements
    <2> QED  BY <2>1, <2>2
  <1>2. \A i \in 1..Len(r) : Mine(t, r[i]) /\ r[i] \notin {"Switch", "Publish"}
    BY <1>1 DEF Mine
  <1> QED  BY <1>1, <1>2, LocksByRest DEF locks

-----------------------------------------------------------------------------

\* The lists of the calls.
LEMMA OwnCalls ==
    ASSUME NEW t
    PROVE  /\ OwnList(t, <<>>) /\ OwnList(t, <<"Settle">>) /\ OwnList(t, StopSteps)
           /\ <<"Settle">> # <<>> /\ Head(<<"Settle">>) = "Settle"
           /\ StopSteps # <<>> /\ Head(StopSteps) = "Take"
           /\ t = Dict => /\ OwnList(t, <<"Ensure", "Begin", "Check">>)
                          /\ OwnList(t, <<"Check">>)
           /\ t = Profile => /\ OwnList(t, <<"Refresh", "Unlock">>)
                             /\ OwnList(t, <<"Undo", "Unlock">>)
           /\ t = Linger => OwnList(t, <<"IfOnDemand", "CloseIf">>)
           /\ t \in Failers => OwnList(t, <<"IfIdle", "StopStream", "IfAlwaysOn">>)
           /\ t = Main => OwnList(t, <<"Switch", "Store">>)
           /\ OwnList(t, <<"StopStream", "Open">>)
           /\ \A x \in {"Drop", "Refresh", "Open", "StopStream"} : OwnList(t, <<x>>)
  BY DEF OwnList, Mine, StopSteps

LEMMA LocksFail ==
    ASSUME IInv, LockInv, NEW t \in Threads, NEW x \in {"Open", "Begin"}, At(t, x), Fail(t),
           UNCHANGED locks
    PROVE  LockInv'
  <1>1. CASE t = Dict
    <2> DEFINE q == <<"Check">>
    <2>1. todo' = [todo EXCEPT ![t] = q]
      BY <1>1 DEF Fail
    <2>2. OwnList(t, q) /\ Head(q) # "Publish"
      BY <1>1, OwnCalls
    <2> HIDE DEF q
    <2> QED  BY <1>1, <2>1, <2>2, LocksByList, ThreadsDistinct DEF locks
  <1>2. CASE t = Profile
    <2> DEFINE q == <<"Undo", "Unlock">>
    <2>1. todo' = [todo EXCEPT ![t] = q]
      BY <1>2, ThreadsDistinct DEF Fail
    <2>2. OwnList(t, q) /\ Head(q) # "Publish" /\ q # <<>>
      BY <1>2, OwnCalls
    <2> HIDE DEF q
    <2> QED  BY <2>1, <2>2, LocksByList DEF locks
  <1>3. CASE t \notin {Dict, Profile}
    <2> DEFINE q == <<>>
    <2>1. todo' = [todo EXCEPT ![t] = q]
      BY <1>3 DEF Fail
    <2>2. OwnList(t, q) /\ q = <<>>
      BY OwnCalls
    <2> HIDE DEF q
    <2> QED  BY <1>3, <2>1, <2>2, LocksByList DEF locks
  <1> QED  BY <1>1, <1>2, <1>3

LEMMA LocksReturn ==
    ASSUME IInv, LockInv, NEW t \in Threads \ {Profile}, NEW x, x \notin {"Publish", "Store"},
           At(t, x), Return(t), UNCHANGED locks
    PROVE  LockInv'
  <1> DEFINE q == <<>>
  <1>1. todo' = [todo EXCEPT ![t] = q] /\ OwnList(t, q) /\ q = <<>>
    BY OwnCalls DEF Return
  <1> HIDE DEF q
  <1> QED  BY <1>1, LocksByList DEF locks

LEMMA LocksStep == ASSUME IInv, LockInv, NEW t \in Threads, Step(t) PROVE LockInv'
  <1>1. ASSUME Open(t) PROVE LockInv'
    <2>1. At(t, "Open") /\ recLock = Free /\ UNCHANGED <<stateLock, modeLock>>
      BY <1>1 DEF Open
    <2>2. CASE Done(t) /\ UNCHANGED recLock
      <3> DEFINE x == "Open"
      <3>1. At(t, x) /\ x \notin {"Publish", "Unlock", "Store"}
        BY <2>1
      <3> HIDE DEF x
      <3> QED  BY <2>1, <2>2, <3>1, LocksByDone
    <2>3. CASE Fail(t) /\ UNCHANGED recLock
      BY <2>1, <2>3, LocksFail DEF locks
    <2>4. CASE Then(t, <<"Publish">>) /\ recLock' = t
      <3> DEFINE r == <<"Publish">>
                 x == "Open"
      <3>1. /\ r \in Seq(Steps) /\ Then(t, r) /\ Len(r) = 1
            /\ \A i \in 1..Len(r) : r[i] = "Publish"
        BY <2>4, Replacements
      <3>2. At(t, x) /\ x \notin {"Publish", "Unlock", "Store"}
        BY <2>1
      <3>3. \A i \in 1..Len(r) : Mine(t, r[i]) /\ r[i] # "Switch"
        BY <3>1 DEF Mine
      <3>4. ~(\A i \in 1..Len(r) : r[i] # "Publish")
        BY <3>1
      <3>5. \A i \in 1..Len(r) :
               r[i] = "Publish" => Len(r) = 1 /\ recLock = Free /\ recLock' = t
        BY <2>1, <2>4, <3>1
      <3> HIDE DEF r, x
      <3> QED  BY <2>1, <3>1, <3>2, <3>3, <3>4, <3>5, LocksByRest
    <2> QED  BY <1>1, <2>2, <2>3, <2>4 DEF Open
  <1>2. ASSUME Refresh(t) PROVE LockInv'
    <2>1. At(t, "Refresh") /\ UNCHANGED locks
      BY <1>2 DEF Refresh
    <2>2. Then(t, <<"StopStream", "Drop", "Open">>) \/ Then(t, <<"Drop">>)
      BY <1>2 DEF Refresh
    <2> QED  BY <2>1, <2>2, LocksByOthers
  <1>3. ASSUME NEW x \in {"Ensure", "IfAlwaysOn"}, At(t, x), UNCHANGED locks,
               Then(t, <<"Open">>) \/ Then(t, <<>>)
        PROVE  LockInv'
    <2>1. CASE Then(t, <<"Open">>)
      BY <1>3, <2>1, LocksByOthers
    <2>2. CASE Then(t, <<>>)
      BY <1>3, <2>2, LocksByDone DEF Done, locks
    <2> QED  BY <1>3, <2>1, <2>2
  <1>4. ASSUME Take(t) PROVE LockInv'
    <2>1. At(t, "Take") /\ UNCHANGED locks
      BY <1>4 DEF Take
    <2>2. CASE Done(t)
      <3> DEFINE x == "Take"
      <3>1. At(t, x) /\ x \notin {"Publish", "Unlock", "Store"}
        BY <2>1
      <3> HIDE DEF x
      <3> QED  BY <2>1, <2>2, <3>1, LocksByDone DEF locks
    <2>3. CASE todo' = [todo EXCEPT ![t] = <<"Settle">>]
      <3> DEFINE q == <<"Settle">>
      <3>1. todo' = [todo EXCEPT ![t] = q] /\ OwnList(t, q) /\ q # <<>> /\ Head(q) # "Publish"
        BY <2>3, OwnCalls
      <3> HIDE DEF q
      <3> QED  BY <2>1, <3>1, LocksByList DEF locks
    <2> QED  BY <1>4, <2>2, <2>3 DEF Take
  <1>5. ASSUME NEW x \in {"StopStream", "Drop", "Halt", "Clear", "Later", "Settle", "Begin",
                          "Check", "IfOnDemand", "CloseIf", "IfIdle", "Undo"},
               At(t, x), Done(t), UNCHANGED locks
        PROVE  LockInv'
    BY <1>5, LocksByDone DEF locks
  <1>6. ASSUME t = Main, Switch PROVE LockInv'
    <2>1. At(t, "Switch") /\ UNCHANGED <<stateLock, recLock>>
      BY <1>6 DEF Switch
    <2>2. CASE UNCHANGED modeLock /\ (Then(t, <<"StopStream">>) \/ Then(t, <<"Open">>))
      BY <2>1, <2>2, LocksByOthers DEF locks
    <2>3. CASE Done(t) /\ modeLock' = Main
      <3> DEFINE x == "Switch"
      <3>1. At(t, x) /\ x = "Switch" /\ x \notin {"Publish", "Unlock", "Store"}
        BY <2>1
      <3> HIDE DEF x
      <3> QED  BY <2>1, <2>3, <3>1, LocksByDone
    <2> QED  BY <1>6, <2>2, <2>3 DEF Switch
  <1>7. ASSUME Publish(t) PROVE LockInv'
    <2> DEFINE x == "Publish"
    <2>1. At(t, x) /\ x = "Publish" /\ x \notin {"Unlock", "Store"}
      BY <1>7 DEF Publish
    <2>2. Done(t) /\ recLock' = Free /\ UNCHANGED <<stateLock, modeLock>>
      BY <1>7 DEF Publish
    <2> HIDE DEF x
    <2> QED  BY <2>1, <2>2, LocksByDone
  <1>8. ASSUME t = Main, Store PROVE LockInv'
    <2> DEFINE x == "Store"
    <2>1. At(t, x) /\ x = "Store" /\ x \notin {"Unlock", "Publish"}
      BY <1>8 DEF Store
    <2>2. Done(t) /\ modeLock = Free /\ UNCHANGED locks
      BY <1>8 DEF Store
    <2> HIDE DEF x
    <2> QED  BY <2>1, <2>2, LocksByDone DEF locks
  <1>9. ASSUME t = Profile, Unlock PROVE LockInv'
    <2> DEFINE x == "Unlock"
    <2>1. At(t, x) /\ x = "Unlock" /\ x \notin {"Store", "Publish"}
      BY <1>9 DEF Unlock
    <2>2. Done(t) /\ stateLock' = Free /\ UNCHANGED <<recLock, modeLock>>
      BY <1>9 DEF Unlock
    <2> HIDE DEF x
    <2> QED  BY <2>1, <2>2, LocksByDone
  <1>10. ASSUME t = Linger, LingerExpires PROVE LockInv'
    <2> DEFINE q == <<"IfOnDemand", "CloseIf">>
    <2>1. /\ todo' = [todo EXCEPT ![t] = q] /\ OwnList(t, q) /\ Head(q) # "Publish"
          /\ Idle(t) /\ UNCHANGED locks
      BY <1>10, OwnCalls DEF LingerExpires, Call
    <2> HIDE DEF q
    <2> QED  BY <1>10, <2>1, LocksByList, ThreadsDistinct DEF locks
  <1>11. ASSUME NEW x \in {"IfOnDemand", "IfIdle"}, t # Profile, At(t, x), Return(t),
                UNCHANGED locks
         PROVE  LockInv'
    BY <1>11, LocksReturn
  <1>12. CASE StopStream(t) \/ Drop(t) \/ Halt(t) \/ Clear(t) \/ Later(t) \/ Settle(t)
    BY <1>5, <1>12 DEF StopStream, Drop, Halt, Clear, Later, Settle, locks
  <1>13. ASSUME t = Dict, Ensure \/ Begin \/ Check PROVE LockInv'
    <2>1. CASE Ensure
      BY <1>3, <1>13, <2>1 DEF Ensure
    <2>2. CASE Begin
      <3>1. At(t, "Begin") /\ UNCHANGED locks /\ (Done(t) \/ Fail(t))
        BY <1>13, <2>2 DEF Begin
      <3> QED  BY <1>5, <3>1, LocksFail
    <2>3. CASE Check
      BY <1>5, <1>13, <2>3 DEF Check
    <2> QED  BY <1>13, <2>1, <2>2, <2>3
  <1>14. ASSUME t = Linger, IfOnDemand \/ CloseIf PROVE LockInv'
    BY <1>5, <1>11, <1>14, ThreadsDistinct DEF IfOnDemand, CloseIf
  <1>15. ASSUME t \in Failers, IfIdle(t) \/ IfAlwaysOn(t) PROVE LockInv'
    BY <1>3, <1>5, <1>11, <1>15, ThreadsDistinct DEF IfIdle, IfAlwaysOn
  <1>16. ASSUME t = Profile, Undo PROVE LockInv'
    BY <1>5, <1>16 DEF Undo
  <1> QED  BY <1>1, <1>2, <1>4, <1>6, <1>7, <1>8, <1>9, <1>10, <1>12, <1>13, <1>14, <1>15, <1>16
           DEF Step

\* An idle thread is given a call that opens nothing at once.
LEMMA LocksCall ==
    ASSUME IInv, LockInv, NEW t \in Threads, NEW q, Call(t, q), OwnList(t, q),
           q # <<>>, Head(q) # "Publish", UNCHANGED <<recLock, modeLock>>,
           stateLock' = stateLock \/ (t = Profile /\ stateLock' = Profile)
    PROVE  LockInv'
  BY LocksByList DEF Call

LEMMA LocksUser == ASSUME IInv, LockInv, User PROVE LockInv'
  <1>1. ASSUME NEW t \in Threads, NEW q, Call(t, q), UNCHANGED locks,
               \/ t = Dict /\ q = <<"Ensure", "Begin", "Check">>
               \/ q = StopSteps
               \/ t = Main /\ q = <<"Switch", "Store">>
               \/ q = <<"StopStream", "Open">>
               \/ \E x \in {"Drop", "Refresh", "Open", "StopStream"} : q = <<x>>
        PROVE  LockInv'
    <2>1. OwnList(t, q) /\ q # <<>> /\ Head(q) # "Publish"
      <3>1. ASSUME NEW x \in {"Drop", "Refresh", "Open", "StopStream"}, q = <<x>>
            PROVE  OwnList(t, q) /\ q # <<>> /\ Head(q) # "Publish"
        BY <3>1, OwnCalls
      <3>2. CASE q = <<"StopStream", "Open">> \/ q = StopSteps
        BY <3>2, OwnCalls
      <3>3. CASE \/ t = Dict /\ q = <<"Ensure", "Begin", "Check">>
                 \/ t = Main /\ q = <<"Switch", "Store">>
        BY <3>3, OwnCalls
      <3> QED  BY <1>1, <3>1, <3>2, <3>3
    <2> QED  BY <1>1, <2>1, LocksCall DEF locks
  <1>2. CASE StartRecording
    BY <1>1, <1>2, ThreadsDistinct DEF StartRecording
  <1>3. CASE StopRecording \/ CancelRecording
    BY <1>1, <1>3, ThreadsDistinct DEF StopRecording, CancelRecording
  <1>4. ASSUME NEW m \in Modes, SetMode(m) PROVE LockInv'
    BY <1>1, <1>4, ThreadsDistinct DEF SetMode
  <1>5. CASE SelectDevice
    BY <1>1, <1>5, ThreadsDistinct DEF SelectDevice
  <1>6. CASE SetEnhancement \/ StartPreview \/ StopPreview
    BY <1>1, <1>6, ThreadsDistinct DEF SetEnhancement, StartPreview, StopPreview
  <1>7. CASE SetProfile
    <2> DEFINE q == <<"Refresh", "Unlock">>
    <2>1. Call(Profile, q) /\ OwnList(Profile, q) /\ q # <<>> /\ Head(q) # "Publish"
      BY <1>7, OwnCalls DEF SetProfile
    <2> HIDE DEF q
    <2> QED  BY <1>7, <2>1, LocksCall, ThreadsDistinct DEF SetProfile
  <1> QED  BY <1>2, <1>3, <1>4, <1>5, <1>6, <1>7 DEF User

LEMMA LocksNext == IInv /\ LockInv /\ [Next]_vars => LockInv'
  <1> SUFFICES ASSUME IInv, LockInv, [Next]_vars PROVE LockInv'
    OBVIOUS
  <1>1. ASSUME NEW f \in Failers, DeviceFails(f) PROVE LockInv'
    <2> DEFINE q == <<"IfIdle", "StopStream", "IfAlwaysOn">>
    <2>1. /\ Call(f, q) /\ OwnList(f, q) /\ q # <<>> /\ Head(q) # "Publish"
          /\ f \in Threads /\ UNCHANGED locks
      BY <1>1, OwnCalls, ThreadsDistinct DEF DeviceFails
    <2> HIDE DEF q
    <2> QED  BY <2>1, LocksCall DEF locks
  <1>2. CASE UNCHANGED vars
    BY <1>2 DEF vars, locks, LockInv, At, Idle, OwnList
  <1> QED  BY <1>1, <1>2, LocksStep, LocksUser DEF Next

\* The mutexes a step needs.
NeedsRecorder == {"Open", "StopStream", "Drop", "Halt", "CloseIf", "Undo", "Begin"}
NeedsState    == {"Take", "Begin"}
NeedsMode     == {"Ensure", "Later", "IfOnDemand", "IfAlwaysOn", "Switch", "Store"}

\* Whether a thread's next step can run: its mutexes are free, and a cancel
\* comes to the coordinator between two of its handlers.
Able(t) ==
    /\ Head(todo[t]) \in NeedsRecorder => recLock = Free
    /\ Head(todo[t]) \in NeedsState => stateLock = Free
    /\ Head(todo[t]) \in NeedsMode => modeLock = Free
    /\ t = Cancel /\ At(t, "Settle") => Idle(Dict)

\* No mutex is waited for in a circle.  Who holds the recorder needs no other
\* mutex, the profile, which holds the state, needs at most the recorder, and
\* the mode is held for good, by update_mode at its store, or by nobody.  So
\* where the mode is free a thread at work can go on, or the one it waits
\* for can, or the one that one waits for.
WaitsOrdered ==
    /\ recLock # Free => recLock \in Threads /\ At(recLock, "Publish") /\ Able(recLock)
    /\ stateLock # Free =>
          /\ stateLock = Profile /\ ~Idle(Profile)
          /\ Able(Profile) \/ (Head(todo[Profile]) \in NeedsRecorder /\ recLock # Free)
    /\ modeLock # Free => modeLock = Main /\ At(Main, "Store")
    /\ \A t \in Threads : ~Idle(t) =>
          \/ Able(t)
          \/ Head(todo[t]) \in NeedsRecorder /\ recLock \notin {Free, t}
          \/ Head(todo[t]) \in NeedsState /\ stateLock \notin {Free, t}
          \/ Head(todo[t]) \in NeedsMode /\ modeLock # Free
          \/ t = Cancel /\ At(t, "Settle") /\ ~Idle(Dict)

\* The start and stop paths "cannot deadlock on inverted lock ordering"
\* (try_start_recording): the order every state of the program keeps.
THEOREM WaitsOrderedAlways == Spec => []WaitsOrdered
  <1>1. Init => LockInv
    <2> SUFFICES ASSUME Init PROVE LockInv
      OBVIOUS
    <2>1. \A t \in Threads : todo[t] = <<>> /\ OwnList(t, todo[t])
      BY OwnCalls DEF Init
    <2> QED  BY <2>1, ConstantsAssumption DEF Init, LockInv, At, Idle
  <1>2. IInv /\ LockInv => WaitsOrdered
    <2> SUFFICES ASSUME IInv, LockInv PROVE WaitsOrdered
      OBVIOUS
    <2>1. recLock # Free => recLock \in Threads /\ At(recLock, "Publish")
      BY DEF IInv, TypeOK, LockInv
    <2>2. \A t \in Threads : At(t, "Publish") => Able(t)
      BY DEF Able, At, NeedsRecorder, NeedsState, NeedsMode
    <2>3. ~Idle(Profile) => Head(todo[Profile]) \in Rebuild \cup {"Unlock"} /\ Profile # Cancel
      BY Whose, ThreadsDistinct, ConstantsAssumption DEF IInv, At
    <2>4. ~Idle(Profile) => \/ Able(Profile)
                            \/ Head(todo[Profile]) \in NeedsRecorder /\ recLock # Free
      BY <2>3 DEF Able, Rebuild, NeedsRecorder, NeedsState, NeedsMode
    <2>5. ASSUME NEW t \in Threads, ~Idle(t)
          PROVE  /\ Head(todo[t]) \in NeedsRecorder => recLock # t
                 /\ Head(todo[t]) \in NeedsState => stateLock # t
      <3>1. t # Free
        BY ConstantsAssumption
      <3>2. Head(todo[t]) \in NeedsRecorder => ~At(t, "Publish")
        BY DEF At, NeedsRecorder
      <3>3. t = Profile => Head(todo[t]) \notin NeedsState
        BY <2>3, <2>5 DEF NeedsState, Rebuild
      <3> QED  BY <3>1, <3>2, <3>3 DEF LockInv
    <2> QED  BY <2>1, <2>2, <2>4, <2>5 DEF WaitsOrdered, LockInv, Able
  <1>3. Spec => []IInv
    BY Invariance
  <1> QED  BY <1>1, <1>2, <1>3, LocksNext, PTL DEF Spec
-----------------------------------------------------------------------------
(* Recordings and the deferred close alone                                 *)
(*                                                                         *)
(* With a cancel, a settings command or a dead device beside it, a         *)
(* recording may be active and deaf (the README has the cases).  Without   *)
(* them it is not, whatever fails to open and however many closes are due. *)

Undisturbed ==
    Commands = {} /\ MaxCalls = 0 /\ MaxFailures = 0 /\ StartModes = {"OnDemand"}

\* What the coordinator and the pipeline have left of a start or a stop.
StartLists == {<<"Ensure", "Begin", "Check">>, <<"Open", "Begin", "Check">>,
               <<"Publish", "Begin", "Check">>, <<"Begin", "Check">>, <<"Check">>}
StopLists  == {StopSteps, <<"Halt", "Clear", "Later", "Settle">>,
               <<"Clear", "Later", "Settle">>, <<"Later", "Settle">>,
               <<"Settle">>}

Lone ==
    /\ mode = "OnDemand" /\ ~streamFailed
    /\ \A t \in Threads : t \notin {Dict, Linger} => Idle(t)
    /\ todo[Dict] \in {<<>>} \cup StartLists \cup StopLists

\* An open stream has a worker, and a start that is about to begin has one.
Serving ==
    /\ isOpen \/ At(Dict, "Publish") => recorder = "Live"
    /\ At(Dict, "Begin") => isOpen

\* An active recording captures, and the coordinator is there to stop it.
Active ==
    state = "Recording" =>
        /\ isRecording /\ capturing
        /\ \/ At(Dict, "Check") \/ At(Dict, "Take")
           \/ Idle(Dict) /\ stage = "Recording"

Heard == Lone /\ Serving /\ Active

\* The first steps of the lists, and what is left when they are done.
LEMMA Heads ==
    /\ <<"Ensure", "Begin", "Check">> # <<>>
    /\ Head(<<"Ensure", "Begin", "Check">>) = "Ensure"
    /\ <<"Open", "Begin", "Check">> # <<>>
    /\ Head(<<"Open", "Begin", "Check">>) = "Open"
    /\ <<"Publish", "Begin", "Check">> # <<>>
    /\ Head(<<"Publish", "Begin", "Check">>) = "Publish"
    /\ <<"Begin", "Check">> # <<>> /\ Head(<<"Begin", "Check">>) = "Begin"
    /\ <<"Check">> # <<>> /\ Head(<<"Check">>) = "Check"
    /\ StopSteps # <<>> /\ Head(StopSteps) = "Take"
    /\ <<"Halt", "Clear", "Later", "Settle">> # <<>>
    /\ Head(<<"Halt", "Clear", "Later", "Settle">>) = "Halt"
    /\ <<"Clear", "Later", "Settle">> # <<>>
    /\ Head(<<"Clear", "Later", "Settle">>) = "Clear"
    /\ <<"Later", "Settle">> # <<>> /\ Head(<<"Later", "Settle">>) = "Later"
    /\ <<"Settle">> # <<>> /\ Head(<<"Settle">>) = "Settle"
  BY DEF StopSteps

LEMMA Rests ==
    /\ <<>> \o Tail(<<"Begin", "Check">>) = <<"Check">>
    /\ <<>> \o Tail(<<"Check">>) = <<>>
    /\ <<>> \o Tail(<<"Open", "Begin", "Check">>) = <<"Begin", "Check">>
    /\ <<>> \o Tail(<<"Publish", "Begin", "Check">>) = <<"Begin", "Check">>
    /\ <<>> \o Tail(StopSteps) = <<"Halt", "Clear", "Later", "Settle">>
    /\ <<>> \o Tail(<<"Halt", "Clear", "Later", "Settle">>)
          = <<"Clear", "Later", "Settle">>
    /\ <<>> \o Tail(<<"Clear", "Later", "Settle">>) = <<"Later", "Settle">>
    /\ <<>> \o Tail(<<"Later", "Settle">>) = <<"Settle">>
    /\ <<>> \o Tail(<<"Settle">>) = <<>>
  BY DEF StopSteps

LEMMA Preceded ==
    ASSUME NEW x \in {"Ensure", "Open", "Publish"}, NEW y \in {"Open", "Publish"}
    PROVE  <<y>> \o Tail(<<x, "Begin", "Check">>) = <<y, "Begin", "Check">>
  <1> DEFINE r == <<"Begin", "Check">>
             s == <<y>> \o r
             q == <<y, "Begin", "Check">>
  <1>1. Tail(<<x, "Begin", "Check">>) = r
    OBVIOUS
  <1>2. <<y>> \in Seq(Steps) /\ r \in Seq(Steps) /\ q \in Seq(Steps)
    BY DEF Steps
  <1>3. s \in Seq(Steps) /\ Len(s) = 3 /\ Len(q) = 3
    BY <1>2
  <1>4. s[1] = y /\ s[2] = "Begin" /\ s[3] = "Check"
    BY <1>2, ConcatProperties
  <1>5. q[1] = y /\ q[2] = "Begin" /\ q[3] = "Check"
    OBVIOUS
  <1> HIDE DEF s, q
  <1>6. \A i \in 1..Len(s) : s[i] = q[i]
    BY <1>3, <1>4, <1>5
  <1>7. s = q
    BY <1>2, <1>3, <1>6, SeqEqual
  <1> QED  BY <1>1, <1>7 DEF s, q

\* Which list a step is the first of.
LEMMA Where ==
    ASSUME Lone
    PROVE  /\ At(Dict, "Ensure") => todo[Dict] = <<"Ensure", "Begin", "Check">>
           /\ At(Dict, "Open") => todo[Dict] = <<"Open", "Begin", "Check">>
           /\ At(Dict, "Publish") => todo[Dict] = <<"Publish", "Begin", "Check">>
           /\ At(Dict, "Begin") => todo[Dict] = <<"Begin", "Check">>
           /\ At(Dict, "Check") => todo[Dict] = <<"Check">>
           /\ At(Dict, "Take") => todo[Dict] = StopSteps
           /\ At(Dict, "Halt") => todo[Dict] = <<"Halt", "Clear", "Later", "Settle">>
           /\ At(Dict, "Clear") => todo[Dict] = <<"Clear", "Later", "Settle">>
           /\ At(Dict, "Later") => todo[Dict] = <<"Later", "Settle">>
           /\ At(Dict, "Settle") => todo[Dict] = <<"Settle">>
  <1> DEFINE a == <<"Ensure", "Begin", "Check">>
             b == <<"Open", "Begin", "Check">>
             c == <<"Publish", "Begin", "Check">>
             d == <<"Begin", "Check">>
             e == <<"Check">>
             f == StopSteps
             g == <<"Halt", "Clear", "Later", "Settle">>
             h == <<"Clear", "Later", "Settle">>
             i == <<"Later", "Settle">>
             j == <<"Settle">>
  <1>1. todo[Dict] \in {<<>>, a, b, c, d, e, f, g, h, i, j}
    BY DEF Lone, StartLists, StopLists
  <1>2. /\ Head(a) = "Ensure" /\ Head(b) = "Open" /\ Head(c) = "Publish"
        /\ Head(d) = "Begin" /\ Head(e) = "Check" /\ Head(f) = "Take"
        /\ Head(g) = "Halt" /\ Head(h) = "Clear" /\ Head(i) = "Later"
        /\ Head(j) = "Settle"
    BY Heads
  <1> HIDE DEF a, b, c, d, e, f, g, h, i, j
  <1>3. /\ At(Dict, "Ensure") => todo[Dict] = a
        /\ At(Dict, "Open") => todo[Dict] = b
        /\ At(Dict, "Publish") => todo[Dict] = c
        /\ At(Dict, "Begin") => todo[Dict] = d
        /\ At(Dict, "Check") => todo[Dict] = e
        /\ At(Dict, "Take") => todo[Dict] = f
        /\ At(Dict, "Halt") => todo[Dict] = g
        /\ At(Dict, "Clear") => todo[Dict] = h
        /\ At(Dict, "Later") => todo[Dict] = i
        /\ At(Dict, "Settle") => todo[Dict] = j
    BY <1>1, <1>2 DEF At, Idle
  <1> QED  BY <1>3 DEF a, b, c, d, e, f, g, h, i, j

\* The coordinator's or the pipeline's list becomes q; nothing else of what
\* Lone is about moves.
LEMMA Replan ==
    ASSUME Plans, Lone, NEW q,
           q \in {<<>>} \cup StartLists \cup StopLists,
           todo' = [todo EXCEPT ![Dict] = q],
           mode' = mode, streamFailed' = streamFailed \/ ~streamFailed'
    PROVE  /\ Lone' /\ todo'[Dict] = q
           /\ \A x : At(Dict, x)' <=> q # <<>> /\ Head(q) = x
           /\ Idle(Dict)' <=> q = <<>>
  <1>1. todo'[Dict] = q /\ \A t \in Threads : t # Dict => todo'[t] = todo[t]
    BY ThreadsDistinct DEF Plans
  <1>2. Lone'
    BY <1>1 DEF Lone, Idle
  <1>3. /\ \A x : At(Dict, x)' <=> q # <<>> /\ Head(q) = x
        /\ Idle(Dict)' <=> q = <<>>
    BY <1>1 DEF At, Idle
  <1> QED  BY <1>1, <1>2, <1>3

\* A step of theirs that leaves the stream and the recording alone.
LEMMA StartKeeps ==
    ASSUME Undisturbed, IInv, Heard,
           Open(Dict) \/ Publish(Dict) \/ Ensure \/ Begin \/ Check
    PROVE  Heard'
  <1> USE DEF flags, slot, locks, timers, modes, counts
  <1>0. Plans /\ Lone /\ Dict \in Threads
    BY ThreadsDistinct DEF IInv, Heard
  <1>1. CASE Ensure
    <2> DEFINE q == <<"Open", "Begin", "Check">>
    <2>1. At(Dict, "Ensure") /\ Then(Dict, <<"Open">>)
      BY <1>0, <1>1 DEF Ensure, Lone
    <2>2. todo' = [todo EXCEPT ![Dict] = q] /\ q \in StartLists
      BY <1>0, <2>1, Where, Preceded DEF Then, StartLists
    <2>3. q # <<>> /\ Head(q) = "Open"
      BY Heads
    <2> HIDE DEF q
    <2>4. /\ Lone' /\ \A x : At(Dict, x)' <=> x = "Open"
          /\ ~Idle(Dict)'
      BY <1>0, <1>1, <2>2, <2>3, Replan DEF Ensure
    <2>5. state # "Recording"
      BY <2>1 DEF Heard, Active, At, Idle
    <2> QED  BY <1>1, <2>4, <2>5 DEF Ensure, Heard, Serving, Active
  <1>2. CASE Open(Dict)
    <2>1. At(Dict, "Open") /\ state # "Recording" /\ recLock = Free
      BY <1>2 DEF Open, Heard, Active, At, Idle
    <2>2. todo[Dict] = <<"Open", "Begin", "Check">>
      BY <1>0, <2>1, Where
    <2>3. CASE isOpen /\ ~streamFailed
      <3> DEFINE q == <<"Begin", "Check">>
      <3>1. todo' = [todo EXCEPT ![Dict] = q] /\ q \in StartLists
        BY <1>2, <2>2, <2>3, Rests DEF Open, Done, Then, StartLists
      <3>2. q # <<>> /\ Head(q) = "Begin"
        BY Heads
      <3> HIDE DEF q
      <3>3. Lone' /\ \A x : At(Dict, x)' <=> x = "Begin"
        BY <1>0, <1>2, <2>3, <3>1, <3>2, Replan DEF Open
      <3> QED  BY <1>2, <2>1, <2>3, <3>3 DEF Open, Heard, Serving, Active
    <2>4. CASE ~(isOpen /\ ~streamFailed) /\ Then(Dict, <<"Publish">>) /\ recorder' = "Live"
      <3> DEFINE q == <<"Publish", "Begin", "Check">>
      <3>1. todo' = [todo EXCEPT ![Dict] = q] /\ q \in StartLists
        BY <2>2, <2>4, Preceded DEF Then, StartLists
      <3>2. q # <<>> /\ Head(q) = "Publish"
        BY Heads
      <3> HIDE DEF q
      <3>3. mode' = mode /\ streamFailed' = streamFailed
        BY <1>2, <2>4 DEF Open
      <3>4. Lone' /\ \A x : At(Dict, x)' <=> x = "Publish"
        BY <1>0, <3>1, <3>2, <3>3, Replan
      <3> QED  BY <1>2, <2>1, <2>4, <3>4 DEF Open, Heard, Serving, Active
    <2>5. CASE ~(isOpen /\ ~streamFailed) /\ Fail(Dict)
      <3> DEFINE q == <<"Check">>
      <3>1. todo' = [todo EXCEPT ![Dict] = q] /\ q \in StartLists
        BY <2>5 DEF Fail, StartLists
      <3>2. q # <<>> /\ Head(q) = "Check"
        BY Heads
      <3> HIDE DEF q
      <3>3. Lone' /\ \A x : At(Dict, x)' <=> x = "Check"
        BY <1>0, <1>2, <2>5, <3>1, <3>2, Replan DEF Open
      <3> QED  BY <1>2, <2>1, <2>5, <3>3 DEF Open, Heard, Serving, Active
    <2> QED  BY <1>2, <2>3, <2>4, <2>5 DEF Open
  <1>3. CASE Publish(Dict)
    <2> DEFINE q == <<"Begin", "Check">>
    <2>1. /\ At(Dict, "Publish") /\ state # "Recording" /\ recorder = "Live"
      BY <1>3 DEF Publish, Heard, Active, Serving, At, Idle
    <2>2. todo' = [todo EXCEPT ![Dict] = q] /\ q \in StartLists
      BY <1>0, <1>3, <2>1, Where, Rests DEF Publish, Done, Then, StartLists
    <2>3. q # <<>> /\ Head(q) = "Begin"
      BY Heads
    <2> HIDE DEF q
    <2>4. ~streamFailed' /\ mode' = mode
      BY <1>3 DEF Publish
    <2>5. Lone' /\ \A x : At(Dict, x)' <=> x = "Begin"
      BY <1>0, <2>2, <2>3, <2>4, Replan
    <2> QED  BY <1>3, <2>1, <2>5 DEF Publish, Heard, Serving, Active
  <1>4. CASE Begin
    <2> DEFINE q == <<"Check">>
    <2>1. At(Dict, "Begin") /\ isOpen /\ recorder = "Live"
          /\ state # "Recording"
      BY <1>4 DEF Begin, Heard, Active, Serving, At, Idle
    <2>2. todo' = [todo EXCEPT ![Dict] = q] /\ q \in StartLists
      BY <1>0, <1>4, <2>1, Where, Rests DEF Begin, Done, Fail, Then, StartLists
    <2>3. q # <<>> /\ Head(q) = "Check"
      BY Heads
    <2> HIDE DEF q
    <2>4. Lone' /\ \A x : At(Dict, x)' <=> x = "Check"
      BY <1>0, <1>4, <2>2, <2>3, Replan DEF Begin
    <2>5. Serving'
      BY <1>4, <2>1, <2>4 DEF Begin, Serving
    <2>6. Active'
      <3>1. recorder \in Working
        BY <2>1 DEF Working
      <3>2. (isRecording' /\ capturing') \/ state' = state
        BY <1>4, <3>1 DEF Begin
      <3> QED  BY <2>1, <2>4, <3>2 DEF Active
    <2> QED  BY <2>4, <2>5, <2>6 DEF Heard
  <1>5. CASE Check
    <2> DEFINE q == <<>>
    <2>1. At(Dict, "Check")
      BY <1>5 DEF Check
    <2>2. todo' = [todo EXCEPT ![Dict] = q]
      BY <1>0, <1>5, <2>1, Where, Rests DEF Check, Done, Then
    <2>3. q = <<>>
      OBVIOUS
    <2> HIDE DEF q
    <2>4. Lone' /\ Idle(Dict)' /\ \A x : ~At(Dict, x)'
      BY <1>0, <1>5, <2>2, <2>3, Replan DEF Check
    <2> QED  BY <1>5, <2>1, <2>4 DEF Check, Heard, Serving, Active
  <1> QED  BY <1>1, <1>2, <1>3, <1>4, <1>5

LEMMA StopKeeps ==
    ASSUME Undisturbed, IInv, Heard,
           \/ Take(Dict) \/ Halt(Dict) \/ Clear(Dict) \/ Later(Dict)
           \/ Settle(Dict)
    PROVE  Heard'
  <1> USE DEF flags, slot, locks, timers, modes, counts
  <1>0. Plans /\ Lone /\ Dict \in Threads
    BY ThreadsDistinct DEF IInv, Heard
  <1>1. PICK q : /\ q \in {<<>>} \cup StopLists
                 /\ todo' = [todo EXCEPT ![Dict] = q]
                 /\ q # <<>> => Head(q) \notin {"Publish", "Begin"}
    <2>1. CASE Take(Dict)
      <3>1. todo[Dict] = StopSteps
        BY <1>0, <2>1, Where DEF Take
      <3> QED  BY <2>1, <3>1, Rests, Heads DEF Take, Done, Then, StopLists
    <2>2. CASE Halt(Dict)
      <3>1. todo[Dict] = <<"Halt", "Clear", "Later", "Settle">>
        BY <1>0, <2>2, Where DEF Halt
      <3> QED  BY <2>2, <3>1, Rests, Heads DEF Halt, Done, Then, StopLists
    <2>3. CASE Clear(Dict)
      <3>1. todo[Dict] = <<"Clear", "Later", "Settle">>
        BY <1>0, <2>3, Where DEF Clear
      <3> QED  BY <2>3, <3>1, Rests, Heads DEF Clear, Done, Then, StopLists
    <2>4. CASE Later(Dict)
      <3>1. todo[Dict] = <<"Later", "Settle">>
        BY <1>0, <2>4, Where DEF Later
      <3> QED  BY <2>4, <3>1, Rests, Heads DEF Later, Done, Then, StopLists
    <2>5. CASE Settle(Dict)
      <3>1. todo[Dict] = <<"Settle">>
        BY <1>0, <2>5, Where DEF Settle
      <3> QED  BY <2>5, <3>1, Rests, Heads DEF Settle, Done, Then, StopLists
    <2> QED  BY <2>1, <2>2, <2>3, <2>4, <2>5
  <1>2. mode' = mode /\ streamFailed' = streamFailed
    BY DEF Take, Halt, Clear, Later, Settle
  <1>3. Lone' /\ ~At(Dict, "Publish")' /\ ~At(Dict, "Begin")'
    <2> HIDE DEF StopLists
    <2> QED  BY <1>0, <1>1, <1>2, Replan
  <1>4. isOpen' = isOpen /\ recorder' = recorder
    BY DEF Take, Halt, Clear, Later, Settle
  <1>5. Serving'
    BY <1>3, <1>4 DEF Heard, Serving
  <1>6. state' # "Recording"
    <2>1. CASE Take(Dict)
      BY <2>1 DEF Take
    <2>2. CASE Halt(Dict) \/ Clear(Dict) \/ Later(Dict) \/ Settle(Dict)
      <3>1. state # "Recording"
        BY <2>2 DEF Heard, Active, Halt, Clear, Later, Settle, At, Idle
      <3> QED  BY <2>2, <3>1 DEF Halt, Clear, Later, Settle
    <2> QED  BY <2>1, <2>2
  <1> QED  BY <1>3, <1>5, <1>6 DEF Heard, Active

\* The linger worker closes no stream of a recording that begins or runs.
LEMMA LingerKeeps ==
    ASSUME Undisturbed, IInv, Heard, LingerExpires \/ IfOnDemand \/ CloseIf
    PROVE  Heard'
  <1> USE DEF flags, slot, locks, timers, modes, counts
  <1>1. \A t \in Threads : t # Linger => todo'[t] = todo[t]
    BY ThreadsDistinct
       DEF LingerExpires, IfOnDemand, CloseIf, Call, Done, Then, Return, IInv, Plans
  <1>2. /\ UNCHANGED <<state, stage, isRecording, streamFailed, mode>>
        /\ CloseIf \/ UNCHANGED <<isOpen, recorder, capturing>>
    BY DEF LingerExpires, IfOnDemand, CloseIf
  <1>3. /\ todo'[Dict] = todo[Dict] /\ \A x : At(Dict, x)' <=> At(Dict, x)
        /\ Idle(Dict)' <=> Idle(Dict)
    BY <1>1, ThreadsDistinct DEF At, Idle
  <1>4. Lone'
    BY <1>1, <1>2, <1>3, ThreadsDistinct DEF Heard, Lone, Idle
  <1>5. CASE CloseIf /\ MayClose
    <2>1. ~At(Dict, "Begin") /\ ~At(Dict, "Publish") /\ ~isRecording /\ ~isOpen'
      BY <1>5 DEF CloseIf, MayClose, At, IInv, Spared, Starting
    <2> QED  BY <1>2, <1>3, <1>4, <2>1 DEF Heard, Serving, Active
  <1>6. CASE UNCHANGED <<isOpen, recorder, capturing>>
    BY <1>2, <1>3, <1>4, <1>6 DEF Heard, Serving, Active
  <1>7. (CloseIf /\ MayClose) \/ UNCHANGED <<isOpen, recorder, capturing>>
    BY <1>2 DEF CloseIf
  <1> QED  BY <1>5, <1>6, <1>7

LEMMA InitHeard == Undisturbed /\ Init => Heard
  <1> SUFFICES ASSUME Undisturbed, Init PROVE Heard
    OBVIOUS
  <1>1. \A t \in Threads : todo[t] = <<>>
    BY DEF Init
  <1> QED
    BY <1>1, ThreadsDistinct
       DEF Undisturbed, Init, Heard, Lone, Serving, Active, At, Idle

\* Nobody else has steps, and the user only starts and stops.
LEMMA OnlyTwo ==
    ASSUME IInv, Heard, NEW t \in Threads, Step(t)
    PROVE  \/ Open(Dict) \/ Publish(Dict) \/ Ensure \/ Begin \/ Check
           \/ Take(Dict) \/ Halt(Dict) \/ Clear(Dict) \/ Later(Dict) \/ Settle(Dict)
           \/ LingerExpires \/ IfOnDemand \/ CloseIf
  <1>0. /\ Plans /\ Dict \in Threads
        /\ \A u \in Threads : \A x : At(u, x) => u = Dict \/ u = Linger
    BY ThreadsDistinct DEF IInv, Heard, Lone, At
  <1>1. CASE t = Dict
    <2>1. ~StopStream(Dict) /\ ~Drop(Dict) /\ ~Refresh(Dict)
      BY <1>0, Whose DEF StopStream, Drop, Refresh, OfDict, Opening
    <2> QED  BY <1>1, <2>1, ThreadsDistinct DEF Step
  <1>2. CASE t = Linger
    <2>1. \A x : At(Linger, x) => x \in {"IfOnDemand", "CloseIf"}
      BY <1>0, Whose, ThreadsDistinct
    <2>2. /\ ~Open(Linger) /\ ~Publish(Linger) /\ ~StopStream(Linger)
          /\ ~Drop(Linger) /\ ~Refresh(Linger) /\ ~Take(Linger)
          /\ ~Halt(Linger) /\ ~Clear(Linger) /\ ~Later(Linger)
          /\ ~Settle(Linger)
      BY <2>1
         DEF Open, Publish, StopStream, Drop, Refresh, Take, Halt, Clear,
             Later, Settle
    <2>3. Linger # Main /\ Linger # Profile /\ Linger # Dict /\ Linger \notin Failers
      BY ThreadsDistinct
    <2> QED  BY <1>2, <2>2, <2>3 DEF Step
  <1>3. CASE t \notin {Dict, Linger}
    <2>1. \A x : ~At(t, x)
      BY <1>0, <1>3
    <2> QED
      BY <1>3, <2>1
         DEF Step, Open, Publish, StopStream, Drop, Refresh, Take, Halt,
             Clear, Later, Settle, IfIdle, IfAlwaysOn, Switch, Store, Undo,
             Unlock
  <1> QED  BY <1>1, <1>2, <1>3

LEMMA OnlyRecordings ==
    ASSUME Undisturbed, IInv, User
    PROVE  StartRecording \/ StopRecording
  <1>1. calls \in 0..MaxCalls /\ MaxCalls = 0 /\ Commands = {}
    BY DEF Undisturbed, IInv, TypeOK
  <1> QED
    BY <1>1
       DEF User, CancelRecording, SetMode, SelectDevice, SetEnhancement,
           SetProfile, StartPreview, StopPreview, Gives

LEMMA NextHeard ==
    ASSUME Undisturbed, IInv, Heard, [Next]_vars
    PROVE  Heard'
  <1> USE DEF flags, slot, locks, timers, modes, counts
  <1>0. /\ Plans /\ Lone /\ Dict \in Threads
        /\ \A t \in Threads : \A x : At(t, x) => t = Dict \/ t = Linger
    BY ThreadsDistinct DEF IInv, Heard, Lone, At
  <1>1. ASSUME NEW t \in Threads, Step(t) PROVE Heard'
    BY <1>1, OnlyTwo, StartKeeps, StopKeeps, LingerKeeps
  <1>2. ASSUME User PROVE Heard'
    <2>2. StartRecording \/ StopRecording
      BY <1>2, OnlyRecordings
    <2>3. CASE StartRecording
      <3> DEFINE q == <<"Ensure", "Begin", "Check">>
      <3>1. todo' = [todo EXCEPT ![Dict] = q] /\ q \in StartLists
        BY <2>3 DEF StartRecording, Call, StartLists
      <3>2. q # <<>> /\ Head(q) = "Ensure"
        BY Heads
      <3>3. state # "Recording"
        BY <2>3 DEF StartRecording, Call, Heard, Active, At
      <3> HIDE DEF q
      <3>4. Lone' /\ \A x : At(Dict, x)' <=> x = "Ensure"
        BY <1>0, <2>3, <3>1, <3>2, Replan DEF StartRecording
      <3> QED  BY <2>3, <3>3, <3>4 DEF StartRecording, Heard, Serving, Active
    <2>4. CASE StopRecording
      <3> DEFINE q == StopSteps
      <3>1. todo' = [todo EXCEPT ![Dict] = q] /\ q \in StopLists
        BY <2>4 DEF StopRecording, Call, StopLists
      <3>2. q # <<>> /\ Head(q) = "Take"
        BY Heads
      <3> HIDE DEF q
      <3>3. Lone' /\ \A x : At(Dict, x)' <=> x = "Take"
        BY <1>0, <2>4, <3>1, <3>2, Replan DEF StopRecording
      <3> QED  BY <2>4, <3>3 DEF StopRecording, Heard, Serving, Active
    <2> QED  BY <2>2, <2>3, <2>4
  <1>3. ASSUME NEW f \in Failers PROVE ~DeviceFails(f)
    BY DEF DeviceFails, Undisturbed, IInv, TypeOK
  <1>4. CASE UNCHANGED vars
    BY <1>4 DEF vars, Heard, Lone, Serving, Active, At, Idle
  <1> QED  BY <1>1, <1>2, <1>3, <1>4 DEF Next

\* In on-demand mode, with no cancel, command or device failure beside it, an
\* active recording captures: whatever fails to open, and whenever the closes
\* queued for the recordings before it fire (try_start_recording,
\* stop_microphone_stream_if_epoch).
THEOREM RecordedAlways == ASSUME Undisturbed PROVE Spec => []Recorded
  <1>1. Init => Heard
    BY InitHeard
  <1>2. IInv /\ Heard /\ [Next]_vars => Heard'
    BY NextHeard
  <1>3. Heard => Recorded
    BY DEF Heard, Active, Recorded
  <1> QED  BY <1>1, <1>2, <1>3, Invariance, PTL DEF Spec

-----------------------------------------------------------------------------
(* The open stream and its close, in the same circumstances *)

\* The step that follows each of them.
Only(y) == ~Idle(Dict) /\ \A z : At(Dict, z) <=> z = y

LEMMA Goes ==
    ASSUME Plans, NEW q, NEW y, todo' = [todo EXCEPT ![Dict] = q], q # <<>>, Head(q) = y
    PROVE  Only(y)'
  <1>1. todo'[Dict] = q
    BY ThreadsDistinct DEF Plans
  <1> QED  BY <1>1 DEF Only, At, Idle

LEMMA Follows ==
    ASSUME Plans, Lone
    PROVE  /\ At(Dict, "Ensure") /\ Then(Dict, <<"Open">>) => Only("Open")'
           /\ At(Dict, "Open") /\ Then(Dict, <<"Publish">>) => Only("Publish")'
           /\ Fail(Dict) => Only("Check")'
           /\ Done(Dict) =>
                 /\ At(Dict, "Open") \/ At(Dict, "Publish") => Only("Begin")'
                 /\ At(Dict, "Begin") => Only("Check")'
                 /\ At(Dict, "Take") => Only("Halt")'
                 /\ At(Dict, "Halt") => Only("Clear")'
                 /\ At(Dict, "Clear") => Only("Later")'
                 /\ At(Dict, "Later") => Only("Settle")'
                 /\ At(Dict, "Check") \/ At(Dict, "Settle") => Idle(Dict)'
  <1>1. At(Dict, "Ensure") /\ Then(Dict, <<"Open">>) => Only("Open")'
    <2> DEFINE q == <<"Open", "Begin", "Check">>
    <2> SUFFICES ASSUME At(Dict, "Ensure"), Then(Dict, <<"Open">>) PROVE Only("Open")'
      OBVIOUS
    <2>1. todo' = [todo EXCEPT ![Dict] = q]
      BY Where, Preceded DEF Then
    <2>2. q # <<>> /\ Head(q) = "Open"
      BY Heads
    <2> HIDE DEF q
    <2> QED  BY <2>1, <2>2, Goes
  <1>2. At(Dict, "Open") /\ Then(Dict, <<"Publish">>) => Only("Publish")'
    <2> DEFINE q == <<"Publish", "Begin", "Check">>
    <2> SUFFICES ASSUME At(Dict, "Open"), Then(Dict, <<"Publish">>) PROVE Only("Publish")'
      OBVIOUS
    <2>1. todo' = [todo EXCEPT ![Dict] = q]
      BY Where, Preceded DEF Then
    <2>2. q # <<>> /\ Head(q) = "Publish"
      BY Heads
    <2> HIDE DEF q
    <2> QED  BY <2>1, <2>2, Goes
  <1>3. Fail(Dict) => Only("Check")'
    <2> DEFINE q == <<"Check">>
    <2> SUFFICES ASSUME Fail(Dict) PROVE Only("Check")'
      OBVIOUS
    <2>1. todo' = [todo EXCEPT ![Dict] = q]
      BY DEF Fail
    <2>2. q # <<>> /\ Head(q) = "Check"
      BY Heads
    <2> HIDE DEF q
    <2> QED  BY <2>1, <2>2, Goes
  <1>4. ASSUME Done(Dict)
        PROVE  /\ At(Dict, "Open") \/ At(Dict, "Publish") => Only("Begin")'
               /\ At(Dict, "Begin") => Only("Check")'
               /\ At(Dict, "Take") => Only("Halt")'
               /\ At(Dict, "Halt") => Only("Clear")'
               /\ At(Dict, "Clear") => Only("Later")'
               /\ At(Dict, "Later") => Only("Settle")'
               /\ At(Dict, "Check") \/ At(Dict, "Settle") => Idle(Dict)'
    <2> DEFINE q == <<>> \o Tail(todo[Dict])
    <2>1. todo' = [todo EXCEPT ![Dict] = q] /\ todo'[Dict] = q
      BY <1>4, ThreadsDistinct DEF Done, Then, Plans
    <2>2. /\ At(Dict, "Open") \/ At(Dict, "Publish") => q = <<"Begin", "Check">>
          /\ At(Dict, "Begin") => q = <<"Check">>
          /\ At(Dict, "Take") => q = <<"Halt", "Clear", "Later", "Settle">>
          /\ At(Dict, "Halt") => q = <<"Clear", "Later", "Settle">>
          /\ At(Dict, "Clear") => q = <<"Later", "Settle">>
          /\ At(Dict, "Later") => q = <<"Settle">>
          /\ At(Dict, "Check") \/ At(Dict, "Settle") => q = <<>>
      BY Where, Rests
    <2> HIDE DEF q
    <2>3. /\ At(Dict, "Open") \/ At(Dict, "Publish") => q # <<>> /\ Head(q) = "Begin"
          /\ At(Dict, "Begin") => q # <<>> /\ Head(q) = "Check"
          /\ At(Dict, "Take") => q # <<>> /\ Head(q) = "Halt"
          /\ At(Dict, "Halt") => q # <<>> /\ Head(q) = "Clear"
          /\ At(Dict, "Clear") => q # <<>> /\ Head(q) = "Later"
          /\ At(Dict, "Later") => q # <<>> /\ Head(q) = "Settle"
      BY <2>2, Heads
    <2> QED  BY <2>1, <2>2, <2>3, Goes DEF Idle
  <1> QED  BY <1>1, <1>2, <1>3, <1>4

\* A close for the last recording is queued or under way.
CloseComing == pending = epoch \/ (~Idle(Linger) /\ closing = epoch)

\* A stream is open only for a recording or with a close to come.
Cleared ==
    /\ At(Dict, "Take") \/ (Idle(Dict) /\ stage = "Recording") => state = "Recording"
    /\ At(Dict, "Check") => IF state = "Recording" THEN isRecording ELSE ~isRecording /\ ~isOpen
    /\ \A x \in {"Ensure", "Open", "Publish", "Begin"} : At(Dict, x) => ~isRecording
    /\ At(Dict, "Later") => ~isRecording
    /\ At(Dict, "Settle") \/ (Idle(Dict) /\ stage = "Idle") =>
          ~isRecording /\ (isOpen => CloseComing)
    /\ todo[Linger] \in {<<>>, <<"IfOnDemand", "CloseIf">>, <<"CloseIf">>}

\* What is left of the linger worker's list.
LEMMA LingerLeft ==
    ASSUME Plans, todo[Linger] \in {<<>>, <<"IfOnDemand", "CloseIf">>, <<"CloseIf">>}
    PROVE  /\ At(Linger, "IfOnDemand") /\ Done(Linger) =>
                 todo'[Linger] = <<"CloseIf">> /\ ~Idle(Linger)'
           /\ At(Linger, "CloseIf") /\ Done(Linger) => todo'[Linger] = <<>>
           /\ LingerExpires => todo'[Linger] = <<"IfOnDemand", "CloseIf">> /\ ~Idle(Linger)'
  <1>1. /\ <<"IfOnDemand", "CloseIf">> # <<>> /\ <<"CloseIf">> # <<>>
        /\ Head(<<"IfOnDemand", "CloseIf">>) = "IfOnDemand" /\ Head(<<"CloseIf">>) = "CloseIf"
        /\ <<>> \o Tail(<<"IfOnDemand", "CloseIf">>) = <<"CloseIf">>
        /\ <<>> \o Tail(<<"CloseIf">>) = <<>>
    OBVIOUS
  <1>2. Done(Linger) => todo'[Linger] = <<>> \o Tail(todo[Linger])
    BY ThreadsDistinct DEF Done, Then, Plans
  <1>3. LingerExpires => todo'[Linger] = <<"IfOnDemand", "CloseIf">>
    BY ThreadsDistinct DEF LingerExpires, Call, Plans
  <1> QED  BY <1>1, <1>2, <1>3 DEF At, Idle

LEMMA ClearedByDict ==
    ASSUME Undisturbed, IInv, Heard, Cleared,
           \/ Open(Dict) \/ Publish(Dict) \/ Ensure \/ Begin \/ Check
           \/ Take(Dict) \/ Halt(Dict) \/ Clear(Dict) \/ Later(Dict) \/ Settle(Dict)
    PROVE  Cleared'
  <1> USE DEF flags, slot, locks, timers, modes, counts
  <1>0. /\ Plans /\ Lone /\ mode = "OnDemand" /\ ~streamFailed
        /\ state \in {"Idle", "Recording"}
    BY DEF IInv, Heard, Lone, TypeOK
  <1>1. ASSUME Then(Dict, <<"Open">>) \/ Then(Dict, <<"Publish">>) \/ Done(Dict) \/ Fail(Dict)
        PROVE  todo'[Linger] = todo[Linger]
    BY <1>0, <1>1, ThreadsDistinct DEF Then, Done, Fail, Plans
  <1>2. CASE Ensure
    <2>1. Then(Dict, <<"Open">>) /\ At(Dict, "Ensure")
      BY <1>0, <1>2 DEF Ensure
    <2>2. Only("Open")'
      BY <1>0, <2>1, Follows
    <2> QED  BY <1>1, <1>2, <2>1, <2>2 DEF Ensure, Cleared, Only
  <1>3. CASE Open(Dict)
    <2>1. At(Dict, "Open") /\ ~isRecording /\ state # "Recording"
      BY <1>3 DEF Open, Cleared, Heard, Active, At, Idle
    <2>2. CASE isOpen /\ ~streamFailed
      <3>1. Done(Dict) /\ UNCHANGED <<state, flags>>
        BY <1>3, <2>2 DEF Open
      <3>2. Only("Begin")'
        BY <1>0, <2>1, <3>1, Follows
      <3> QED  BY <1>1, <2>1, <3>1, <3>2 DEF Cleared, Only
    <2>3. CASE ~(isOpen /\ ~streamFailed)
      <3>1. ~isOpen' /\ UNCHANGED <<state, isRecording>>
        BY <1>3, <2>3 DEF Open
      <3>2. Then(Dict, <<"Publish">>) \/ Fail(Dict)
        BY <1>3, <2>3 DEF Open
      <3>3. Only("Publish")' \/ Only("Check")'
        BY <1>0, <2>1, <3>2, Follows
      <3> QED  BY <1>1, <2>1, <3>1, <3>2, <3>3 DEF Cleared, Only
    <2> QED  BY <2>2, <2>3
  <1>4. CASE Publish(Dict)
    <2>1. At(Dict, "Publish") /\ Done(Dict) /\ UNCHANGED isRecording
      BY <1>4 DEF Publish
    <2>2. Only("Begin")'
      BY <1>0, <2>1, Follows
    <2> QED  BY <1>1, <2>1, <2>2 DEF Cleared, Only
  <1>5. CASE Begin
    <2>1. At(Dict, "Begin") /\ state = "Idle" /\ recorder # "None"
      BY <1>0, <1>5 DEF Begin, Heard, Serving, Active, At, Idle
    <2>2. Done(Dict) /\ state' = "Recording" /\ isRecording'
      BY <1>5, <2>1 DEF Begin
    <2>3. Only("Check")'
      BY <1>0, <2>1, <2>2, Follows
    <2> QED  BY <1>1, <2>2, <2>3 DEF Cleared, Only
  <1>6. CASE Check
    <2>1. /\ At(Dict, "Check") /\ Done(Dict) /\ UNCHANGED <<state, flags, timers>>
          /\ stage' = IF isRecording THEN "Recording" ELSE "Idle"
      BY <1>6 DEF Check
    <2>2. Idle(Dict)'
      BY <1>0, <2>1, Follows
    <2> QED  BY <1>1, <2>1, <2>2 DEF Cleared, At
  <1>7. CASE Take(Dict)
    <2>1. At(Dict, "Take") /\ Done(Dict)
      BY <1>7 DEF Take, Cleared
    <2>2. Only("Halt")'
      BY <1>0, <2>1, Follows
    <2> QED  BY <1>1, <2>1, <2>2 DEF Cleared, Only
  <1>8. CASE Halt(Dict)
    <2>1. At(Dict, "Halt") /\ Done(Dict)
      BY <1>8 DEF Halt
    <2>2. Only("Clear")'
      BY <1>0, <2>1, Follows
    <2> QED  BY <1>1, <2>1, <2>2 DEF Cleared, Only
  <1>9. CASE Clear(Dict)
    <2>1. At(Dict, "Clear") /\ Done(Dict) /\ ~isRecording'
      BY <1>9 DEF Clear
    <2>2. Only("Later")'
      BY <1>0, <2>1, Follows
    <2> QED  BY <1>1, <2>1, <2>2 DEF Cleared, Only
  <1>10. CASE Later(Dict)
    <2>1. /\ At(Dict, "Later") /\ Done(Dict) /\ pending' = epoch /\ epoch' = epoch
          /\ isRecording' = isRecording
      BY <1>0, <1>10 DEF Later
    <2>2. Only("Settle")'
      BY <1>0, <2>1, Follows
    <2> QED  BY <1>1, <2>1, <2>2 DEF Cleared, Only, CloseComing
  <1>11. CASE Settle(Dict)
    <2>1. /\ At(Dict, "Settle") /\ Done(Dict) /\ stage' = "Idle"
          /\ UNCHANGED <<state, flags, timers>>
      BY <1>11 DEF Settle
    <2>2. Idle(Dict)'
      BY <1>0, <2>1, Follows
    <2>3. CloseComing => CloseComing'
      BY <1>1, <2>1 DEF CloseComing, Idle
    <2> QED  BY <1>1, <2>1, <2>2, <2>3 DEF Cleared, At
  <1> QED  BY <1>2, <1>3, <1>4, <1>5, <1>6, <1>7, <1>8, <1>9, <1>10, <1>11

LEMMA ClearedByLinger ==
    ASSUME Undisturbed, IInv, Heard, Cleared, LingerExpires \/ IfOnDemand \/ CloseIf
    PROVE  Cleared'
  <1> USE DEF flags, slot, locks, timers, modes, counts
  <1>0. Plans /\ mode = "OnDemand" /\ epoch \in Nat /\ NoClose \notin Nat
    BY ConstantsAssumption, Bounds DEF IInv, Heard, Lone, TypeOK
  <1>1. /\ UNCHANGED <<state, stage, isRecording, epoch>> /\ (isOpen' => isOpen)
        /\ LingerExpires \/ UNCHANGED <<pending, closing>>
    BY DEF LingerExpires, IfOnDemand, CloseIf
  <1>2. todo'[Dict] = todo[Dict]
    BY <1>0, ThreadsDistinct
       DEF LingerExpires, IfOnDemand, CloseIf, Call, Done, Then, Return, Plans
  <1>3. (\A x : At(Dict, x)' <=> At(Dict, x)) /\ (Idle(Dict)' <=> Idle(Dict))
    BY <1>2 DEF At, Idle
  <1>4. CASE LingerExpires
    <2>1. Idle(Linger) /\ closing' = pending
      BY <1>4 DEF LingerExpires, Call
    <2>2. todo'[Linger] = <<"IfOnDemand", "CloseIf">> /\ ~Idle(Linger)'
      BY <1>0, <1>4, LingerLeft DEF Cleared
    <2>3. CloseComing => CloseComing'
      BY <1>1, <2>1, <2>2 DEF CloseComing
    <2> QED  BY <1>1, <1>3, <2>2, <2>3 DEF Cleared
  <1>5. CASE IfOnDemand
    <2>1. todo'[Linger] = <<"CloseIf">> /\ ~Idle(Linger)' /\ ~Idle(Linger)
      BY <1>0, <1>5, LingerLeft DEF IfOnDemand, Cleared, At
    <2>2. UNCHANGED <<pending, closing>>
      BY <1>5 DEF IfOnDemand
    <2>3. CloseComing => CloseComing'
      BY <1>1, <2>1, <2>2 DEF CloseComing
    <2> QED  BY <1>1, <1>3, <2>1, <2>3 DEF Cleared
  <1>6. CASE CloseIf
    <2>1. todo'[Linger] = <<>>
      BY <1>0, <1>6, LingerLeft DEF CloseIf, Cleared
    <2>2. UNCHANGED <<pending, closing>>
      BY <1>6 DEF CloseIf
    <2>3. ~isRecording /\ (isOpen => CloseComing) /\ isOpen' => CloseComing'
      BY <1>1, <1>6, <2>2 DEF CloseIf, MayClose, CloseComing
    <2> QED  BY <1>1, <1>3, <2>1, <2>3 DEF Cleared
  <1> QED  BY <1>4, <1>5, <1>6

LEMMA NextCleared ==
    ASSUME Undisturbed, IInv, Heard, Cleared, [Next]_vars
    PROVE  Cleared'
  <1> USE DEF flags, slot, locks, timers, modes, counts
  <1>1. ASSUME NEW t \in Threads, Step(t) PROVE Cleared'
    BY <1>1, OnlyTwo, ClearedByDict, ClearedByLinger
  <1>2. ASSUME User PROVE Cleared'
    <2>1. StartRecording \/ StopRecording
      BY <1>2, OnlyRecordings
    <2>2. Plans /\ Linger \in Threads /\ Dict # Linger
      BY ThreadsDistinct DEF IInv
    <2>3. CASE StartRecording
      <3> DEFINE q == <<"Ensure", "Begin", "Check">>
      <3>1. todo' = [todo EXCEPT ![Dict] = q] /\ q # <<>> /\ Head(q) = "Ensure"
        BY <2>3, Heads DEF StartRecording, Call
      <3> HIDE DEF q
      <3>2. Only("Ensure")' /\ todo'[Linger] = todo[Linger]
        BY <2>2, <3>1, Goes DEF Plans
      <3>3. ~isRecording /\ isRecording' = isRecording
        BY <2>3 DEF StartRecording, Call, Cleared
      <3> QED  BY <3>2, <3>3 DEF Cleared, Only
    <2>4. CASE StopRecording
      <3> DEFINE q == StopSteps
      <3>1. todo' = [todo EXCEPT ![Dict] = q] /\ q # <<>> /\ Head(q) = "Take"
        BY <2>4, Heads DEF StopRecording, Call
      <3> HIDE DEF q
      <3>2. Only("Take")' /\ todo'[Linger] = todo[Linger]
        BY <2>2, <3>1, Goes DEF Plans
      <3>3. state = "Recording" /\ state' = state
        BY <2>4 DEF StopRecording, Call, Cleared
      <3> QED  BY <3>2, <3>3 DEF Cleared, Only
    <2> QED  BY <2>1, <2>3, <2>4
  <1>3. ASSUME NEW f \in Failers PROVE ~DeviceFails(f)
    BY DEF DeviceFails, Undisturbed, IInv, TypeOK
  <1>4. CASE UNCHANGED vars
    BY <1>4 DEF vars, Cleared, CloseComing, At, Idle
  <1> QED  BY <1>1, <1>2, <1>3, <1>4 DEF Next

\* schedule_on_demand_stream_close in on-demand mode, alone: whenever the
\* coordinator is idle, a stream that is still open has a close to come that is for
\* the last epoch and finds no recording to spare it for.  What MicrophoneClears
\* rests on.
THEOREM ClosesComing ==
    ASSUME Undisturbed
    PROVE  Spec => [](Idle(Dict) /\ stage = "Idle" /\ isOpen => ~isRecording /\ CloseComing)
  <1>1. Init => Heard /\ Cleared
    <2> SUFFICES ASSUME Init PROVE Cleared
      BY InitHeard
    <2>1. todo[Dict] = <<>> /\ todo[Linger] = <<>>
      BY ThreadsDistinct DEF Init
    <2>2. ~isRecording /\ ~isOpen /\ stage = "Idle"
      BY DEF Init, Undisturbed
    <2> QED  BY <2>1, <2>2 DEF Cleared, At, Idle
  <1>2. IInv /\ (Heard /\ Cleared) /\ [Next]_vars => (Heard /\ Cleared)'
    BY NextHeard, NextCleared
  <1>3. Cleared => (Idle(Dict) /\ stage = "Idle" /\ isOpen => ~isRecording /\ CloseComing)
    BY DEF Cleared
  <1> QED  BY <1>1, <1>2, <1>3, Invariance, PTL DEF Spec

-----------------------------------------------------------------------------
(* The capture worker, for any sizes, profiles and sequences of sounds.    *)
(* What it needs is that whatever may end up in a recording (the frames    *)
(* let through, those in the rescue buffer, those the VAD keeps to open    *)
(* with, the samples of a half frame) came after the last result, and      *)
(* that a stop finds a recording on, so that the VAD was reset.            *)

Above(s, b) == \A i \in 1..Len(s) : s[i] > b

VadType == [recent : Seq(Nat), hangover : 0..profile.hangover,
            onset : 0..profile.onset, speech : BOOLEAN]
RescueType == [frames : Seq(Nat), active : Nat, detected : BOOLEAN]

Placed ==
    /\ profile \in Profiles
    /\ caller \in {"idle", "Stop", "Snapshot", "Shutdown"}
    /\ inbox \in Seq(Worker!Cmd) /\ worker \in Worker!Stages
    /\ device \in {"live", "gone"} /\ fault \in {"none", "sent", "surfaced"}
    /\ recording \in BOOLEAN /\ begun \in BOOLEAN

\* The channel of commands: starts, and at its end the command the caller waits on.
Commanded ==
    /\ \A i \in 1..Len(inbox) : inbox[i] = "Start" \/ (i = Len(inbox) /\ inbox[i] = caller)
    /\ worker \in {"drain", "finish"} => inbox = <<>> /\ caller = "Stop"
    /\ worker \in {"none", "dead"} => inbox = <<>> /\ caller = "idle"

\* A stop finds a recording.
Begun ==
    /\ caller \in {"Stop", "Shutdown"} \/ worker = "none" => ~begun
    /\ worker \notin {"none", "dead"} /\ (begun \/ \E i \in 1..Len(inbox) : inbox[i] = "Stop")
           => recording \/ \E i \in 1..Len(inbox) : inbox[i] = "Start"

\* The samples not yet in a frame came after the last result, and what had come
\* when a stop was called is taken before it is answered.
Counted ==
    /\ captured \in Nat /\ taken \in Nat /\ carried \in Nat /\ requests \in Nat
    /\ sealed \in Nat /\ tail \in Nat
    /\ carried <= taken /\ sealed + carried <= taken
    /\ worker \in {"none", "dead", "finish"} => carried = 0
    /\ tail <= captured
    /\ caller # "Stop" => tail <= sealed
    /\ worker = "finish" => tail <= taken

\* The frames of a recording came after the last result.
Owned ==
    /\ Above(out, sealed) /\ Above(rescue.frames, sealed)
    /\ recording \/ worker \in {"drain", "finish"} => Above(vad.recent, sealed)
    /\ worker \in {"none", "dead", "drain", "finish"} => ~recording
    /\ worker \in {"none", "dead"} => out = <<>> /\ rescue.frames = <<>>

Sounding ==
    /\ vad \in VadType /\ rescue \in RescueType /\ out \in Seq(Nat)
    /\ heard \in Seq([frame : Nat, kind : Worker!AllKinds])
    /\ Owned

CaptureInv == Placed /\ Commanded /\ Begun /\ Counted /\ Sounding

-----------------------------------------------------------------------------
(* Its sequences and its frames *)

LEMMA Numbers ==
    /\ ChunkSize \in Nat /\ FrameSize \in Nat /\ FrameSize > 0 /\ MinActive \in Nat
    /\ Keep \in Nat /\ Compact \in Nat /\ MaxChunks \in Nat /\ MaxRequests \in Nat
    /\ Kinds \subseteq Worker!AllKinds
    /\ Profiles \subseteq [prefill : Nat, hangover : Nat, onset : Nat \ {0}]
  BY WorkerAssumption DEF Worker!RecorderAssumption

LEMMA AboveAppend ==
    ASSUME NEW s \in Seq(Nat), NEW f \in Nat, NEW b \in Nat
    PROVE  /\ Append(s, f) \in Seq(Nat) /\ Len(Append(s, f)) = Len(s) + 1
           /\ Above(s, b) /\ f > b => Above(Append(s, f), b)
  BY DEF Above

LEMMA AboveConcat ==
    ASSUME NEW s \in Seq(Nat), NEW t \in Seq(Nat), NEW b \in Nat
    PROVE  /\ s \o t \in Seq(Nat)
           /\ Above(s, b) /\ Above(t, b) => Above(s \o t, b)
  BY DEF Above

LEMMA AboveLatest ==
    ASSUME NEW s \in Seq(Nat), NEW n \in Nat, NEW b \in Nat
    PROVE  /\ Worker!Latest(s, n) \in Seq(Nat)
           /\ Above(s, b) => Above(Worker!Latest(s, n), b)
  <1>1. CASE Len(s) <= n
    BY <1>1 DEF Worker!Latest
  <1>2. CASE ~(Len(s) <= n)
    <2> DEFINE m == Len(s) - n + 1
    <2>1. m \in 1..(Len(s) + 1)
      BY <1>2
    <2>2. Worker!Latest(s, n) = SubSeq(s, m, Len(s))
      BY <1>2 DEF Worker!Latest
    <2>3. /\ SubSeq(s, m, Len(s)) \in Seq(Nat)
          /\ Len(SubSeq(s, m, Len(s))) = Len(s) - m + 1
          /\ \A i \in 1..(Len(s) - m + 1) : SubSeq(s, m, Len(s))[i] = s[m + i - 1]
      <3>1. \A i \in m..Len(s) : s[i] \in Nat
        BY <2>1
      <3> HIDE DEF m
      <3> QED  BY <2>1, <3>1, SubSeqProperties
    <2>4. ASSUME Above(s, b) PROVE Above(SubSeq(s, m, Len(s)), b)
      <3>1. \A i \in 1..(Len(s) - m + 1) : m + i - 1 \in 1..Len(s)
        BY <2>1
      <3> HIDE DEF m
      <3> QED  BY <2>1, <2>3, <2>4, <3>1 DEF Above
    <2> QED  BY <2>2, <2>3, <2>4
  <1> QED  BY <1>1, <1>2

LEMMA Smoothing ==
    ASSUME profile \in [prefill : Nat, hangover : Nat, onset : Nat \ {0}],
           vad \in VadType,
           NEW f \in Nat, NEW kind \in Worker!AllKinds, NEW b \in Nat
    PROVE  /\ Worker!Smoothed(f, kind) \in VadType
           /\ Worker!Passed(f, kind) \in Seq(Nat)
           /\ f > b /\ Above(vad.recent, b)
                  => /\ Above(Worker!Smoothed(f, kind).recent, b)
                     /\ Above(Worker!Passed(f, kind), b)
  <1> DEFINE r == Worker!Recent(f)
             Kept == f > b /\ Above(vad.recent, b)
  <1>1. /\ vad.recent \in Seq(Nat) /\ vad.hangover \in 0..profile.hangover
        /\ vad.onset \in 0..profile.onset /\ vad.speech \in BOOLEAN
        /\ profile.prefill \in Nat /\ profile.hangover \in Nat
        /\ profile.onset \in Nat /\ profile.onset > 0
    BY DEF VadType
  <1>2. r \in Seq(Nat) /\ (Kept => Above(r, b))
    <2>1. Append(vad.recent, f) \in Seq(Nat) /\ (Kept => Above(Append(vad.recent, f), b))
      BY <1>1, AboveAppend
    <2>2. profile.prefill + 1 \in Nat
      BY <1>1
    <2> QED  BY <2>1, <2>2, AboveLatest DEF Worker!Recent
  <1>3. /\ <<>> \in Seq(Nat) /\ Above(<<>>, b)
        /\ <<f>> \in Seq(Nat) /\ (Kept => Above(<<f>>, b))
    BY DEF Above
  <1>4. Worker!Passed(f, kind) \in {r, <<f>>, <<>>}
    BY DEF Worker!Passed
  <1>5. Worker!Smoothed(f, kind) \in VadType /\ Worker!Smoothed(f, kind).recent = r
    <2>1. CASE kind = "error"
      BY <1>2, <2>1 DEF Worker!Smoothed, VadType
    <2>2. CASE kind # "error"
      BY <1>1, <1>2, <2>2
         DEF Worker!Smoothed, VadType, Worker!Begins, Worker!GoesOn
    <2> QED  BY <2>1, <2>2
  <1> HIDE DEF r
  <1> QED  BY <1>2, <1>3, <1>4, <1>5

LEMMA Rescuing ==
    ASSUME profile \in [prefill : Nat, hangover : Nat, onset : Nat \ {0}],
           vad \in VadType, rescue \in RescueType,
           NEW f \in Nat, NEW kind \in Worker!AllKinds, NEW b \in Nat
    PROVE  /\ Worker!Rescued(f, kind) \in RescueType
           /\ f > b /\ Above(rescue.frames, b)
                  => Above(Worker!Rescued(f, kind).frames, b)
  <1> DEFINE frames == Append(rescue.frames, f)
             kept   == Worker!Latest(frames, Keep)
             Kept   == f > b /\ Above(rescue.frames, b)
  <1>1. /\ rescue.frames \in Seq(Nat) /\ rescue.active \in Nat
        /\ rescue.detected \in BOOLEAN
    BY DEF RescueType
  <1>2. frames \in Seq(Nat) /\ (Kept => Above(frames, b))
    BY <1>1, AboveAppend
  <1>3. kept \in Seq(Nat) /\ (Kept => Above(kept, b))
    BY <1>2, Numbers, AboveLatest
  <1>4. Worker!Fresh \in RescueType /\ Above(Worker!Fresh.frames, b)
    BY DEF Worker!Fresh, RescueType, Above
  <1> HIDE DEF frames, kept
  <1>5. Worker!PushRescue(f, kind) \in RescueType
        /\ Worker!PushRescue(f, kind).frames \in {frames, kept, Worker!Fresh.frames}
    <2>1. CASE kind = "broken"
      BY <1>4, <2>1 DEF Worker!PushRescue
    <2>2. CASE kind # "broken" /\ rescue.detected
      <3>1. Worker!PushRescue(f, kind) = [rescue EXCEPT !.frames = frames]
        BY <2>2 DEF Worker!PushRescue, frames
      <3> QED  BY <1>2, <3>1 DEF RescueType
    <2>3. CASE kind # "broken" /\ ~rescue.detected
      <3> DEFINE a == IF kind \in Worker!Loud THEN rescue.active + 1 ELSE 0
                 to(g, d) == [frames |-> g, active |-> a, detected |-> d]
      <3>1. a \in Nat
        BY <1>1
      <3>2. \/ Worker!PushRescue(f, kind) = to(frames, TRUE)
            \/ Worker!PushRescue(f, kind) = to(frames, FALSE)
            \/ Worker!PushRescue(f, kind) = to(kept, FALSE)
        BY <2>3 DEF Worker!PushRescue, frames, kept
      <3> HIDE DEF a
      <3>3. \A g \in Seq(Nat), d \in BOOLEAN : to(g, d) \in RescueType /\ to(g, d).frames = g
        BY <3>1 DEF RescueType
      <3> HIDE DEF to
      <3>4. /\ to(frames, TRUE) \in RescueType /\ to(frames, TRUE).frames = frames
            /\ to(frames, FALSE) \in RescueType /\ to(frames, FALSE).frames = frames
            /\ to(kept, FALSE) \in RescueType /\ to(kept, FALSE).frames = kept
        BY <1>2, <1>3, <3>3
      <3> QED  BY <3>2, <3>4
    <2> QED  BY <1>1, <2>1, <2>2, <2>3
  <1> QED  BY <1>1, <1>2, <1>3, <1>4, <1>5 DEF Worker!Rescued

\* A frame that comes after the last result is added wherever it is added.
LEMMA Handling ==
    ASSUME profile \in Profiles, vad \in VadType, rescue \in RescueType,
           out \in Seq(Nat), heard \in Seq([frame : Nat, kind : Worker!AllKinds]),
           profile' = profile, sealed \in Nat, sealed' = sealed,
           Above(out, sealed), Above(rescue.frames, sealed), Above(vad.recent, sealed),
           NEW f \in Nat, f > sealed,
           NEW kind \in Kinds, Worker!HandleFrame(f, kind)
    PROVE  /\ vad' \in VadType' /\ rescue' \in RescueType /\ out' \in Seq(Nat)
           /\ heard' \in Seq([frame : Nat, kind : Worker!AllKinds])
           /\ Above(out, sealed)' /\ Above(rescue.frames, sealed)'
           /\ Above(vad.recent, sealed)'
  <1>1. profile \in [prefill : Nat, hangover : Nat, onset : Nat \ {0}]
        /\ kind \in Worker!AllKinds
    BY Numbers
  <1>2. /\ vad' = Worker!Smoothed(f, kind) /\ out' = out \o Worker!Passed(f, kind)
        /\ rescue' = Worker!Rescued(f, kind)
        /\ heard' = Append(heard, [frame |-> f, kind |-> kind])
    BY DEF Worker!HandleFrame
  <1>3. /\ vad' \in VadType /\ Above(vad'.recent, sealed)
        /\ Worker!Passed(f, kind) \in Seq(Nat) /\ Above(Worker!Passed(f, kind), sealed)
    BY <1>1, <1>2, Smoothing
  <1>4. rescue' \in RescueType /\ Above(rescue'.frames, sealed)
    BY <1>1, <1>2, Rescuing
  <1>5. out' \in Seq(Nat) /\ Above(out', sealed)
    BY <1>2, <1>3, AboveConcat
  <1>6. heard' \in Seq([frame : Nat, kind : Worker!AllKinds])
    BY <1>1, <1>2
  <1>7. VadType' = VadType
    BY DEF VadType
  <1> QED  BY <1>3, <1>4, <1>5, <1>6, <1>7 DEF Above

LEMMA Waiting ==
    ASSUME CaptureInv, inbox # <<>>, inbox' = Tail(inbox)
    PROVE  /\ inbox' \in Seq(Worker!Cmd) /\ Len(inbox) >= 1
           /\ Len(inbox') = Len(inbox) - 1
           /\ \A i \in 1..Len(inbox') : inbox'[i] = inbox[i + 1]
           /\ Head(inbox) # "Start" => /\ Head(inbox) = caller
                                       /\ Len(inbox) = 1 /\ inbox' = <<>>
                                       /\ \A i \in 1..Len(inbox) : inbox[i] = caller
  <1>1. inbox \in Seq(Worker!Cmd)
    BY DEF CaptureInv, Placed
  <1>2. \A i \in 1..Len(inbox) : inbox[i] = "Start" \/ (i = Len(inbox) /\ inbox[i] = caller)
    BY DEF CaptureInv, Commanded
  <1>3. /\ Head(inbox) = inbox[1] /\ Len(inbox) >= 1
        /\ Tail(inbox) \in Seq(Worker!Cmd) /\ Len(Tail(inbox)) = Len(inbox) - 1
        /\ \A i \in 1..Len(Tail(inbox)) : Tail(inbox)[i] = inbox[i + 1]
    BY <1>1
  <1>4. ASSUME Head(inbox) # "Start"
        PROVE  /\ Head(inbox) = caller /\ Len(inbox) = 1 /\ Len(Tail(inbox)) = 0
               /\ \A i \in 1..Len(inbox) : inbox[i] = caller
    <2>1. 1 \in 1..Len(inbox)
      BY <1>1, <1>3
    <2>2. Len(inbox) = 1 /\ inbox[1] = caller
      BY <1>2, <1>3, <1>4, <2>1
    <2> QED  BY <1>3, <2>2
  <1>5. Len(Tail(inbox)) = 0 => Tail(inbox) = <<>>
    BY <1>3
  <1> QED  BY <1>3, <1>4, <1>5

\* A caller that asks finds starts only before it.
LEMMA Asking ==
    ASSUME CaptureInv, caller = "idle", NEW c \in Worker!Cmd, inbox' = Append(inbox, c)
    PROVE  /\ inbox' \in Seq(Worker!Cmd) /\ Len(inbox) \in Nat
           /\ Len(inbox') = Len(inbox) + 1 /\ inbox'[Len(inbox) + 1] = c
           /\ \A i \in 1..Len(inbox) : inbox[i] = "Start" /\ inbox'[i] = "Start"
  <1>1. inbox \in Seq(Worker!Cmd)
    BY DEF CaptureInv, Placed
  <1>2. \A i \in 1..Len(inbox) : inbox[i] = "Start" \/ inbox[i] = caller
    BY DEF CaptureInv, Commanded
  <1>3. \A i \in 1..Len(inbox) : inbox[i] \in Worker!Cmd
    BY <1>1
  <1>4. \A i \in 1..Len(inbox) : inbox[i] = "Start"
    BY <1>2, <1>3 DEF Worker!Cmd
  <1>5. /\ Append(inbox, c) \in Seq(Worker!Cmd) /\ Len(inbox) \in Nat
        /\ Len(Append(inbox, c)) = Len(inbox) + 1 /\ Append(inbox, c)[Len(inbox) + 1] = c
        /\ \A i \in 1..Len(inbox) : Append(inbox, c)[i] = inbox[i]
    BY <1>1
  <1> QED  BY <1>4, <1>5

LEMMA TypesOf == CaptureInv => Worker!TypeOK
  BY DEF CaptureInv, Placed, Counted, Sounding, Worker!TypeOK, VadType, RescueType

\* What most actions leave alone.
LEMMA SameSound ==
    ASSUME Sounding, UNCHANGED <<profile, vad, out, rescue, heard, recording, sealed>>,
           worker' \in {"drain", "finish"} => worker \in {"drain", "finish"},
           worker' \in {"none", "dead"} => worker \in {"none", "dead"}
    PROVE  Sounding'
  <1>1. Above(out, sealed)' /\ Above(rescue.frames, sealed)'
    BY DEF Sounding, Owned, Above
  <1>2. Above(vad.recent, sealed)' <=> Above(vad.recent, sealed)
    BY DEF Above
  <1>3. recording' = recording /\ out' = out /\ rescue' = rescue
    OBVIOUS
  <1>4. Owned'
    BY <1>1, <1>2, <1>3 DEF Sounding, Owned
  <1>5. VadType' = VadType
    BY DEF VadType
  <1> QED  BY <1>4, <1>5 DEF Sounding

\* A recording that begins or ends leaves no frames.
LEMMA Silenced ==
    ASSUME profile \in Profiles,
           Sounding, profile' = profile, sealed' \in Nat,
           out' = <<>>, rescue' = Worker!Fresh, heard' = <<>>,
           \/ vad' = Worker!Reset /\ worker' \notin {"none", "dead", "drain", "finish"}
           \/ vad' = vad /\ ~recording' /\ worker' \notin {"drain", "finish"}
    PROVE  Sounding'
  <1>1. profile.hangover \in Nat /\ profile.onset \in Nat
    BY Numbers
  <1>2. VadType' = VadType
    BY DEF VadType
  <1>3. Worker!Reset \in VadType /\ Above(Worker!Reset.recent, sealed')
    BY <1>1 DEF VadType, Worker!Reset, Above
  <1>4. rescue' \in RescueType /\ rescue'.frames = <<>>
    BY DEF Worker!Fresh, RescueType
  <1>5. out' \in Seq(Nat) /\ heard' \in Seq([frame : Nat, kind : Worker!AllKinds])
    OBVIOUS
  <1>6. Above(out', sealed') /\ Above(rescue'.frames, sealed')
    BY <1>4 DEF Above
  <1>7. vad' \in VadType
    BY <1>3 DEF Sounding
  <1>8. recording' \/ worker' \in {"drain", "finish"} => Above(vad'.recent, sealed')
    BY <1>3
  <1>9. Owned'
    BY <1>4, <1>6, <1>8 DEF Owned, Above
  <1> QED  BY <1>2, <1>4, <1>5, <1>7, <1>9 DEF Sounding

LEMMA InitCapture == Worker!Init => CaptureInv
  <1> SUFFICES ASSUME Worker!Init PROVE CaptureInv
    OBVIOUS
  <1>1. profile.hangover \in Nat /\ profile.onset \in Nat
    BY Numbers DEF Worker!Init
  <1>2. Placed
    <2>1. inbox \in Seq(Worker!Cmd)
      BY DEF Worker!Init
    <2> QED  BY <2>1 DEF Worker!Init, Placed, Worker!Stages
  <1>3. Commanded /\ Begun
    BY DEF Worker!Init, Commanded, Begun
  <1>4. Counted
    BY DEF Worker!Init, Counted
  <1>5. Sounding
    <2>1. vad \in VadType
      BY <1>1 DEF Worker!Init, Worker!Reset, VadType
    <2>2. rescue \in RescueType
      BY DEF Worker!Init, Worker!Fresh, RescueType
    <2>3. out \in Seq(Nat) /\ heard \in Seq([frame : Nat, kind : Worker!AllKinds])
      BY DEF Worker!Init
    <2>4. Owned
      BY DEF Worker!Init, Worker!Reset, Worker!Fresh, Owned, Above
    <2> QED  BY <2>1, <2>2, <2>3, <2>4 DEF Sounding
  <1> QED  BY <1>2, <1>3, <1>4, <1>5 DEF CaptureInv

\* What a step that moves only the numbers leaves alone.
Settings == <<profile, caller, inbox, worker, device, fault, recording, begun>>

LEMMA SameControl ==
    ASSUME Placed, Commanded, Begun, UNCHANGED Settings
    PROVE  Placed' /\ Commanded' /\ Begun'
  BY DEF Placed, Commanded, Begun, Settings

LEMMA UserStep ==
    ASSUME CaptureInv, Worker!User, profile' = profile
    PROVE  CaptureInv'
  <1>1. /\ Placed /\ Commanded /\ Begun /\ Counted /\ Sounding
        /\ caller = "idle" /\ requests' \in Nat
    BY DEF CaptureInv, Counted, Worker!User, Worker!Open, Worker!Start, Worker!Stop,
           Worker!Snapshot, Worker!Close, Worker!CloseDead, Worker!Ask, Worker!Asks
  <1>2. CASE Worker!Open
    <2>1. Placed'
      BY <1>1, <1>2 DEF Worker!Open, Placed, Worker!Stages
    <2>2. Commanded' /\ Begun'
      BY <1>1, <1>2 DEF Worker!Open, Commanded, Begun
    <2>3. Counted'
      BY <1>1, <1>2 DEF Worker!Open, Counted
    <2>4. Sounding'
      <3>1. /\ ~recording' /\ out' = <<>> /\ rescue'.frames = <<>>
            /\ worker' = "hear"
        BY <1>1, <1>2 DEF Worker!Open, Worker!sound, Sounding, Owned
      <3>2. Owned'
        BY <3>1 DEF Owned, Above
      <3>3. VadType' = VadType
        BY DEF VadType
      <3> QED  BY <1>1, <1>2, <3>2, <3>3 DEF Worker!Open, Worker!sound, Sounding
    <2> QED  BY <2>1, <2>2, <2>3, <2>4 DEF CaptureInv
  <1>3. CASE Worker!Start
    <2>1. "Start" \in Worker!Cmd
      BY DEF Worker!Cmd
    <2>2. inbox' = Append(inbox, "Start")
      BY <1>3 DEF Worker!Start
    <2>3. Placed'
      <3>1. inbox' \in Seq(Worker!Cmd)
        BY <1>1, <2>1, <2>2, Asking
      <3>2. begun' \in BOOLEAN
        BY <1>3 DEF Worker!Start
      <3>3. UNCHANGED <<caller, worker, device, fault, recording>>
        BY <1>3 DEF Worker!Start, Worker!stream
      <3> QED  BY <1>1, <3>1, <3>2, <3>3 DEF Placed
    <2>4. Commanded' /\ Begun'
      BY <1>1, <1>3, <2>1, <2>2, Asking DEF Worker!Start, Worker!Running, Commanded, Begun
    <2>5. Counted'
      BY <1>1, <1>3 DEF Worker!Start, Counted, Worker!stream, Worker!feed
    <2>6. Sounding'
      BY <1>1, <1>3, SameSound DEF Worker!Start, Worker!sound
    <2> QED  BY <2>3, <2>4, <2>5, <2>6 DEF CaptureInv
  <1>4. ASSUME NEW c \in {"Stop", "Snapshot", "Shutdown"}, Worker!Ask(c)
        PROVE  /\ Worker!Cmd = {"Start", "Stop", "Snapshot", "Shutdown"}
               /\ inbox' \in Seq(Worker!Cmd) /\ Len(inbox) \in Nat
               /\ Len(inbox') = Len(inbox) + 1 /\ inbox'[Len(inbox) + 1] = c
               /\ \A i \in 1..Len(inbox) : inbox[i] = "Start" /\ inbox'[i] = "Start"
               /\ worker \notin {"none", "dead", "drain", "finish"}
               /\ caller' = c /\ worker' = worker
               /\ recording' = recording /\ device' = device /\ fault' = fault
               /\ UNCHANGED <<captured, taken, carried, sealed>>
               /\ Sounding'
    <2>1. c \in Worker!Cmd /\ inbox' = Append(inbox, c)
      BY <1>4 DEF Worker!Cmd, Worker!Ask
    <2>2. worker \notin {"none", "dead", "drain", "finish"}
      BY <1>1, <1>4 DEF Worker!Ask, Worker!Running, Commanded
    <2>3. Sounding'
      BY <1>1, <1>4, SameSound DEF Worker!Ask, Worker!sound
    <2> QED  BY <1>1, <1>4, <2>1, <2>2, <2>3, Asking
             DEF Worker!Cmd, Worker!Ask, Worker!stream, Worker!feed
  <1>5. CASE Worker!Stop
    <2>1. Worker!Ask("Stop") /\ begun /\ begun' = FALSE /\ tail' = captured
      BY <1>5 DEF Worker!Stop
    <2>2. Placed'
      BY <1>1, <1>4, <2>1 DEF Placed
    <2>3. Commanded'
      BY <1>1, <1>4, <2>1 DEF Commanded
    <2>4. Begun'
      BY <1>1, <1>4, <2>1 DEF Begun
    <2>5. Counted'
      BY <1>1, <1>4, <2>1 DEF Counted
    <2> QED  BY <1>4, <2>1, <2>2, <2>3, <2>4, <2>5 DEF CaptureInv
  <1>6. CASE Worker!Snapshot
    <2>1. Worker!Ask("Snapshot") /\ begun' = begun /\ tail' = tail
      BY <1>6 DEF Worker!Snapshot
    <2>2. Placed'
      BY <1>1, <1>4, <2>1 DEF Placed
    <2>3. Commanded'
      BY <1>1, <1>4, <2>1 DEF Commanded
    <2>4. Begun'
      BY <1>1, <1>4, <2>1 DEF Begun
    <2>5. Counted'
      BY <1>1, <1>4, <2>1 DEF Counted
    <2> QED  BY <1>4, <2>1, <2>2, <2>3, <2>4, <2>5 DEF CaptureInv
  <1>7. CASE Worker!Close
    <2>1. Worker!Ask("Shutdown") /\ begun' = FALSE /\ tail' = tail
      BY <1>7 DEF Worker!Close
    <2>2. Placed'
      BY <1>1, <1>4, <2>1 DEF Placed
    <2>3. Commanded'
      BY <1>1, <1>4, <2>1 DEF Commanded
    <2>4. Begun'
      BY <1>1, <1>4, <2>1 DEF Begun
    <2>5. Counted'
      BY <1>1, <1>4, <2>1 DEF Counted
    <2> QED  BY <1>4, <2>1, <2>2, <2>3, <2>4, <2>5 DEF CaptureInv
  <1>8. CASE Worker!CloseDead
    <2>1. Placed'
      <3>1. begun' \in BOOLEAN /\ worker' \in Worker!Stages
        BY <1>8 DEF Worker!CloseDead, Worker!Stages
      <3>2. UNCHANGED <<caller, inbox, device, fault, recording>>
        BY <1>8 DEF Worker!CloseDead, Worker!stream
      <3> QED  BY <1>1, <3>1, <3>2 DEF Placed
    <2>2. Commanded' /\ Begun'
      BY <1>1, <1>8 DEF Worker!CloseDead, Commanded, Begun
    <2>3. Counted'
      BY <1>1, <1>8 DEF Worker!CloseDead, Counted, Worker!stream, Worker!feed
    <2>4. Sounding'
      BY <1>1, <1>8, SameSound DEF Worker!CloseDead, Worker!sound
    <2> QED  BY <2>1, <2>2, <2>3, <2>4 DEF CaptureInv
  <1> QED  BY <1>2, <1>3, <1>5, <1>6, <1>7, <1>8 DEF Worker!User

LEMMA StreamStep ==
    ASSUME CaptureInv, Worker!Capture \/ Worker!StreamFails,
           profile' = profile
    PROVE  CaptureInv'
  <1>1. Placed /\ Commanded /\ Begun /\ Counted /\ Sounding
    BY DEF CaptureInv
  <1>2. CASE Worker!Capture
    <2>1. Placed' /\ Commanded' /\ Begun'
      BY <1>1, <1>2, SameControl DEF Worker!Capture, Worker!calls, Settings
    <2>2. Counted'
      BY <1>1, <1>2, Numbers DEF Worker!Capture, Counted, Worker!calls, Worker!feed
    <2>3. Sounding'
      BY <1>1, <1>2, SameSound DEF Worker!Capture, Worker!sound
    <2> QED  BY <2>1, <2>2, <2>3 DEF CaptureInv
  <1>3. CASE Worker!StreamFails
    <2>1. Placed'
      BY <1>1, <1>3 DEF Worker!StreamFails, Worker!calls, Placed
    <2>2. Commanded' /\ Begun'
      BY <1>1, <1>3 DEF Worker!StreamFails, Worker!calls, Commanded, Begun
    <2>3. Counted'
      BY <1>1, <1>3 DEF Worker!StreamFails, Counted, Worker!calls, Worker!feed
    <2>4. Sounding'
      BY <1>1, <1>3, SameSound DEF Worker!StreamFails, Worker!sound
    <2> QED  BY <2>1, <2>2, <2>3, <2>4 DEF CaptureInv
  <1> QED  BY <1>2, <1>3

\* A stage further on, with everything about the calls as it was.
LEMMA SameCalls ==
    ASSUME Placed, Commanded, Begun, UNCHANGED <<profile, caller, inbox, device, recording, begun>>,
           fault' \in {"none", "sent", "surfaced"},
           worker' \in Worker!Stages, {worker, worker'} \cap {"none", "dead"} = {},
           worker' \in {"drain", "finish"} => worker \in {"drain", "finish"}
    PROVE  Placed' /\ Commanded' /\ Begun'
  <1>1. worker \notin {"none", "dead"} /\ worker' \notin {"none", "dead"}
    OBVIOUS
  <1>2. Placed'
    BY DEF Placed
  <1>3. Commanded'
    BY <1>1 DEF Commanded
  <1>4. Begun'
    BY <1>1 DEF Begun
  <1> QED  BY <1>2, <1>3, <1>4

LEMMA WorkStep ==
    ASSUME CaptureInv, Worker!Work
    PROVE  CaptureInv'
  <1>1. Placed /\ Commanded /\ Begun /\ Counted /\ Sounding /\ profile' = profile
    BY DEF CaptureInv, Worker!Work
  <1>2. /\ ChunkSize \in Nat /\ FrameSize \in Nat /\ Kinds \subseteq Worker!AllKinds
        /\ fault \in {"none", "sent", "surfaced"} /\ profile \in Profiles
    BY <1>1, Numbers DEF Placed
  <1>3. CASE Worker!HearChunk
    <2>1. Placed' /\ Commanded' /\ Begun'
      BY <1>1, <1>2, <1>3, SameCalls
         DEF Worker!HearChunk, Worker!At, Worker!Go, Worker!rest, Worker!stream,
             Worker!calls, Worker!Stages
    <2>2. Counted'
      BY <1>1, <1>2, <1>3 DEF Worker!HearChunk, Worker!At, Worker!Go, Worker!Receive,
             Worker!rest, Worker!stream, Worker!calls, Counted
    <2>3. Sounding'
      BY <1>1, <1>3, SameSound
         DEF Worker!HearChunk, Worker!At, Worker!Go, Worker!rest, Worker!sound
    <2> QED  BY <2>1, <2>2, <2>3 DEF CaptureInv
  <1>4. CASE Worker!Disconnected
    <2>1. /\ caller' = "idle" /\ inbox' = <<>> /\ recording' = FALSE /\ begun' = begun
          /\ device' = device /\ fault' = fault
          /\ worker = "hear" /\ worker' \in {"none", "dead"}
          /\ worker' = "none" => ~begun
      BY <1>1, <1>4 DEF Worker!Disconnected, Worker!Return, Worker!At, Worker!stream, Begun
    <2>2. Placed'
      <3>1. inbox' \in Seq(Worker!Cmd)
        BY <2>1
      <3>2. worker' \in Worker!Stages
        BY <2>1 DEF Worker!Stages
      <3>3. recording' \in BOOLEAN /\ begun' \in BOOLEAN
        BY <1>1, <2>1 DEF Placed
      <3> QED  BY <1>1, <2>1, <3>1, <3>2, <3>3 DEF Placed
    <2>3. Commanded' /\ Begun'
      BY <2>1 DEF Commanded, Begun
    <2>4. Counted'
      BY <1>1, <1>4, <2>1 DEF Worker!Disconnected, Worker!Return, Worker!stream, Counted
    <2>5. Sounding'
      BY <1>1, <1>2, <1>4, <2>1, Silenced
         DEF Worker!Disconnected, Worker!Return, Counted
    <2> QED  BY <2>2, <2>3, <2>4, <2>5 DEF CaptureInv
  <1>5. ASSUME NEW kind \in Kinds, Worker!HandleFrame(Worker!NextFrame, kind),
               recording \/ worker = "drain", carried > 0, UNCHANGED <<sealed, recording>>,
               worker' \notin {"none", "dead"},
               worker' \in {"drain", "finish"} => worker \in {"drain", "finish"}
        PROVE  Sounding'
    <2>1. Worker!NextFrame \in Nat /\ Worker!NextFrame > sealed
      BY <1>1, <1>5 DEF Worker!NextFrame, Counted
    <2>2. /\ Above(vad.recent, sealed) /\ Above(out, sealed) /\ Above(rescue.frames, sealed)
          /\ worker' \in {"drain", "finish"} => ~recording'
      BY <1>1, <1>5 DEF Sounding, Owned
    <2>3. /\ vad \in VadType /\ rescue \in RescueType /\ out \in Seq(Nat)
          /\ heard \in Seq([frame : Nat, kind : Worker!AllKinds]) /\ sealed \in Nat
      BY <1>1 DEF Sounding, Counted
    <2>4. sealed' = sealed
      BY <1>5
    <2>5. /\ vad' \in VadType' /\ rescue' \in RescueType /\ out' \in Seq(Nat)
          /\ heard' \in Seq([frame : Nat, kind : Worker!AllKinds])
          /\ Above(out, sealed)' /\ Above(rescue.frames, sealed)'
          /\ Above(vad.recent, sealed)'
      BY <1>1, <1>2, <1>5, <2>1, <2>2, <2>3, <2>4, Handling
    <2>6. Owned'
      BY <1>5, <2>2, <2>5 DEF Owned
    <2> QED  BY <2>5, <2>6 DEF Sounding
  <1>6. CASE Worker!Frame
    <2>1. /\ worker \in {"feed", "drain"} /\ worker' = worker
          /\ carried >= FrameSize /\ carried' = carried - FrameSize /\ taken' = taken
          /\ UNCHANGED <<captured, device, caller, begun, requests, tail, sealed, inbox,
                         fault, recording>>
      BY <1>6 DEF Worker!Frame, Worker!rest, Worker!stream, Worker!calls
    <2>2. Placed' /\ Commanded' /\ Begun'
      BY <1>1, <1>2, <2>1, SameCalls DEF Worker!Stages
    <2>3. Counted'
      BY <1>1, <1>2, <2>1 DEF Counted
    <2>4. Sounding'
      <3>1. CASE recording \/ worker = "drain"
        <4>1. PICK kind \in Kinds : Worker!HandleFrame(Worker!NextFrame, kind)
          BY <1>6, <3>1 DEF Worker!Frame, Worker!At
        <4>2. carried > 0
          BY <1>1, <2>1, Numbers DEF Counted
        <4> QED  BY <1>5, <2>1, <3>1, <4>1, <4>2
      <3>2. CASE ~(recording \/ worker = "drain")
        <4>1. UNCHANGED Worker!sound
          BY <1>6, <3>2 DEF Worker!Frame, Worker!At
        <4> QED  BY <1>1, <2>1, <4>1, SameSound DEF Worker!sound
      <3> QED  BY <3>1, <3>2
    <2> QED  BY <2>2, <2>3, <2>4 DEF CaptureInv
  <1>7. CASE Worker!Report
    <2>1. /\ worker \in {"feed", "hear"} /\ worker' = "obey"
          /\ fault' \in {"none", "sent", "surfaced"}
          /\ UNCHANGED <<captured, device, taken, carried, vad, out, rescue, heard, caller, begun,
                         requests, tail, sealed, inbox, recording>>
      BY <1>2, <1>7 DEF Worker!Report, Worker!At, Worker!Go, Worker!stream, Worker!feed,
                Worker!sound, Worker!calls
    <2>2. Placed' /\ Commanded' /\ Begun'
      BY <1>1, <2>1, SameCalls DEF Worker!Stages
    <2>3. Counted'
      BY <1>1, <2>1 DEF Counted
    <2>4. Sounding'
      BY <1>1, <2>1, SameSound
    <2> QED  BY <2>2, <2>3, <2>4 DEF CaptureInv
  <1>8. CASE Worker!Obeyed
    <2>1. /\ worker = "obey" /\ worker' = "hear"
          /\ UNCHANGED <<captured, device, taken, carried, vad, out, rescue, heard, caller, begun,
                         requests, tail, sealed, inbox, recording, fault>>
      BY <1>8 DEF Worker!Obeyed, Worker!At, Worker!Go, Worker!rest, Worker!stream, Worker!feed,
                Worker!sound, Worker!calls
    <2>2. Placed' /\ Commanded' /\ Begun'
      BY <1>1, <1>2, <2>1, SameCalls DEF Worker!Stages
    <2>3. Counted'
      BY <1>1, <2>1 DEF Counted
    <2>4. Sounding'
      BY <1>1, <2>1, SameSound
    <2> QED  BY <2>2, <2>3, <2>4 DEF CaptureInv
  <1>9. ASSUME NEW c \in Worker!Cmd, Worker!Takes(c)
        PROVE  /\ worker = "obey" /\ inbox # <<>> /\ Head(inbox) = c
               /\ inbox' = Tail(inbox)
               /\ inbox' \in Seq(Worker!Cmd) /\ Len(inbox) >= 1
               /\ Len(inbox') = Len(inbox) - 1
               /\ \A i \in 1..Len(inbox') : inbox'[i] = inbox[i + 1]
               /\ c # "Start" => /\ c = caller /\ Len(inbox) = 1 /\ inbox' = <<>>
                                 /\ \A i \in 1..Len(inbox) : inbox[i] = caller
    BY <1>9, Waiting DEF Worker!Takes, Worker!At
  <1>10. /\ "Start" \in Worker!Cmd /\ "Stop" \in Worker!Cmd
         /\ "Snapshot" \in Worker!Cmd /\ "Shutdown" \in Worker!Cmd
    BY DEF Worker!Cmd
  <1>11. CASE Worker!ObeyStart
    <2>1. /\ recording' = TRUE /\ vad' = Worker!Reset /\ out' = <<>> /\ rescue' = Worker!Fresh
          /\ heard' = <<>> /\ worker' = worker
          /\ UNCHANGED <<captured, device, taken, carried, caller, begun, requests, tail,
                         sealed, fault>>
          /\ Worker!Takes("Start")
      BY <1>11 DEF Worker!ObeyStart, Worker!stream, Worker!feed, Worker!calls
    <2>2. Placed'
      <3>1. inbox' \in Seq(Worker!Cmd)
        BY <1>9, <1>10, <2>1
      <3>2. recording' \in BOOLEAN
        BY <2>1
      <3> QED  BY <1>1, <2>1, <3>1, <3>2 DEF Placed
    <2>3. Commanded'
      <3>1. \A i \in 1..Len(inbox') : /\ i + 1 \in 1..Len(inbox)
                                      /\ i + 1 = Len(inbox) => i = Len(inbox')
        BY <1>1, <1>9, <1>10, <2>1 DEF Placed
      <3> QED  BY <1>1, <1>9, <1>10, <2>1, <3>1 DEF Commanded
    <2>4. Begun'
      BY <1>1, <1>9, <1>10, <2>1 DEF Begun
    <2>5. Counted'
      BY <1>1, <2>1 DEF Counted
    <2>6. Sounding'
      BY <1>1, <1>2, <1>9, <1>10, <2>1, Silenced DEF Counted
    <2> QED  BY <2>2, <2>3, <2>4, <2>5, <2>6 DEF CaptureInv
  <1>12. CASE Worker!ObeyStop
    <2>1. /\ recording' = FALSE /\ worker' = "drain"
          /\ UNCHANGED <<captured, device, taken, carried, vad, out, rescue, heard, caller, begun,
                         requests, tail, sealed, fault>>
          /\ Worker!Takes("Stop")
      BY <1>12 DEF Worker!ObeyStop, Worker!Go, Worker!stream, Worker!feed, Worker!sound,
                 Worker!calls
    <2>2. /\ worker = "obey" /\ caller = "Stop" /\ inbox' = <<>> /\ recording
      BY <1>1, <1>9, <1>10, <2>1 DEF Begun
    <2>3. Placed'
      <3>1. inbox' \in Seq(Worker!Cmd) /\ worker' \in Worker!Stages
        BY <2>1, <2>2 DEF Worker!Stages
      <3>2. recording' \in BOOLEAN
        BY <2>1
      <3> QED  BY <1>1, <2>1, <3>1, <3>2 DEF Placed
    <2>4. Commanded'
      BY <2>1, <2>2 DEF Commanded
    <2>5. Begun'
      BY <1>1, <2>1, <2>2 DEF Begun
    <2>6. Counted'
      BY <1>1, <2>1, <2>2 DEF Counted
    <2>7. Sounding'
      <3>1. Above(vad.recent, sealed)' /\ Above(out, sealed)' /\ Above(rescue.frames, sealed)'
        BY <1>1, <2>1, <2>2 DEF Sounding, Owned, Above
      <3>2. Owned'
        BY <2>1, <3>1 DEF Owned
      <3>3. VadType' = VadType
        BY <1>1 DEF VadType
      <3> QED  BY <1>1, <2>1, <3>2, <3>3 DEF Sounding
    <2> QED  BY <2>3, <2>4, <2>5, <2>6, <2>7 DEF CaptureInv
  <1>13. CASE Worker!ObeySnapshot
    <2>1. /\ caller' = "idle" /\ worker' = worker
          /\ UNCHANGED <<captured, device, taken, carried, vad, out, rescue, heard, begun,
                         requests, tail, sealed, fault, recording>>
          /\ Worker!Takes("Snapshot")
      BY <1>13 DEF Worker!ObeySnapshot, Worker!stream, Worker!feed, Worker!sound
    <2>2. /\ worker = "obey" /\ caller = "Snapshot" /\ inbox' = <<>>
          /\ \A i \in 1..Len(inbox) : inbox[i] = "Snapshot"
      BY <1>9, <1>10, <2>1
    <2>3. Placed'
      <3>1. inbox' \in Seq(Worker!Cmd)
        BY <2>2
      <3> QED  BY <1>1, <2>1, <3>1 DEF Placed
    <2>4. Commanded'
      BY <2>1, <2>2 DEF Commanded
    <2>5. Begun'
      BY <1>1, <2>1, <2>2 DEF Begun
    <2>6. Counted'
      BY <1>1, <2>1, <2>2 DEF Counted
    <2>7. Sounding'
      BY <1>1, <2>1, SameSound
    <2> QED  BY <2>3, <2>4, <2>5, <2>6, <2>7 DEF CaptureInv
  <1>14. CASE Worker!ObeyShutdown
    <2>1. /\ caller' = "idle" /\ worker' = "none" /\ recording' = FALSE /\ carried' = 0
          /\ out' = <<>> /\ rescue' = Worker!Fresh /\ heard' = <<>>
          /\ UNCHANGED <<captured, device, taken, vad, begun, requests, tail, sealed, fault>>
          /\ Worker!Takes("Shutdown")
      BY <1>14 DEF Worker!ObeyShutdown, Worker!Return, Worker!Go, Worker!stream
    <2>2. worker = "obey" /\ caller = "Shutdown" /\ inbox' = <<>>
      BY <1>9, <1>10, <2>1
    <2>3. Placed'
      <3>1. inbox' \in Seq(Worker!Cmd) /\ worker' \in Worker!Stages
        BY <2>1, <2>2 DEF Worker!Stages
      <3>2. recording' \in BOOLEAN
        BY <2>1
      <3> QED  BY <1>1, <2>1, <3>1, <3>2 DEF Placed
    <2>4. Commanded' /\ Begun'
      BY <1>1, <2>1, <2>2 DEF Commanded, Begun
    <2>5. Counted'
      BY <1>1, <2>1, <2>2 DEF Counted
    <2>6. Sounding'
      BY <1>1, <1>2, <2>1, Silenced DEF Counted
    <2> QED  BY <2>3, <2>4, <2>5, <2>6 DEF CaptureInv
  <1>15. CASE Worker!Drain
    <2>1. /\ worker = "drain" /\ worker' = worker
          /\ UNCHANGED <<captured, device, vad, out, rescue, heard, caller, begun, requests,
                         tail, sealed, inbox, fault, recording>>
          /\ taken' = taken + ChunkSize /\ carried' = carried + ChunkSize
      BY <1>15 DEF Worker!Drain, Worker!At, Worker!Receive, Worker!rest, Worker!stream,
                 Worker!calls, Worker!sound
    <2>2. Placed' /\ Commanded' /\ Begun'
      BY <1>1, <1>2, <2>1, SameCalls DEF Worker!Stages
    <2>3. Counted'
      BY <1>1, <1>2, <2>1 DEF Counted
    <2>4. Sounding'
      BY <1>1, <2>1, SameSound
    <2> QED  BY <2>2, <2>3, <2>4 DEF CaptureInv
  <1>16. CASE Worker!Finish
    <2>1. /\ worker = "drain" /\ worker' = "finish" /\ taken = captured
          /\ carried' = 0 /\ taken' = taken
          /\ UNCHANGED <<captured, device, caller, begun, requests, tail, sealed, inbox,
                         fault, recording>>
      BY <1>16 DEF Worker!Finish, Worker!At, Worker!Go, Worker!rest, Worker!stream, Worker!calls
    <2>2. Placed' /\ Commanded' /\ Begun'
      BY <1>1, <1>2, <2>1, SameCalls DEF Worker!Stages
    <2>3. Counted'
      BY <1>1, <2>1 DEF Counted
    <2>4. Sounding'
      <3>1. CASE carried > 0
        <4>1. PICK kind \in Kinds : Worker!HandleFrame(Worker!NextFrame, kind)
          BY <1>16, <3>1 DEF Worker!Finish
        <4> QED  BY <1>5, <2>1, <3>1, <4>1
      <3>2. CASE ~(carried > 0)
        <4>1. UNCHANGED Worker!sound
          BY <1>16, <3>2 DEF Worker!Finish
        <4> QED  BY <1>1, <2>1, <4>1, SameSound DEF Worker!sound
      <3> QED  BY <3>1, <3>2
    <2> QED  BY <2>2, <2>3, <2>4 DEF CaptureInv
  <1>17. CASE Worker!Finalize
    <2>1. /\ worker = "finish" /\ worker' = "obey" /\ caller' = "idle" /\ sealed' = taken
          /\ out' = <<>> /\ rescue' = Worker!Fresh /\ heard' = <<>>
          /\ UNCHANGED <<captured, device, taken, carried, vad, begun, requests, tail,
                         inbox, fault, recording>>
      BY <1>17 DEF Worker!Finalize, Worker!At, Worker!Go, Worker!stream, Worker!feed
    <2>2. inbox = <<>> /\ caller = "Stop" /\ ~begun /\ ~recording
      BY <1>1, <2>1 DEF Commanded, Begun, Sounding, Owned
    <2>3. Placed'
      BY <1>1, <2>1 DEF Placed, Worker!Stages
    <2>4. Commanded' /\ Begun'
      BY <2>1, <2>2 DEF Commanded, Begun
    <2>5. Counted'
      BY <1>1, <2>1 DEF Counted
    <2>6. Sounding'
      BY <1>1, <1>2, <2>1, <2>2, Silenced DEF Counted
    <2> QED  BY <2>3, <2>4, <2>5, <2>6 DEF CaptureInv
  <1> QED  BY <1>3, <1>4, <1>6, <1>7, <1>8, <1>11, <1>12, <1>13, <1>14, <1>15, <1>16, <1>17
           DEF Worker!Work

\* The worker's state is as the invariant says, whatever the calls and the sounds.
THEOREM CaptureInvariance == Worker!Spec => []CaptureInv
  <1>1. Worker!Init => CaptureInv
    BY InitCapture
  <1>2. CaptureInv /\ [Worker!Next]_(Worker!vars) => CaptureInv'
    <2> SUFFICES ASSUME CaptureInv, [Worker!Next]_(Worker!vars) PROVE CaptureInv'
      OBVIOUS
    <2>1. CASE Worker!Next
      BY <2>1, WorkStep, UserStep, StreamStep DEF Worker!Next
    <2>2. CASE UNCHANGED Worker!vars
      <3>1. /\ UNCHANGED <<profile, caller, inbox, worker, device, fault, recording, begun>>
            /\ UNCHANGED <<captured, taken, carried, requests, sealed, tail>>
            /\ UNCHANGED <<vad, out, rescue, heard>>
        BY <2>2 DEF Worker!vars, Worker!stream, Worker!feed, Worker!sound, Worker!calls
      <3>2. Placed' /\ Commanded' /\ Begun'
        BY <3>1, SameControl DEF CaptureInv, Settings
      <3>3. Counted'
        BY <3>1 DEF CaptureInv, Counted
      <3>4. Sounding'
        BY <3>1, SameSound DEF CaptureInv
      <3> QED  BY <3>2, <3>3, <3>4 DEF CaptureInv
    <2> QED  BY <2>1, <2>2
  <1> QED  BY <1>1, <1>2, PTL DEF Worker!Spec

LEMMA CaptureRuns == CaptureSpec => Worker!Spec
  <1>1. CaptureInit => Worker!Init
    BY DEF CaptureInit
  <1>2. [ManagerStep(Next) \/ WorkerStep(Worker!Next)]_all => [Worker!Next]_(Worker!vars)
    BY DEF ManagerStep, WorkerStep, all, capture, Worker!vars, Worker!stream,
           Worker!feed, Worker!sound, Worker!calls
  <1> QED  BY <1>1, <1>2, PTL DEF CaptureSpec, Worker!Spec

\* The variables of the worker keep their types for any bounds and profiles.
THEOREM CaptureTypes == CaptureSpec => []Worker!TypeOK
  BY TypesOf, CaptureInvariance, CaptureRuns, PTL

\* run_consumer hands over, on a stop, audio that came after the previous stop,
\* and all that had come when the stop was called.
THEOREM OwnAudioAlways == CaptureSpec => []OwnAudio
  <1>1. CaptureInv => Worker!OwnAudio
    <2> SUFFICES ASSUME CaptureInv PROVE Worker!OwnAudio
      OBVIOUS
    <2>1. /\ out \in Seq(Nat) /\ rescue.frames \in Seq(Nat)
          /\ Above(out, sealed) /\ Above(rescue.frames, sealed)
      BY DEF CaptureInv, Sounding, Owned, RescueType
    <2>2. \A f \in Worker!ToSet(out) : f > sealed
      BY <2>1 DEF Worker!ToSet, Above
    <2>3. \A f \in Worker!ToSet(rescue.frames) : f > sealed
      BY <2>1 DEF Worker!ToSet, Above
    <2>4. caller # "Stop" => tail <= sealed
      BY DEF CaptureInv, Counted
    <2> QED  BY <2>2, <2>3, <2>4 DEF Worker!OwnAudio
  <1> QED  BY <1>1, CaptureInvariance, CaptureRuns, PTL DEF OwnAudio

-----------------------------------------------------------------------------
(* A caller that waits has been heard *)

\* Its command is the last in the channel, or the stop the worker is busy with.
Answering ==
    caller # "idle" =>
        \/ worker \in {"drain", "finish"} /\ caller = "Stop"
        \/ /\ worker \notin {"none", "dead"} /\ inbox # <<>>
           /\ inbox[Len(inbox)] = caller

\* No sample is received that was not sent, and none but whole chunks.
Chunked == \E n \in Nat : captured = taken + n * ChunkSize

LEMMA ChunkTaken ==
    ASSUME CaptureInv, Chunked, Worker!Receive, captured' = captured
    PROVE  Chunked'
  <1>1. PICK n \in Nat : captured = taken + n * ChunkSize
    BY DEF Chunked
  <1>2. taken < captured /\ taken' = taken + ChunkSize /\ taken \in Nat /\ ChunkSize \in Nat
    BY Numbers DEF Worker!Receive, CaptureInv, Counted
  <1>3. n # 0
    BY <1>1, <1>2
  <1>4. PICK m \in Nat : n = m + 1
    <2>1. n - 1 \in Nat /\ n = (n - 1) + 1
      BY <1>3
    <2> QED  BY <2>1
  <1>5. (m + 1) * ChunkSize = m * ChunkSize + ChunkSize /\ m * ChunkSize \in Nat
    BY <1>2
  <1>6. captured = taken' + m * ChunkSize
    BY <1>1, <1>2, <1>4, <1>5
  <1> QED  BY <1>6 DEF Chunked

LEMMA ChunkedStep ==
    ASSUME CaptureInv, Chunked, [Worker!Next]_(Worker!vars)
    PROVE  Chunked'
  <1>1. CASE Worker!HearChunk \/ Worker!Drain
    BY <1>1, ChunkTaken DEF Worker!HearChunk, Worker!Drain, Worker!rest, Worker!stream
  <1>2. CASE UNCHANGED <<captured, taken>>
    BY <1>2 DEF Chunked
  <1>3. CASE Worker!Capture
    <2>1. captured' = captured + ChunkSize /\ taken' = taken
      BY <1>3 DEF Worker!Capture, Worker!feed
    <2>2. PICK n \in Nat : captured = taken + n * ChunkSize
      BY DEF Chunked
    <2>3. (n + 1) * ChunkSize = n * ChunkSize + ChunkSize /\ n * ChunkSize \in Nat
          /\ ChunkSize \in Nat /\ taken \in Nat
      BY Numbers DEF CaptureInv, Counted
    <2>4. captured' = taken' + (n + 1) * ChunkSize
      BY <2>1, <2>2, <2>3
    <2> QED  BY <2>4 DEF Chunked
  <1>4. CASE Worker!Open
    <2>1. captured' = captured /\ taken' = captured /\ captured \in Nat /\ ChunkSize \in Nat
      BY <1>4, Numbers DEF Worker!Open, CaptureInv, Counted
    <2>2. captured' = taken' + 0 * ChunkSize
      BY <2>1
    <2> QED  BY <2>2 DEF Chunked
  <1>5. CASE UNCHANGED Worker!vars
    BY <1>2, <1>5 DEF Worker!vars, Worker!stream, Worker!feed
  <1>6. CASE \/ Worker!Disconnected \/ Worker!Frame \/ Worker!Report \/ Worker!Obeyed
             \/ Worker!ObeyStart \/ Worker!ObeyStop \/ Worker!ObeySnapshot
             \/ Worker!ObeyShutdown \/ Worker!Finish \/ Worker!Finalize
    BY <1>2, <1>6 DEF Worker!Disconnected, Worker!Return, Worker!Frame, Worker!Report,
                      Worker!rest, Worker!Obeyed, Worker!ObeyStart, Worker!ObeyStop, Worker!ObeySnapshot,
                      Worker!ObeyShutdown, Worker!Finish, Worker!Finalize, Worker!stream,
                      Worker!feed
  <1>7. CASE \/ Worker!Start \/ Worker!Stop \/ Worker!Snapshot \/ Worker!Close
             \/ Worker!CloseDead \/ Worker!StreamFails
    BY <1>2, <1>7 DEF Worker!Start, Worker!Stop, Worker!Snapshot, Worker!Close,
                      Worker!CloseDead, Worker!StreamFails, Worker!Ask, Worker!stream,
                      Worker!feed
  <1> QED  BY <1>1, <1>3, <1>4, <1>5, <1>6, <1>7 DEF Worker!Next, Worker!Work, Worker!User

LEMMA AnsweringStep ==
    ASSUME CaptureInv, Answering, [Worker!Next]_(Worker!vars)
    PROVE  Answering'
  <1>1. /\ inbox \in Seq(Worker!Cmd) /\ Len(inbox) \in Nat
        /\ \A i \in 1..Len(inbox) : inbox[i] = "Start" \/ (i = Len(inbox) /\ inbox[i] = caller)
        /\ worker \in {"drain", "finish"} => inbox = <<>> /\ caller = "Stop"
        /\ caller \in {"idle", "Stop", "Snapshot", "Shutdown"}
    BY DEF CaptureInv, Placed, Commanded
  <1>2. CASE UNCHANGED <<caller, inbox, worker>>
    BY <1>2 DEF Answering
  <1>3. CASE caller' = "idle"
    BY <1>3 DEF Answering
  <1>4. ASSUME UNCHANGED <<caller, inbox>>, worker' \notin {"none", "dead"},
               worker \notin {"drain", "finish"}
        PROVE  Answering'
    BY <1>4 DEF Answering
  <1>5. CASE Worker!Work
    <2>1. CASE Worker!HearChunk \/ Worker!Report \/ Worker!Obeyed
      BY <1>4, <2>1 DEF Worker!HearChunk, Worker!Report, Worker!Obeyed, Worker!At, Worker!Go,
                        Worker!rest, Worker!calls
    <2>2. CASE Worker!Frame \/ Worker!Drain
      BY <1>2, <2>2 DEF Worker!Frame, Worker!Drain, Worker!rest, Worker!calls
    <2>3. CASE Worker!Disconnected \/ Worker!ObeySnapshot \/ Worker!ObeyShutdown
               \/ Worker!Finalize
      BY <1>3, <2>3 DEF Worker!Disconnected, Worker!Return, Worker!ObeySnapshot,
                        Worker!ObeyShutdown, Worker!Finalize
    <2>4. CASE Worker!Finish
      BY <1>1, <2>4 DEF Worker!Finish, Worker!At, Worker!Go, Worker!rest, Worker!calls, Answering
    <2>5. CASE Worker!ObeyStop
      <3>1. /\ worker' = "drain" /\ caller' = caller /\ inbox # <<>> /\ inbox[1] = "Stop"
            /\ 1 \in 1..Len(inbox)
        BY <1>1, <2>5 DEF Worker!ObeyStop, Worker!Takes, Worker!Go, Worker!calls
      <3>2. caller = "Stop"
        BY <1>1, <3>1
      <3> QED  BY <3>1, <3>2 DEF Answering
    <2>6. CASE Worker!ObeyStart
      <3>1. /\ worker = "obey" /\ UNCHANGED <<worker, caller>>
            /\ inbox # <<>> /\ Head(inbox) = "Start" /\ inbox' = Tail(inbox)
        BY <2>6 DEF Worker!ObeyStart, Worker!Takes, Worker!At, Worker!calls
      <3> SUFFICES ASSUME caller # "idle"
                   PROVE  inbox' # <<>> /\ inbox'[Len(inbox')] = caller
        BY <3>1 DEF Answering
      <3>2. inbox[Len(inbox)] = caller /\ inbox[1] = "Start"
        BY <1>1, <3>1 DEF Answering
      <3>3. Len(inbox) # 1 /\ Len(inbox) # 0
        BY <1>1, <3>1, <3>2
      <3>4. Len(inbox') = Len(inbox) - 1 /\ inbox'[Len(inbox) - 1] = inbox[Len(inbox)]
        BY <1>1, <3>1, <3>3
      <3>5. inbox' # <<>>
        <4>1. Len(inbox) - 1 # 0
          BY <1>1, <3>3
        <4> QED  BY <3>4, <4>1
      <3> QED  BY <3>2, <3>4, <3>5
    <2> QED  BY <1>5, <2>1, <2>2, <2>3, <2>4, <2>5, <2>6 DEF Worker!Work
  <1>6. ASSUME NEW c, Worker!Ask(c) PROVE Answering'
    <2>1. /\ worker' = worker /\ worker \notin {"none", "dead"} /\ caller' = c
          /\ inbox' = Append(inbox, c)
      BY <1>6 DEF Worker!Ask, Worker!Running
    <2>2. inbox' # <<>> /\ Len(inbox') = Len(inbox) + 1 /\ inbox'[Len(inbox) + 1] = c
      BY <1>1, <2>1
    <2> QED  BY <2>1, <2>2 DEF Answering
  <1>7. CASE Worker!User
    <2>1. CASE Worker!Open \/ Worker!Start \/ Worker!CloseDead
      BY <1>3, <2>1 DEF Worker!Open, Worker!Start, Worker!CloseDead, Worker!Asks
    <2>2. CASE Worker!Stop \/ Worker!Snapshot \/ Worker!Close
      BY <1>6, <2>2 DEF Worker!Stop, Worker!Snapshot, Worker!Close
    <2> QED  BY <1>7, <2>1, <2>2 DEF Worker!User
  <1>8. CASE Worker!Capture \/ Worker!StreamFails
    BY <1>2, <1>8 DEF Worker!Capture, Worker!StreamFails, Worker!calls
  <1>9. CASE UNCHANGED Worker!vars
    BY <1>2, <1>9 DEF Worker!vars, Worker!calls
  <1> QED  BY <1>5, <1>7, <1>8, <1>9 DEF Worker!Next

\* A worker that runs has a next step of its own, whatever the stream does: at the
\* channel of samples a chunk, the end of recv_timeout or a hang-up; with a
\* command a handler for it; a drain ends because nothing is received that was
\* not sent.
Advances ==
    \/ worker \in {"hear", "drain"} /\ taken < captured
    \/ worker = "hear" /\ taken = captured
    \/ worker = "drain" /\ (carried >= FrameSize \/ taken = captured)
    \/ worker \in {"feed", "finish"}
    \/ worker = "obey" /\ (inbox = <<>> \/ Head(inbox) \in Worker!Cmd)

\* stop, snapshot and close wait for the answer of run_consumer, and none of them in
\* vain: the command is with a worker that runs, and that goes on although the stream
\* delivers nothing, has failed or is torn down.  What CallsAnswered rests on.
THEOREM CallersHeard ==
    CaptureSpec => [](Answering /\ (worker \notin {"none", "dead"} => Advances))
  <1>1. Worker!Init => Answering /\ Chunked
    <2> SUFFICES ASSUME Worker!Init PROVE Answering /\ Chunked
      OBVIOUS
    <2>1. captured = 0 /\ taken = 0 /\ ChunkSize \in Nat /\ caller = "idle"
      BY Numbers DEF Worker!Init
    <2>2. captured = taken + 0 * ChunkSize
      BY <2>1
    <2> QED  BY <2>1, <2>2 DEF Answering, Chunked
  <1>2. CaptureInv /\ Answering /\ Chunked /\ [Worker!Next]_(Worker!vars)
            => Answering' /\ Chunked'
    BY AnsweringStep, ChunkedStep
  <1>3. CaptureInv /\ Chunked => (worker \notin {"none", "dead"} => Advances)
    <2> SUFFICES ASSUME CaptureInv, Chunked, worker \notin {"none", "dead"} PROVE Advances
      OBVIOUS
    <2>1. taken <= captured /\ taken \in Nat /\ captured \in Nat
      <3>1. PICK n \in Nat : captured = taken + n * ChunkSize
        BY DEF Chunked
      <3>2. n * ChunkSize \in Nat /\ taken \in Nat
        BY Numbers DEF CaptureInv, Counted
      <3> QED  BY <3>1, <3>2
    <2>2. taken < captured \/ taken = captured
      BY <2>1
    <2>3. inbox # <<>> => Head(inbox) \in Worker!Cmd
      BY DEF CaptureInv, Placed
    <2> QED  BY <2>2, <2>3 DEF Advances, CaptureInv, Placed, Worker!Stages
  <1> QED  BY <1>1, <1>2, <1>3, CaptureInvariance, CaptureRuns, PTL DEF Worker!Spec

-----------------------------------------------------------------------------
(* What the worker hands over is what the reference of Recorder asks for:  *)
(* the counters of SmoothedVad decide, one frame at a time, what InSpeech  *)
(* and Opens say of the whole recording, and the rescue buffer keeps what  *)
(* Rescues asks for.  h is a recording and g the same with one frame more. *)

Frames == [frame : Nat, kind : Worker!AllKinds]

ProfileType == [prefill : Nat, hangover : Nat, onset : Nat \ {0}]

\* g is h with one more frame.
Longer(h, g) ==
    /\ h \in Seq(Frames) /\ g \in Seq(Frames) /\ Len(g) = Len(h) + 1
    /\ \A i \in 1..Len(h) : g[i] = h[i]

LEMMA Grows ==
    ASSUME NEW h \in Seq(Frames), NEW x \in Frames
    PROVE  Longer(h, Append(h, x)) /\ Append(h, x)[Len(h) + 1] = x
  BY DEF Longer

\* What was is not changed by the frames that follow.
LEMMA Past ==
    ASSUME NEW h, NEW g, Longer(h, g), NEW a \in Nat \ {0}, NEW i \in 0..Len(h)
    PROVE  /\ Worker!Judged(g, a, i) = Worker!Judged(h, a, i)
           /\ Worker!Voice(g, a, i) = Worker!Voice(h, a, i)
           /\ i # 0 => (Worker!Complete(g, i) <=> Worker!Complete(h, i))
           /\ Worker!Lasts(g, a, i) <=> Worker!Lasts(h, a, i)
           /\ Worker!InSpeech(g, i) <=> Worker!InSpeech(h, i)
           /\ i # 0 => (Worker!Opens(g, i) <=> Worker!Opens(h, i))
  <1>1. \A b \in Nat \ {0}, j \in 0..Len(h) :
            /\ Worker!Judged(g, b, j) = Worker!Judged(h, b, j)
            /\ Worker!Voice(g, b, j) = Worker!Voice(h, b, j)
    <2> SUFFICES ASSUME NEW b \in Nat \ {0}, NEW j \in 0..Len(h)
                 PROVE  /\ Worker!Judged(g, b, j) = Worker!Judged(h, b, j)
                        /\ Worker!Voice(g, b, j) = Worker!Voice(h, b, j)
      OBVIOUS
    <2>1. \A m \in b..j : g[m] = h[m]
      BY DEF Longer
    <2> QED  BY <2>1 DEF Worker!Judged, Worker!Voice
  <1>2. \A j \in 1..Len(h) : Worker!Complete(g, j) <=> Worker!Complete(h, j)
    <2> SUFFICES ASSUME NEW j \in 1..Len(h) PROVE Worker!Complete(g, j) <=> Worker!Complete(h, j)
      OBVIOUS
    <2>1. g[j] = h[j] /\ Len(h) \in Nat
      BY DEF Longer
    <2>2. \A b \in 1..j : /\ Worker!Judged(g, b, j) = Worker!Judged(h, b, j)
                         /\ Worker!Voice(g, b, j) = Worker!Voice(h, b, j)
      BY <1>1, <2>1
    <2> QED  BY <2>1, <2>2 DEF Worker!Complete
  <1>3. \A b \in Nat \ {0}, j \in 0..Len(h) : Worker!Lasts(g, b, j) <=> Worker!Lasts(h, b, j)
    <2> SUFFICES ASSUME NEW b \in Nat \ {0}, NEW j \in 0..Len(h)
                 PROVE  Worker!Lasts(g, b, j) <=> Worker!Lasts(h, b, j)
      OBVIOUS
    <2>1. \A m \in b..j : m \in 0..Len(h)
      OBVIOUS
    <2>2. \A m \in b..j : Worker!Voice(g, b, m) = Worker!Voice(h, b, m)
      BY <1>1, <2>1
    <2>3. \A m \in b..j : \A q \in Worker!Voice(h, b, m) :
              Worker!Judged(g, q + 1, m) = Worker!Judged(h, q + 1, m)
      BY <1>1, <2>1 DEF Worker!Voice
    <2> QED  BY <2>2, <2>3 DEF Worker!Lasts
  <1>4. \A j \in 0..Len(h) : Worker!InSpeech(g, j) <=> Worker!InSpeech(h, j)
    BY <1>2, <1>3 DEF Worker!InSpeech, Longer
  <1>5. \A j \in 1..Len(h) : Worker!Opens(g, j) <=> Worker!Opens(h, j)
    <2>1. \A j \in 1..Len(h) : j - 1 \in 0..Len(h)
      BY DEF Longer
    <2> QED  BY <1>2, <1>4, <2>1 DEF Worker!Opens
  <1>6. Len(h) \in Nat
    BY DEF Longer
  <1> QED  BY <1>1, <1>2, <1>3, <1>4, <1>5, <1>6

\* One frame more is one more to be counted or none.
LEMMA Counting ==
    ASSUME NEW h, NEW g, Longer(h, g), NEW a \in 1..Len(g)
    PROVE  /\ Worker!Judged(g, a, Len(g)) = Worker!Judged(h, a, Len(h)) \cup
                  (IF g[Len(g)].kind # "error" THEN {Len(g)} ELSE {})
           /\ Worker!Voice(g, a, Len(g)) = Worker!Voice(h, a, Len(h)) \cup
                  (IF g[Len(g)].kind \in Worker!Voiced THEN {Len(g)} ELSE {})
           /\ Cardinality(Worker!Judged(h, a, Len(h))) \in Nat
           /\ Cardinality(Worker!Voice(h, a, Len(h))) \in Nat
           /\ Cardinality(Worker!Judged(g, a, Len(g))) = Cardinality(Worker!Judged(h, a, Len(h))) +
                  (IF g[Len(g)].kind # "error" THEN 1 ELSE 0)
           /\ Cardinality(Worker!Voice(g, a, Len(g))) = Cardinality(Worker!Voice(h, a, Len(h))) +
                  (IF g[Len(g)].kind \in Worker!Voiced THEN 1 ELSE 0)
  <1> DEFINE n == Len(h)
  <1>1. n \in Nat /\ Len(g) = n + 1 /\ a \in 1..(n + 1) /\ \A i \in 1..n : g[i] = h[i]
    BY DEF Longer
  <1> HIDE DEF n
  <1>2. a..(n + 1) = (a..n) \cup {n + 1} /\ n + 1 \notin a..n /\ \A i \in a..n : g[i] = h[i]
    BY <1>1
  <1>3. /\ Worker!Judged(g, a, n + 1) = Worker!Judged(h, a, n) \cup
               (IF g[n + 1].kind # "error" THEN {n + 1} ELSE {})
        /\ Worker!Voice(g, a, n + 1) = Worker!Voice(h, a, n) \cup
               (IF g[n + 1].kind \in Worker!Voiced THEN {n + 1} ELSE {})
    BY <1>2 DEF Worker!Judged, Worker!Voice
  <1>4. /\ IsFiniteSet(Worker!Judged(h, a, n)) /\ IsFiniteSet(Worker!Voice(h, a, n))
        /\ n + 1 \notin Worker!Judged(h, a, n) /\ n + 1 \notin Worker!Voice(h, a, n)
    <2>1. IsFiniteSet(a..n)
      <3>1. a \in Int /\ n \in Int
        BY <1>1
      <3> QED  BY ONLY <3>1, FS_Interval
    <2>2. Worker!Judged(h, a, n) \subseteq a..n /\ Worker!Voice(h, a, n) \subseteq a..n
      BY DEF Worker!Judged, Worker!Voice
    <2> QED  BY <1>2, <2>1, <2>2, FS_Subset
  <1>5. /\ Cardinality(Worker!Judged(h, a, n)) \in Nat /\ Cardinality(Worker!Voice(h, a, n)) \in Nat
        /\ Cardinality(Worker!Judged(h, a, n) \cup {n + 1}) = Cardinality(Worker!Judged(h, a, n)) + 1
        /\ Cardinality(Worker!Voice(h, a, n) \cup {n + 1}) = Cardinality(Worker!Voice(h, a, n)) + 1
    BY <1>4, FS_AddElement, FS_CardinalityType
  <1>6. Cardinality(Worker!Judged(g, a, n + 1)) = Cardinality(Worker!Judged(h, a, n)) +
            (IF g[n + 1].kind # "error" THEN 1 ELSE 0)
    <2>1. CASE g[n + 1].kind # "error"
      BY <1>3, <1>5, <2>1
    <2>2. CASE g[n + 1].kind = "error"
      <3>1. Worker!Judged(g, a, n + 1) = Worker!Judged(h, a, n)
        BY <1>3, <2>2
      <3> QED  BY <1>5, <2>2, <3>1
    <2> QED  BY <2>1, <2>2
  <1>7. Cardinality(Worker!Voice(g, a, n + 1)) = Cardinality(Worker!Voice(h, a, n)) +
            (IF g[n + 1].kind \in Worker!Voiced THEN 1 ELSE 0)
    <2>1. CASE g[n + 1].kind \in Worker!Voiced
      BY <1>3, <1>5, <2>1
    <2>2. CASE g[n + 1].kind \notin Worker!Voiced
      <3>1. Worker!Voice(g, a, n + 1) = Worker!Voice(h, a, n)
        BY <1>3, <2>2
      <3> QED  BY <1>5, <2>2, <3>1
    <2> QED  BY <2>1, <2>2
  <1>8. Len(g) = n + 1 /\ Len(h) = n
    BY <1>1 DEF n
  <1> QED  BY ONLY <1>3, <1>5, <1>6, <1>7, <1>8

Close(g, k, i) ==
    \E j \in Worker!Voice(g, k, i) : Cardinality(Worker!Judged(g, j + 1, i)) <= profile.hangover

LEMMA SameCardinality ==
    ASSUME NEW S
    PROVE  Worker!Cardinality(S) = Cardinality(S)
  BY DEF Worker!Cardinality, Cardinality

LEMMA Lasting ==
    ASSUME NEW h, NEW k, NEW i
    PROVE  Worker!Lasts(h, k, i) <=> \A m \in k..i : Close(h, k, m)
  BY SameCardinality DEF Worker!Lasts, Close

\* Speech at one frame more: it opens there, or it lasted and voice is close.
LEMMA Onward ==
    ASSUME NEW h, NEW g, Longer(h, g), profile.hangover \in Nat
    PROVE  Worker!InSpeech(g, Len(g)) <=>
               \/ Worker!Complete(g, Len(g))
               \/ \E k \in 1..Len(h) : /\ Worker!Complete(h, k) /\ Worker!Lasts(h, k, Len(h))
                                      /\ Close(g, k, Len(g))
  <1> DEFINE n == Len(h)
  <1>1. n \in Nat /\ Len(g) = n + 1
    BY DEF Longer
  <1>2. \A k \in 1..n : Worker!Lasts(g, k, n + 1) <=> Worker!Lasts(h, k, n) /\ Close(g, k, n + 1)
    <2> SUFFICES ASSUME NEW k \in 1..n
                 PROVE  Worker!Lasts(g, k, n + 1) <=> Worker!Lasts(h, k, n) /\ Close(g, k, n + 1)
      OBVIOUS
    <2>1. Worker!Lasts(g, k, n) <=> Worker!Lasts(h, k, n)
      BY <1>1, Past
    <2>2. k..(n + 1) = (k..n) \cup {n + 1}
      BY <1>1
    <2> HIDE DEF n
    <2>3. Worker!Lasts(g, k, n + 1) <=> Worker!Lasts(g, k, n) /\ Close(g, k, n + 1)
      BY <2>2, Lasting
    <2> QED  BY <2>1, <2>3 DEF n
  <1>3. Worker!Complete(g, n + 1) => Worker!Lasts(g, n + 1, n + 1)
    <2> SUFFICES ASSUME Worker!Complete(g, n + 1) PROVE Worker!Lasts(g, n + 1, n + 1)
      OBVIOUS
    <2>1. n + 1 \in Worker!Voice(g, n + 1, n + 1)
      BY <1>1 DEF Worker!Complete, Worker!Voice
    <2>2. Worker!Judged(g, n + 1 + 1, n + 1) = {}
      BY <1>1 DEF Worker!Judged
    <2>3. Cardinality({}) = 0
      BY FS_EmptySet
    <2>4. \A m \in (n + 1)..(n + 1) : m = n + 1
      BY <1>1
    <2> HIDE DEF n
    <2>5. profile.hangover >= 0
      OBVIOUS
    <2>6. Close(g, n + 1, n + 1)
      BY <2>1, <2>2, <2>3, <2>5 DEF Close
    <2> QED  BY <2>4, <2>6, Lasting
  <1>4. \A k \in 1..n : Worker!Complete(g, k) <=> Worker!Complete(h, k)
    BY <1>1, Past
  <1>5. 1..(n + 1) = (1..n) \cup {n + 1}
    BY <1>1
  <1> HIDE DEF n
  <1>6. Worker!InSpeech(g, n + 1) <=>
            \/ Worker!Complete(g, n + 1)
            \/ \E k \in 1..n : Worker!Complete(h, k) /\ Worker!Lasts(h, k, n) /\ Close(g, k, n + 1)
    BY <1>2, <1>3, <1>4, <1>5 DEF Worker!InSpeech
  <1> QED  BY <1>1, <1>6 DEF n

\* Without speech the counter of voice counts from the last frame without;
\* in it the hangover is what is left since the last voice.
Counts(h, v, a) ==
    /\ Worker!Judged(h, a, Len(h)) = Worker!Voice(h, a, Len(h))
    /\ Cardinality(Worker!Voice(h, a, Len(h))) = v.onset
    /\ a = 1 \/ h[a - 1].kind \notin Worker!Voiced \cup {"error"}

Lingers(h, v, j) ==
    /\ j \in Worker!Voice(h, 1, Len(h)) /\ Worker!Voice(h, j + 1, Len(h)) = {}
    /\ Cardinality(Worker!Judged(h, j + 1, Len(h))) + v.hangover = profile.hangover

\* A frame of voice is the last voice, and any other that was judged ends it.
LEMMA Newest ==
    ASSUME NEW g \in Seq(Frames), Len(g) # 0, NEW v
    PROVE  /\ Len(g) \in 1..Len(g) /\ Len(g) + 1 \in 1..(Len(g) + 1)
           /\ v.hangover = profile.hangover /\ profile.hangover \in Nat
              /\ g[Len(g)].kind \in Worker!Voiced => Lingers(g, v, Len(g))
           /\ v.onset = 0 /\ g[Len(g)].kind \notin Worker!Voiced \cup {"error"}
              => Counts(g, v, Len(g) + 1)
           /\ Cardinality(Worker!Judged(g, Len(g) + 1, Len(g))) = 0
  <1> DEFINE n == Len(g)
  <1>1. n \in Nat \ {0} /\ n + 1 - 1 = n /\ n \in 1..n /\ n + 1 \in 1..(n + 1)
    OBVIOUS
  <1> HIDE DEF n
  <1>2. Worker!Voice(g, n + 1, n) = {} /\ Worker!Judged(g, n + 1, n) = {}
    BY <1>1 DEF Worker!Voice, Worker!Judged
  <1>3. Cardinality(Worker!Voice(g, n + 1, n)) = 0 /\ Cardinality(Worker!Judged(g, n + 1, n)) = 0
    BY <1>2, FS_EmptySet
  <1>4. ASSUME v.hangover = profile.hangover, profile.hangover \in Nat, g[n].kind \in Worker!Voiced
        PROVE  Lingers(g, v, n)
    <2>1. n \in Worker!Voice(g, 1, n)
      BY <1>1, <1>4 DEF Worker!Voice
    <2>2. Cardinality(Worker!Judged(g, n + 1, n)) + v.hangover = profile.hangover
      BY <1>3, <1>4
    <2> QED  BY <1>2, <2>1, <2>2 DEF Lingers, n
  <1>5. ASSUME v.onset = 0, g[n].kind \notin Worker!Voiced \cup {"error"}
        PROVE  Counts(g, v, n + 1)
    <2>1. g[n + 1 - 1].kind \notin Worker!Voiced \cup {"error"}
      BY <1>1, <1>5
    <2>2. /\ Worker!Judged(g, n + 1, n) = Worker!Voice(g, n + 1, n)
          /\ Cardinality(Worker!Voice(g, n + 1, n)) = v.onset
      BY <1>2, <1>3, <1>5
    <2> USE DEF n
    <2> QED  BY ONLY <2>1, <2>2 DEF Counts
  <1> QED  BY <1>1, <1>3, <1>4, <1>5 DEF n

Steady(h, v) ==
    /\ v.speech <=> Worker!InSpeech(h, Len(h))
    /\ ~v.speech => v.onset < profile.onset /\ \E a \in 1..(Len(h) + 1) : Counts(h, v, a)
    /\ v.speech => v.onset = 0 /\ \E j \in 1..Len(h) : Lingers(h, v, j)

\* An onset is complete when the counter says so.
LEMMA Onsets ==
    ASSUME profile \in ProfileType, NEW h, NEW g, Longer(h, g), NEW v \in VadType,
           NEW a \in 1..(Len(h) + 1), Counts(h, v, a), g[Len(g)].kind \in Worker!Voiced
    PROVE  /\ Worker!Complete(g, Len(g)) <=> v.onset + 1 >= profile.onset
           /\ Worker!Judged(g, a, Len(g)) = Worker!Voice(g, a, Len(g))
           /\ Cardinality(Worker!Voice(g, a, Len(g))) = v.onset + 1
  <1> DEFINE n == Len(g)
  <1>0. n \in Nat \ {0} /\ n = Len(h) + 1 /\ a \in 1..n /\ Len(h) \in Nat /\ g \in Seq(Frames)
    BY DEF Longer
  <1>1. g[n].kind # "error"
    BY DEF Worker!Voiced
  <1>2. /\ Worker!Judged(g, a, n) = Worker!Voice(g, a, n)
        /\ Cardinality(Worker!Voice(g, a, n)) = v.onset + 1
    <2>1. /\ Worker!Judged(g, a, n) = Worker!Judged(h, a, Len(h)) \cup {n}
          /\ Worker!Voice(g, a, n) = Worker!Voice(h, a, Len(h)) \cup {n}
          /\ Cardinality(Worker!Voice(g, a, n)) = Cardinality(Worker!Voice(h, a, Len(h))) + 1
      BY <1>0, <1>1, Counting
    <2> HIDE DEF n
    <2> QED  BY <2>1 DEF Counts
  <1>3. v.onset \in Nat /\ profile.onset \in Nat
    BY DEF VadType, ProfileType
  <1>4. ASSUME NEW b \in 1..n, Worker!Judged(g, b, n) = Worker!Voice(g, b, n)
        PROVE  Cardinality(Worker!Voice(g, b, n)) <= v.onset + 1
    <2>1. b >= a
      <3> SUFFICES ASSUME b < a PROVE FALSE
        BY <1>0
      <3>1. a - 1 \in b..n /\ a - 1 \in 1..Len(h) /\ a # 1
        BY <1>0
      <3>2. g[a - 1] = h[a - 1]
        BY <3>1 DEF Longer
      <3>3. a - 1 \in Worker!Judged(g, b, n) /\ a - 1 \notin Worker!Voice(g, b, n)
        BY <3>1, <3>2 DEF Counts, Worker!Judged, Worker!Voice
      <3> QED  BY <1>4, <3>3
    <2>2. Worker!Voice(g, b, n) \subseteq Worker!Voice(g, a, n)
      BY <1>0, <2>1 DEF Worker!Voice
    <2>3. IsFiniteSet(Worker!Voice(g, a, n))
      <3>1. IsFiniteSet(a..n)
        BY <1>0, FS_Interval
      <3> QED  BY <3>1, FS_Subset DEF Worker!Voice
    <2> QED  BY <1>2, <1>3, <2>2, <2>3, FS_Subset
  <1>5. \A b \in 1..n : Cardinality(Worker!Voice(g, b, n)) \in Nat
    <2> TAKE b \in 1..n
    <2>1. IsFiniteSet(b..n)
      BY <1>0, FS_Interval
    <2>2. Worker!Voice(g, b, n) \subseteq b..n
      BY DEF Worker!Voice
    <2>3. IsFiniteSet(Worker!Voice(g, b, n))
      BY <2>1, <2>2, FS_Subset
    <2> QED  BY <2>3, FS_CardinalityType
  <1> HIDE DEF n
  <1>6. Worker!Complete(g, n) <=> v.onset + 1 >= profile.onset
    <2>1. g[n].kind \in Worker!Voiced
      BY DEF n
    <2>2. ASSUME v.onset + 1 >= profile.onset PROVE Worker!Complete(g, n)
      BY <1>0, <1>2, <2>1, <2>2, SameCardinality DEF Worker!Complete
    <2>3. ASSUME Worker!Complete(g, n) PROVE v.onset + 1 >= profile.onset
      <3>1. PICK b \in 1..n : /\ Worker!Judged(g, b, n) = Worker!Voice(g, b, n)
                              /\ Cardinality(Worker!Voice(g, b, n)) >= profile.onset
        BY <2>3, SameCardinality DEF Worker!Complete
      <3> QED  BY <1>3, <1>4, <1>5, <3>1
    <2> QED  BY <2>2, <2>3
  <1> QED  BY <1>2, <1>6 DEF n


\* The detector says what the reference says, and counts on.
LEMMA Deciding ==
    ASSUME profile \in ProfileType, NEW h, NEW g, Longer(h, g), vad \in VadType,
           Steady(h, vad), NEW f, NEW kind \in Worker!AllKinds, g[Len(g)].kind = kind
    PROVE  /\ Steady(g, Worker!Smoothed(f, kind))
           /\ Worker!Opens(g, Len(g)) <=> Worker!Begins(kind)
           /\ kind # "error" =>
                  (Worker!InSpeech(g, Len(g)) <=> Worker!Begins(kind) \/ Worker!GoesOn(kind))
  <1> DEFINE n == Len(h)
             v == Worker!Smoothed(f, kind)
             Spoken == \E k \in 1..n : /\ Worker!Complete(h, k) /\ Worker!Lasts(h, k, n)
                                       /\ Close(g, k, n + 1)
  <1>1. n \in Nat /\ Len(g) = n + 1 /\ 1..(n + 1) = (1..n) \cup {n + 1}
        /\ n + 1 \in 1..Len(g) /\ g \in Seq(Frames) /\ Len(g) # 0 /\ (\A i \in 1..n : g[i] = h[i])
    BY DEF Longer
  <1>2. /\ profile.hangover \in Nat /\ profile.onset \in Nat /\ profile.onset > 0
        /\ vad.hangover \in Nat /\ vad.onset \in Nat /\ vad.speech \in BOOLEAN
    BY DEF VadType, ProfileType
  <1>3. Worker!InSpeech(g, n + 1) <=> Worker!Complete(g, n + 1) \/ Spoken
    BY <1>1, <1>2, Onward
  <1>4. Worker!Opens(g, n + 1) <=> Worker!Complete(g, n + 1) /\ ~vad.speech
    <2>1. Worker!InSpeech(g, n) <=> Worker!InSpeech(h, n)
      BY <1>1, Past
    <2>2. n + 1 - 1 = n
      BY <1>1
    <2> QED  BY <2>1, <2>2 DEF Worker!Opens, Steady
  <1>5. Spoken => vad.speech
    BY DEF Worker!InSpeech, Steady
  <1>6. kind \notin Worker!Voiced => ~Worker!Complete(g, n + 1)
    BY <1>1 DEF Worker!Complete
  <1>7. \A a \in 1..(n + 1) :
            /\ Worker!Judged(g, a, n + 1) =
                   Worker!Judged(h, a, n) \cup (IF kind # "error" THEN {n + 1} ELSE {})
            /\ Worker!Voice(g, a, n + 1) =
                   Worker!Voice(h, a, n) \cup (IF kind \in Worker!Voiced THEN {n + 1} ELSE {})
            /\ Cardinality(Worker!Judged(h, a, n)) \in Nat
            /\ Cardinality(Worker!Judged(g, a, n + 1)) =
                   Cardinality(Worker!Judged(h, a, n)) + (IF kind # "error" THEN 1 ELSE 0)
            /\ Cardinality(Worker!Voice(g, a, n + 1)) =
                   Cardinality(Worker!Voice(h, a, n)) + (IF kind \in Worker!Voiced THEN 1 ELSE 0)
    <2> TAKE a \in 1..(n + 1)
    <2>1. a \in 1..Len(g)
      BY <1>1
    <2>2. /\ Worker!Judged(g, a, Len(g)) =
                 Worker!Judged(h, a, Len(h)) \cup
                     (IF g[Len(g)].kind # "error" THEN {Len(g)} ELSE {})
          /\ Worker!Voice(g, a, Len(g)) =
                 Worker!Voice(h, a, Len(h)) \cup
                     (IF g[Len(g)].kind \in Worker!Voiced THEN {Len(g)} ELSE {})
          /\ Cardinality(Worker!Judged(h, a, Len(h))) \in Nat
      BY <2>1, Counting
    <2>3. /\ Cardinality(Worker!Judged(g, a, Len(g))) = Cardinality(Worker!Judged(h, a, Len(h))) +
                  (IF g[Len(g)].kind # "error" THEN 1 ELSE 0)
          /\ Cardinality(Worker!Voice(g, a, Len(g))) = Cardinality(Worker!Voice(h, a, Len(h))) +
                  (IF g[Len(g)].kind \in Worker!Voiced THEN 1 ELSE 0)
      BY <2>1, Counting
    <2>4. Len(g) = n + 1 /\ Len(h) = n /\ g[Len(g)].kind = kind
      BY <1>1
    <2> QED  BY ONLY <2>2, <2>3, <2>4
  <1>8. "error" \notin Worker!Voiced
    BY DEF Worker!Voiced
  <1> HIDE DEF Spoken
  <1>9. CASE ~vad.speech
    <2>1. PICK a \in 1..(n + 1) : Counts(h, vad, a)
      BY <1>9 DEF Steady
    <2>2. vad.onset < profile.onset
      BY <1>9 DEF Steady
    <2>3. Worker!InSpeech(g, n + 1) <=> Worker!Complete(g, n + 1)
      BY <1>3, <1>5, <1>9
    <2>4. CASE kind \in Worker!Voiced
      <3>1. /\ Worker!Complete(g, n + 1) <=> vad.onset + 1 >= profile.onset
            /\ Worker!Judged(g, a, n + 1) = Worker!Voice(g, a, n + 1)
            /\ Cardinality(Worker!Voice(g, a, n + 1)) = vad.onset + 1
        BY <1>1, <2>1, <2>4, Onsets
      <3>2. Worker!Begins(kind) <=> vad.onset + 1 >= profile.onset
        BY <1>9, <2>4 DEF Worker!Begins
      <3>3. ~Worker!GoesOn(kind) /\ kind # "error"
        BY <1>8, <1>9, <2>4 DEF Worker!GoesOn
      <3>4. CASE Worker!Begins(kind)
        <4>1. v.speech /\ v.onset = 0 /\ v.hangover = profile.hangover
          BY <1>9, <2>4, <3>3, <3>4 DEF Worker!Smoothed
        <4>2. Lingers(g, v, Len(g)) /\ Len(g) \in 1..Len(g)
          <5> HIDE DEF v, n
          <5> QED  BY <1>1, <1>2, <2>4, <4>1, Newest
        <4> HIDE DEF v, n
        <4>3. Steady(g, v)
          BY <1>1, <2>3, <3>1, <3>2, <3>4, <4>1, <4>2 DEF Steady
        <4>4. n + 1 = Len(g) /\ v = Worker!Smoothed(f, kind)
          BY <1>1 DEF v
        <4>5. Worker!Opens(g, n + 1) /\ Worker!InSpeech(g, n + 1)
          BY <1>4, <1>9, <2>3, <3>1, <3>2, <3>4
        <4> QED  BY <3>4, <4>3, <4>4, <4>5
      <3>5. CASE ~Worker!Begins(kind)
        <4>1. ~v.speech /\ v.onset = vad.onset + 1
          BY <1>9, <2>4, <3>3, <3>5 DEF Worker!Smoothed
        <4>2. Counts(g, v, a) /\ a \in 1..(n + 1 + 1)
          <5>1. a = 1 \/ g[a - 1] = h[a - 1]
            BY <1>1
          <5> HIDE DEF v, n
          <5> QED  BY <1>1, <2>1, <3>1, <4>1, <5>1 DEF Counts
        <4> HIDE DEF v, n
        <4>3. Steady(g, v)
          BY <1>1, <1>2, <2>3, <3>1, <3>2, <3>5, <4>1, <4>2 DEF Steady
        <4> QED  BY <1>1, <1>4, <1>9, <2>3, <3>1, <3>2, <3>3, <4>3 DEF n, v
      <3> QED  BY <3>4, <3>5
    <2>5. CASE kind \notin Worker!Voiced
      <3>1. ~Worker!Begins(kind) /\ ~Worker!GoesOn(kind) /\ ~Worker!Complete(g, n + 1)
        BY <1>6, <1>9, <2>5 DEF Worker!Begins, Worker!GoesOn
      <3>2. CASE kind = "error"
        <4>1. v.speech = vad.speech /\ v.onset = vad.onset
          BY <3>2 DEF Worker!Smoothed, VadType
        <4>2. Counts(g, v, a) /\ a \in 1..(n + 1 + 1)
          <5>1. a = 1 \/ g[a - 1] = h[a - 1]
            BY <1>1
          <5>2. /\ Worker!Judged(g, a, n + 1) = Worker!Judged(h, a, n)
                /\ Worker!Voice(g, a, n + 1) = Worker!Voice(h, a, n)
            BY <1>7, <1>8, <3>2
          <5> HIDE DEF v
          <5> QED  BY <1>1, <2>1, <4>1, <5>1, <5>2 DEF Counts
        <4> HIDE DEF v, n
        <4>3. Steady(g, v)
          BY <1>1, <1>2, <1>9, <2>2, <2>3, <3>1, <4>1, <4>2 DEF Steady
        <4> QED  BY <1>1, <1>4, <3>1, <3>2, <4>3 DEF n, v
      <3>3. CASE kind # "error"
        <4>1. ~v.speech /\ v.onset = 0
          BY <1>9, <2>5, <3>1, <3>3 DEF Worker!Smoothed
        <4>2. Counts(g, v, Len(g) + 1) /\ Len(g) + 1 \in 1..(Len(g) + 1)
          <5> HIDE DEF v, n
          <5> QED  BY <1>1, <2>5, <3>3, <4>1, Newest
        <4> HIDE DEF v, n
        <4>3. Steady(g, v)
          BY <1>1, <1>2, <2>3, <3>1, <4>1, <4>2 DEF Steady
        <4> QED  BY <1>1, <1>4, <2>3, <3>1, <4>3 DEF n, v
      <3> QED  BY <3>2, <3>3
    <2> QED  BY <2>4, <2>5
  <1>10. CASE vad.speech
    <2>1. PICK j \in 1..n : Lingers(h, vad, j)
      BY <1>10 DEF Steady
    <2>2. PICK k \in 1..n : Worker!Complete(h, k) /\ Worker!Lasts(h, k, n)
      BY <1>10 DEF Steady, Worker!InSpeech
    <2>3. vad.onset = 0 /\ ~Worker!Begins(kind)
      BY <1>10 DEF Steady, Worker!Begins
    <2>4. ~Worker!Opens(g, n + 1)
      BY <1>4, <1>10
    <2>5. CASE kind \in Worker!Voiced
      <3>1. v.speech /\ v.onset = 0 /\ v.hangover = profile.hangover /\ Worker!GoesOn(kind)
            /\ kind # "error"
        BY <1>8, <1>10, <2>3, <2>5 DEF Worker!Smoothed, Worker!GoesOn
      <3>2. n + 1 \in Worker!Voice(g, 1, n + 1) /\ n + 1 \in Worker!Voice(g, k, n + 1)
        BY <1>1, <2>5 DEF Worker!Voice
      <3>3. Cardinality(Worker!Judged(g, n + 1 + 1, n + 1)) = 0
        <4>1. Cardinality(Worker!Judged(g, Len(g) + 1, Len(g))) = 0
          BY <1>1, Newest
        <4> QED  BY <1>1, <4>1
      <3>4. Worker!InSpeech(g, n + 1)
        <4>1. Close(g, k, n + 1)
          <5>1. Cardinality(Worker!Judged(g, n + 1 + 1, n + 1)) <= profile.hangover
            BY <1>2, <3>3
          <5> QED  BY <3>2, <5>1 DEF Close
        <4> QED  BY <1>3, <2>2, <4>1 DEF Spoken
      <3> HIDE DEF v, n
      <3>5. Lingers(g, v, Len(g)) /\ Len(g) \in 1..Len(g)
        BY <1>1, <1>2, <2>5, <3>1, Newest
      <3>6. Steady(g, v)
        BY <1>1, <3>1, <3>4, <3>5 DEF Steady
      <3> QED  BY <1>1, <2>3, <2>4, <3>1, <3>4, <3>6 DEF n, v
    <2>6. CASE kind \notin Worker!Voiced
      <3>0. j + 1 \in 1..(n + 1) /\ j \in 1..(n + 1)
        BY <1>1
      <3>1. /\ j \in Worker!Voice(g, 1, n + 1) /\ Worker!Voice(g, j + 1, n + 1) = {}
            /\ Cardinality(Worker!Judged(h, j + 1, n)) \in Nat
            /\ Cardinality(Worker!Judged(h, j + 1, n)) + vad.hangover = profile.hangover
            /\ Cardinality(Worker!Judged(g, j + 1, n + 1)) =
                   Cardinality(Worker!Judged(h, j + 1, n)) + (IF kind # "error" THEN 1 ELSE 0)
        <4>1. 1 \in 1..(n + 1)
          BY <1>1
        <4> HIDE DEF n
        <4> QED  BY <1>7, <2>1, <2>6, <3>0, <4>1 DEF Lingers, n
      <3>2. j >= k
        <4>1. k \in Worker!Voice(h, 1, n)
          BY <1>1, <2>2 DEF Worker!Complete, Worker!Voice
        <4>2. k \notin Worker!Voice(h, j + 1, n)
          BY <2>1 DEF Lingers
        <4> QED  BY <1>1, <4>1, <4>2 DEF Worker!Voice
      <3>3. CASE kind = "error" \/ vad.hangover > 0
        <4>1. v.speech /\ v.onset = 0
              /\ Cardinality(Worker!Judged(g, j + 1, n + 1)) + v.hangover = profile.hangover
              /\ (kind # "error" => Worker!GoesOn(kind)) /\ v.hangover \in Nat
          <5>1. CASE kind = "error"
            <6>1. v.speech = vad.speech /\ v.onset = vad.onset /\ v.hangover = vad.hangover
              BY <5>1 DEF Worker!Smoothed, VadType
            <6> HIDE DEF v, n
            <6>2. Cardinality(Worker!Judged(g, j + 1, n + 1)) =
                      Cardinality(Worker!Judged(h, j + 1, n))
              BY <3>1, <5>1
            <6> QED  BY <1>2, <1>10, <2>3, <3>1, <5>1, <6>1, <6>2
          <5>2. CASE kind # "error"
            <6>1. Worker!GoesOn(kind) /\ v.speech /\ v.onset = vad.onset /\ v.hangover = vad.hangover - 1
              BY <1>2, <1>10, <2>3, <2>6, <3>3, <5>2 DEF Worker!Smoothed, Worker!GoesOn
            <6> HIDE DEF v, n
            <6> QED  BY <1>2, <2>3, <3>1, <3>3, <5>2, <6>1, SMTT(30)
          <5> QED  BY <5>1, <5>2
        <4> HIDE DEF v
        <4>2. Close(g, k, n + 1)
          <5>1. j \in Worker!Voice(g, k, n + 1)
            BY <3>1, <3>2 DEF Worker!Voice
          <5>2. Cardinality(Worker!Judged(g, j + 1, n + 1)) <= profile.hangover
            BY <1>2, <3>1, <4>1
          <5> QED  BY <5>1, <5>2 DEF Close
        <4>3. Worker!InSpeech(g, n + 1)
          BY <1>3, <2>2, <4>2 DEF Spoken
        <4> HIDE DEF n
        <4>4. Lingers(g, v, j)
          BY <1>1, <3>1, <4>1 DEF Lingers
        <4>5. Steady(g, v)
          BY <1>1, <3>0, <4>1, <4>3, <4>4 DEF Steady
        <4> QED  BY <1>1, <2>3, <2>4, <4>1, <4>3, <4>5 DEF n, v
      <3>4. CASE kind # "error" /\ ~(vad.hangover > 0)
        <4>1. ~v.speech /\ v.onset = 0 /\ ~Worker!GoesOn(kind)
          BY <1>10, <2>3, <2>6, <3>4 DEF Worker!Smoothed, Worker!GoesOn
        <4>2. ~Spoken
          <5> SUFFICES ASSUME NEW q \in 1..n, Close(g, q, n + 1) PROVE FALSE
            BY DEF Spoken
          <5>1. PICK p \in Worker!Voice(g, q, n + 1) :
                    Cardinality(Worker!Judged(g, p + 1, n + 1)) <= profile.hangover
            BY DEF Close
          <5>2. p \in 1..n /\ p <= j
            <6>1. p # n + 1
              BY <1>1, <2>6, <5>1 DEF Worker!Voice
            <6>2. p \in Worker!Voice(g, 1, n + 1) /\ p \notin Worker!Voice(g, j + 1, n + 1)
              BY <1>1, <3>1, <5>1 DEF Worker!Voice
            <6>3. p \in 1..(n + 1) /\ g[p].kind \in Worker!Voiced
              BY <6>2 DEF Worker!Voice
            <6>4. p \notin (j + 1)..(n + 1)
              BY <6>2, <6>3 DEF Worker!Voice
            <6> HIDE DEF n
            <6> QED  BY <1>1, <3>0, <6>1, <6>3, <6>4
          <5>3. Worker!Judged(g, j + 1, n + 1) \subseteq Worker!Judged(g, p + 1, n + 1)
            BY <1>1, <3>0, <5>2 DEF Worker!Judged
          <5>4. IsFiniteSet(Worker!Judged(g, p + 1, n + 1))
            <6>1. IsFiniteSet((p + 1)..(n + 1))
              BY <1>1, <5>2, FS_Interval
            <6> QED  BY <6>1, FS_Subset DEF Worker!Judged
          <5>5. Cardinality(Worker!Judged(g, j + 1, n + 1)) <=
                    Cardinality(Worker!Judged(g, p + 1, n + 1))
            BY <5>3, <5>4, FS_Subset
          <5>6. Cardinality(Worker!Judged(g, p + 1, n + 1)) \in Nat
            BY <5>4, FS_CardinalityType
          <5> HIDE DEF n
          <5> QED  BY <1>2, <3>1, <3>4, <5>1, <5>5, <5>6
        <4>3. ~Worker!InSpeech(g, n + 1)
          BY <1>3, <1>6, <2>6, <4>2
        <4>4. Counts(g, v, Len(g) + 1) /\ Len(g) + 1 \in 1..(Len(g) + 1)
          <5> HIDE DEF v, n
          <5> QED  BY <1>1, <2>6, <3>4, <4>1, Newest
        <4> HIDE DEF v, n
        <4>5. Steady(g, v)
          BY <1>1, <1>2, <4>1, <4>3, <4>4 DEF Steady
        <4> QED  BY <1>1, <2>3, <2>4, <4>1, <4>3, <4>5 DEF n, v
      <3> QED  BY <3>3, <3>4
    <2> QED  BY <2>5, <2>6
  <1> QED  BY <1>2, <1>9, <1>10

\* The names of t are those of the last frames of h.
Ends(t, h) ==
    /\ Len(t) <= Len(h)
    /\ \A i \in 1..Len(t) : t[i] = h[Len(h) - Len(t) + i].frame

LEMMA Newer ==
    ASSUME NEW h, NEW g, Longer(h, g)
    PROVE  /\ Len(h) \in Nat /\ Len(g) = Len(h) + 1 /\ Len(g) \in 1..Len(g)
           /\ g \in Seq(Frames) /\ g[Len(g)] \in Frames
           /\ g[Len(g)].frame \in Nat /\ g[Len(g)].kind \in Worker!AllKinds
  <1>1. Len(h) \in Nat /\ Len(g) = Len(h) + 1 /\ Len(g) \in 1..Len(g) /\ g \in Seq(Frames)
    BY DEF Longer
  <1>2. g[Len(g)] \in Frames
    BY <1>1
  <1> QED  BY <1>1, <1>2 DEF Frames

LEMMA EndsAppend ==
    ASSUME NEW h, NEW g, Longer(h, g), NEW t \in Seq(Nat), Ends(t, h)
    PROVE  /\ Append(t, g[Len(g)].frame) \in Seq(Nat)
           /\ Len(Append(t, g[Len(g)].frame)) = Len(t) + 1
           /\ Ends(Append(t, g[Len(g)].frame), g)
  <1>0. PICK n \in Nat, m \in Nat : n = Len(h) /\ m = Len(t)
    BY DEF Longer
  <1> DEFINE f == g[Len(g)].frame
  <1>1. /\ n \in Nat /\ m \in Nat /\ m <= n /\ Len(g) = n + 1
        /\ (\A i \in 1..n : g[i] = h[i]) /\ f \in Nat /\ f = g[n + 1].frame
    BY <1>0, Newer DEF Longer, Ends
  <1>2. /\ Append(t, f) \in Seq(Nat) /\ Len(Append(t, f)) = m + 1
        /\ Append(t, f)[m + 1] = f /\ \A i \in 1..m : Append(t, f)[i] = t[i]
    BY <1>0, <1>1
  <1>3. \A i \in 1..m : n - m + i \in 1..n /\ t[i] = h[n - m + i].frame
    BY <1>0, <1>1 DEF Ends
  <1> HIDE DEF f
  <1>4. ASSUME NEW i \in 1..(m + 1)
        PROVE  Append(t, f)[i] = g[n + 1 - (m + 1) + i].frame
    <2>1. n + 1 - (m + 1) + i = n - m + i
      BY <1>1
    <2>2. CASE i = m + 1
      <3>1. n - m + i = n + 1
        BY <1>1, <2>2
      <3> QED  BY <1>1, <1>2, <2>1, <2>2, <3>1
    <2>3. CASE i # m + 1
      <3>1. i \in 1..m
        BY <1>1, <2>3
      <3> QED  BY <1>1, <1>2, <1>3, <2>1, <3>1
    <2> QED  BY <2>2, <2>3
  <1>5. Ends(Append(t, f), g)
    <2>1. PICK a : a = Append(t, f)
      OBVIOUS
    <2>2. Len(a) = m + 1 /\ \A i \in 1..(m + 1) : a[i] = g[n + 1 - (m + 1) + i].frame
      BY <1>2, <1>4, <2>1
    <2>3. Ends(a, g)
      BY <1>1, <2>2 DEF Ends
    <2> QED  BY <2>1, <2>3
  <1> QED  BY <1>0, <1>2, <1>5 DEF f

LEMMA EndsLatest ==
    ASSUME NEW g \in Seq(Frames), NEW t \in Seq(Nat), Ends(t, g), NEW k \in Nat
    PROVE  /\ Worker!Latest(t, k) \in Seq(Nat) /\ Ends(Worker!Latest(t, k), g)
           /\ Len(Worker!Latest(t, k)) = IF Len(t) <= k THEN Len(t) ELSE k
  <1>1. CASE Len(t) <= k
    BY <1>1 DEF Worker!Latest
  <1>2. CASE ~(Len(t) <= k)
    <2> DEFINE m == Len(t) - k + 1
               s == SubSeq(t, m, Len(t))
    <2>1. m \in 1..(Len(t) + 1) /\ \A i \in m..Len(t) : t[i] \in Nat
      BY <1>2
    <2>2. Worker!Latest(t, k) = s
      BY <1>2 DEF Worker!Latest
    <2> HIDE DEF m
    <2>3. s \in Seq(Nat) /\ Len(s) = Len(t) - m + 1
          /\ \A i \in 1..(Len(t) - m + 1) : s[i] = t[m + i - 1]
      BY <2>1, SubSeqProperties
    <2> HIDE DEF s
    <2>4. Len(s) = k /\ Len(t) \in Nat /\ Len(g) \in Nat /\ Len(t) <= Len(g)
      BY <1>2, <2>3 DEF m, Ends
    <2>5. ASSUME NEW i \in 1..Len(s) PROVE s[i] = g[Len(g) - Len(s) + i].frame
      <3>1. m + i - 1 \in 1..Len(t) /\ s[i] = t[m + i - 1]
        BY <2>1, <2>3, <2>4
      <3>2. Len(g) - Len(t) + (m + i - 1) = Len(g) - Len(s) + i
        BY <2>1, <2>3, <2>4
      <3> QED  BY <3>1, <3>2 DEF Ends
    <2>6. Ends(s, g)
      BY <1>2, <2>4, <2>5 DEF Ends
    <2> QED  BY <1>2, <2>2, <2>3, <2>4, <2>6
  <1> QED  BY <1>1, <1>2

\* What is put before the first frame of speech.
Reaches(t, h) ==
    /\ Ends(t, h)
    /\ Len(t) = IF Len(h) <= profile.prefill + 1 THEN Len(h) ELSE profile.prefill + 1

LEMMA Reaching ==
    ASSUME profile \in ProfileType, NEW h, NEW g, Longer(h, g),
           vad \in VadType, Reaches(vad.recent, h)
    PROVE  /\ Worker!Recent(g[Len(g)].frame) \in Seq(Nat)
           /\ Reaches(Worker!Recent(g[Len(g)].frame), g)
  <1> DEFINE f == g[Len(g)].frame
             t == Append(vad.recent, f)
  <1>1. /\ profile.prefill + 1 \in Nat /\ vad.recent \in Seq(Nat) /\ g \in Seq(Frames)
        /\ Len(g) = Len(h) + 1 /\ Len(h) \in Nat /\ profile.prefill \in Nat
    BY DEF ProfileType, VadType, Longer
  <1>2. t \in Seq(Nat) /\ Len(t) = Len(vad.recent) + 1 /\ Ends(t, g)
    BY <1>1, EndsAppend DEF Reaches
  <1>3. Worker!Recent(f) = Worker!Latest(t, profile.prefill + 1)
    BY DEF Worker!Recent
  <1> HIDE DEF f, t
  <1>4. /\ Worker!Recent(f) \in Seq(Nat) /\ Ends(Worker!Recent(f), g)
        /\ Len(Worker!Recent(f)) = IF Len(t) <= profile.prefill + 1 THEN Len(t)
                                                              ELSE profile.prefill + 1
    BY <1>1, <1>2, <1>3, EndsLatest
  <1>5. Reaches(Worker!Recent(f), g)
    BY <1>1, <1>2, <1>4 DEF Reaches
  <1> QED  BY <1>4, <1>5 DEF f

\* What passes is the end of what was heard.
LEMMA Passing ==
    ASSUME profile \in ProfileType, NEW h, NEW g, Longer(h, g),
           vad \in VadType, Reaches(vad.recent, h), NEW kind
    PROVE  LET p == Worker!Passed(g[Len(g)].frame, kind) IN
           /\ p \in Seq(Nat) /\ Ends(p, g)
           /\ Worker!Begins(kind) => Reaches(p, g)
           /\ ~Worker!Begins(kind) =>
                  Len(p) = IF Worker!GoesOn(kind) \/ kind = "error" THEN 1 ELSE 0
  <1> DEFINE f == g[Len(g)].frame
             p == Worker!Passed(f, kind)
  <1>1. f \in Nat /\ g \in Seq(Frames) /\ Len(g) \in Nat /\ Len(g) >= 1
    BY Newer
  <1>2. CASE Worker!Begins(kind)
    <2>1. p = Worker!Recent(f)
      BY <1>2 DEF Worker!Passed
    <2> QED  BY <1>2, <2>1, Reaching DEF Reaches
  <1>3. CASE ~Worker!Begins(kind) /\ (Worker!GoesOn(kind) \/ kind = "error")
    <2>1. p = <<f>>
      BY <1>3 DEF Worker!Passed
    <2>2. <<f>> \in Seq(Nat) /\ Len(<<f>>) = 1 /\ <<f>>[1] = f
      BY <1>1
    <2>3. Len(g) - 1 + 1 = Len(g) /\ \A i \in 1..1 : i = 1
      BY <1>1
    <2>4. Ends(<<f>>, g)
      BY <1>1, <2>2, <2>3 DEF Ends
    <2> QED  BY <1>3, <2>1, <2>2, <2>4
  <1>4. CASE ~Worker!Begins(kind) /\ ~(Worker!GoesOn(kind) \/ kind = "error")
    <2>1. p = <<>>
      BY <1>4 DEF Worker!Passed
    <2>2. <<>> \in Seq(Nat) /\ Len(<<>>) = 0 /\ Ends(<<>>, g)
      BY <1>1 DEF Ends
    <2> QED  BY <1>4, <2>1, <2>2
  <1> QED  BY <1>2, <1>3, <1>4

\* A frame more adds to what is wanted as many frames of the end.
LEMMA Wanting ==
    ASSUME profile \in ProfileType, NEW h, NEW g, Longer(h, g), NEW p \in Seq(Nat), Ends(p, g),
           Worker!Opens(g, Len(g)) => Reaches(p, g) /\ Worker!InSpeech(g, Len(g)),
           ~Worker!Opens(g, Len(g)) =>
               Len(p) = IF Worker!InSpeech(g, Len(g)) \/ g[Len(g)].kind = "error" THEN 1 ELSE 0
    PROVE  Worker!Wanted(g) = Worker!Wanted(h) \cup Worker!ToSet(p)
  <1>0. PICK n \in Nat, m \in Nat : n = Len(h) /\ m = Len(p)
    BY DEF Longer
  <1>1. /\ n \in Nat /\ m \in Nat /\ m <= n + 1 /\ Len(g) = n + 1
        /\ profile.prefill \in Nat /\ \A i \in 1..n : g[i] = h[i]
    BY <1>0 DEF Longer, Ends, ProfileType
  <1> DEFINE add(i) == i > n + 1 - m
  <1>2. 1..(n + 1) = (1..n) \cup {n + 1} /\ n + 1 \notin 1..n
    BY <1>1
  <1>3. /\ \A i \in 1..n : Worker!Opens(g, i) <=> Worker!Opens(h, i)
        /\ \A i \in 1..n : Worker!InSpeech(g, i) <=> Worker!InSpeech(h, i)
    <2>1. \A i \in 1..n : i \in 0..n /\ i # 0 /\ 1 \in Nat \ {0}
      BY <1>1
    <2> QED  BY <1>0, <2>1, Past
  <1>4. ASSUME NEW i \in 1..n PROVE Worker!Wants(g, i) <=> Worker!Wants(h, i) \/ add(i)
    <2>1. i..(n + 1) = (i..n) \cup {n + 1}
      BY <1>1
    <2>2. Worker!Wants(g, i) <=> \/ Worker!Wants(h, i)
                                 \/ n + 1 - i <= profile.prefill /\ Worker!Opens(g, n + 1)
      <3>1. \A j \in i..n : j \in 1..n
        BY <1>1
      <3>2. (\E j \in i..(n + 1) : j - i <= profile.prefill /\ Worker!Opens(g, j)) <=>
                \/ \E j \in i..n : j - i <= profile.prefill /\ Worker!Opens(h, j)
                \/ n + 1 - i <= profile.prefill /\ Worker!Opens(g, n + 1)
        BY <1>3, <2>1, <3>1, SMTT(30)
      <3>3. g[i] = h[i] /\ (Worker!InSpeech(g, i) <=> Worker!InSpeech(h, i)) /\ Len(g) = n + 1
        BY <1>1, <1>3
      <3> QED  BY <1>0, <3>2, <3>3 DEF Worker!Wants
    <2>3. CASE Worker!Opens(g, n + 1)
      <3>0. Reaches(p, g)
        BY <1>1, <2>3
      <3>1. m = IF n + 1 <= profile.prefill + 1 THEN n + 1 ELSE profile.prefill + 1
        BY <1>0, <1>1, <3>0 DEF Reaches
      <3>2. (n + 1 - i <= profile.prefill) <=> add(i)
        BY <1>1, <3>1, SMTT(30)
      <3> QED  BY <2>2, <2>3, <3>2
    <2>4. CASE ~Worker!Opens(g, n + 1)
      <3>1. m <= 1
        BY <1>0, <1>1, <2>4
      <3>2. ~add(i)
        BY <1>1, <3>1
      <3> QED  BY <2>2, <2>4, <3>2
    <2> QED  BY <2>3, <2>4
  <1>5. Worker!Wants(g, n + 1) <=> m > 0
    <2>1. (n + 1)..(n + 1) = {n + 1} /\ n + 1 - (n + 1) = 0
      BY <1>1
    <2>2. Worker!Wants(g, n + 1) <=> \/ Worker!Opens(g, n + 1) \/ Worker!InSpeech(g, n + 1)
                                     \/ g[n + 1].kind = "error"
      <3>1. (\E j \in (n + 1)..Len(g) : j - (n + 1) <= profile.prefill /\ Worker!Opens(g, j)) <=>
                Worker!Opens(g, n + 1)
        BY <1>1, <2>1
      <3> QED  BY <3>1 DEF Worker!Wants
    <2> QED  BY <1>0, <1>1, <2>2 DEF Reaches
  <1>6. Worker!ToSet(p) = {g[i].frame : i \in {i \in 1..(n + 1) : add(i)}}
    <2>1. \A i \in 1..m : n + 1 - m + i \in 1..(n + 1) /\ add(n + 1 - m + i)
      BY <1>1
    <2>2. \A i \in 1..(n + 1) : add(i) => /\ i - (n + 1 - m) \in 1..m
                                          /\ n + 1 - m + (i - (n + 1 - m)) = i
      BY <1>1
    <2>3. \A i \in 1..m : p[i] = g[n + 1 - m + i].frame
      BY <1>0, <1>1 DEF Ends
    <2>4. Worker!ToSet(p) = {p[i] : i \in 1..m}
      BY <1>0 DEF Worker!ToSet
    <2> HIDE DEF add
    <2>5. \A x \in Worker!ToSet(p) : \E i \in 1..(n + 1) : add(i) /\ x = g[i].frame
      BY <2>1, <2>3, <2>4
    <2>6. \A i \in 1..(n + 1) : add(i) => g[i].frame \in Worker!ToSet(p)
      BY <2>2, <2>3, <2>4
    <2> QED  BY <2>5, <2>6
  <1>7. add(n + 1) <=> m > 0
    BY <1>1
  <1>8. /\ Worker!Wanted(g) = {g[i].frame : i \in {i \in 1..(n + 1) : Worker!Wants(g, i)}}
        /\ Worker!Wanted(h) = {h[i].frame : i \in {i \in 1..n : Worker!Wants(h, i)}}
    <2>1. DOMAIN h = 1..n /\ DOMAIN g = 1..(n + 1)
      BY <1>0, <1>1 DEF Longer
    <2> QED  BY <2>1 DEF Worker!Wanted
  <1> HIDE DEF add
  <1> QED
    <2>1. \A i \in 1..n : h[i].frame = g[i].frame
      BY <1>1
    <2>2. \A i \in 1..(n + 1) : Worker!Wants(g, i) <=> (i \in 1..n /\ Worker!Wants(h, i)) \/ add(i)
      BY <1>2, <1>4, <1>5, <1>7
    <2>3. \A x : x \in Worker!Wanted(g) <=>
                     \E i \in 1..(n + 1) : Worker!Wants(g, i) /\ x = g[i].frame
      BY <1>8
    <2>4. \A x : x \in Worker!Wanted(h) <=> \E i \in 1..n : Worker!Wants(h, i) /\ x = g[i].frame
      BY <1>8, <2>1
    <2>5. \A x : x \in Worker!ToSet(p) <=> \E i \in 1..(n + 1) : add(i) /\ x = g[i].frame
      BY <1>6
    <2>6. \A x : x \in Worker!Wanted(g) <=> x \in Worker!Wanted(h) \/ x \in Worker!ToSet(p)
      BY <1>2, <2>2, <2>3, <2>4, <2>5
    <2> QED  BY <2>6

\* The frames come in order, and b is to come.
Ordered(h, b) ==
    /\ \A i \in 1..Len(h) : h[i].frame < b
    /\ \A i \in 1..Len(h) : \A j \in 1..Len(h) : j < i => h[j].frame < h[i].frame

VoicedOnce(h, o) ==
    \A i \in 1..Len(h) : h[i].kind \in Worker!Voiced =>
        \A a, b \in 1..Len(o) : o[a] = h[i].frame /\ o[b] = h[i].frame => a = b

\* After speech what was handed over is too far back to open the next with.
FarBack(h, o, v) ==
    ~v.speech =>
        \A i \in 1..Len(h) : h[i].kind \in Worker!Voiced /\ h[i].frame \in Worker!ToSet(o) =>
            Len(h) - i >= profile.hangover + 1 + v.onset

\* The names of frames tell them apart.
LEMMA Apart ==
    ASSUME NEW h, NEW g, Longer(h, g), Ordered(h, g[Len(g)].frame)
    PROVE  /\ \A i, j \in 1..Len(g) : g[i].frame = g[j].frame => i = j
           /\ \A b \in Nat : g[Len(g)].frame < b => Ordered(g, b)
           /\ \A i \in 1..Len(g) : g[i].frame \in Nat
  <1>0. PICK n \in Nat : n = Len(h)
    BY Newer
  <1>1. /\ Len(g) = n + 1 /\ \A i \in 1..n : g[i] = h[i]
        /\ \A i \in 1..(n + 1) : i = n + 1 \/ i \in 1..n
    BY <1>0, Newer DEF Longer
  <1>2. \A i \in 1..(n + 1) : g[i].frame \in Nat
    <2>1. \A i \in 1..(n + 1) : g[i] \in Frames
      BY <1>1, Newer
    <2> QED  BY <2>1 DEF Frames
  <1>3. \A i, j \in 1..(n + 1) : j < i => g[j].frame < g[i].frame
    <2> SUFFICES ASSUME NEW i \in 1..(n + 1), NEW j \in 1..(n + 1), j < i
                 PROVE  g[j].frame < g[i].frame
      OBVIOUS
    <2>1. j \in 1..n /\ g[j] = h[j]
      BY <1>1
    <2>2. CASE i = n + 1
      BY <1>0, <1>1, <2>1, <2>2 DEF Ordered
    <2>3. CASE i # n + 1
      <3>1. i \in 1..n /\ g[i] = h[i]
        BY <1>1, <2>3
      <3> QED  BY <1>0, <2>1, <3>1 DEF Ordered
    <2> QED  BY <2>2, <2>3
  <1>4. ASSUME NEW i \in 1..(n + 1), NEW j \in 1..(n + 1), g[i].frame = g[j].frame
        PROVE  i = j
    <2>1. ~(i < j) /\ ~(j < i)
      BY <1>2, <1>3, <1>4
    <2> QED  BY <2>1
  <1>5. ASSUME NEW b \in Nat, g[n + 1].frame < b
        PROVE  \A i \in 1..(n + 1) : g[i].frame < b
    <2> TAKE i \in 1..(n + 1)
    <2>1. i = n + 1 \/ g[i].frame < g[n + 1].frame
      BY <1>1, <1>3
    <2> QED  BY <1>2, <1>5, <2>1
  <1> QED  BY <1>1, <1>2, <1>3, <1>4, <1>5 DEF Ordered

LEMMA Joined ==
    ASSUME NEW s \in Seq(Nat), NEW t \in Seq(Nat)
    PROVE  /\ s \o t \in Seq(Nat) /\ Len(s \o t) = Len(s) + Len(t)
           /\ Len(s) \in Nat /\ Len(t) \in Nat
           /\ Worker!ToSet(s \o t) = Worker!ToSet(s) \cup Worker!ToSet(t)
           /\ \A a \in 1..Len(s) : (s \o t)[a] = s[a] /\ s[a] \in Worker!ToSet(s)
           /\ \A a \in 1..Len(s \o t) : a > Len(s) =>
                  a - Len(s) \in 1..Len(t) /\ (s \o t)[a] = t[a - Len(s)]
  <1>0. PICK m \in Nat, k \in Nat, u \in Seq(Nat) : m = Len(s) /\ k = Len(t) /\ u = s \o t
    <2>1. Len(s) \in Nat /\ Len(t) \in Nat /\ s \o t \in Seq(Nat)
      OBVIOUS
    <2> QED  BY <2>1
  <1>1. /\ u \in Seq(Nat) /\ Len(u) = m + k
        /\ \A a \in 1..m : u[a] = s[a]
        /\ \A a \in 1..(m + k) : a > m => a - m \in 1..k /\ u[a] = t[a - m]
    BY <1>0
  <1>2. Worker!ToSet(u) = Worker!ToSet(s) \cup Worker!ToSet(t)
    <2>1. /\ \A x : x \in Worker!ToSet(s) <=> \E a \in 1..m : x = s[a]
          /\ \A x : x \in Worker!ToSet(t) <=> \E a \in 1..k : x = t[a]
          /\ \A x : x \in Worker!ToSet(u) <=> \E a \in 1..(m + k) : x = u[a]
      <3>1. DOMAIN s = 1..m /\ DOMAIN t = 1..k /\ DOMAIN u = 1..(m + k)
        BY <1>0, <1>1
      <3> QED  BY <3>1 DEF Worker!ToSet
    <2>2. ASSUME NEW a \in 1..k PROVE a + m \in 1..(m + k) /\ u[a + m] = t[a]
      <3>1. a + m \in 1..(m + k) /\ a + m > m /\ a + m - m = a
        OBVIOUS
      <3> QED  BY <1>1, <3>1, SMTT(30)
    <2>3. \A a \in 1..m : a \in 1..(m + k) /\ u[a] = s[a]
      BY <1>1
    <2>4. \A a \in 1..(m + k) : \/ a - m \in 1..k /\ u[a] = t[a - m]
                                \/ a \in 1..m /\ u[a] = s[a]
      BY <1>1
    <2>5. \A x \in Worker!ToSet(u) : x \in Worker!ToSet(s) \cup Worker!ToSet(t)
      BY ONLY <2>1, <2>4, SMTT(30)
    <2>6. \A x \in Worker!ToSet(s) : x \in Worker!ToSet(u)
      BY <2>1, <2>3
    <2>7. \A x \in Worker!ToSet(t) : x \in Worker!ToSet(u)
      BY <2>1, <2>2
    <2> QED  BY <2>5, <2>6, <2>7
  <1>3. \A a \in 1..m : s[a] \in Worker!ToSet(s)
    <2>1. DOMAIN s = 1..m
      BY <1>0
    <2> QED  BY <2>1 DEF Worker!ToSet
  <1> QED  BY <1>0, <1>1, <1>2, <1>3

\* No voice passes twice: what opens speech reaches prefill frames back, and the
\* last speech ended hangover + onset frames ago at least.
LEMMA PassedOnce ==
    ASSUME profile \in ProfileType, profile.prefill <= profile.hangover + profile.onset,
           NEW h, NEW g, Longer(h, g), Ordered(h, g[Len(g)].frame),
           vad \in VadType, Steady(h, vad), Reaches(vad.recent, h),
           NEW kind, g[Len(g)].kind = kind,
           NEW o \in Seq(Nat), Worker!ToSet(o) = Worker!Wanted(h),
           VoicedOnce(h, o), FarBack(h, o, vad)
    PROVE  LET f == g[Len(g)].frame
               p == Worker!Passed(f, kind)
           IN  VoicedOnce(g, o \o p) /\ FarBack(g, o \o p, Worker!Smoothed(f, kind))
  <1> DEFINE f == g[Len(g)].frame
             v == Worker!Smoothed(f, kind)
  <1>0. PICK n \in Nat, p \in Seq(Nat), m \in Nat :
            n = Len(h) /\ p = Worker!Passed(f, kind) /\ m = Len(p)
    <2>1. Len(h) \in Nat /\ Worker!Passed(f, kind) \in Seq(Nat)
      BY Passing, Newer
    <2> QED  BY <2>1
  <1>1. /\ Len(g) = n + 1 /\ (\A i \in 1..n : g[i] = h[i]) /\ n + 1 \in 1..(n + 1)
        /\ \A i \in 1..(n + 1) : i = n + 1 \/ i \in 1..n
    BY <1>0, Newer DEF Longer
  <1>2. /\ p \in Seq(Nat) /\ m <= n + 1
        /\ \A a \in 1..m : n + 1 - m + a \in 1..(n + 1) /\ p[a] = g[n + 1 - m + a].frame
    <2>1. p \in Seq(Nat) /\ Ends(p, g)
      BY <1>0, Passing
    <2>2. m <= n + 1 /\ \A a \in 1..m : p[a] = g[n + 1 - m + a].frame
      BY <1>0, <1>1, <2>1 DEF Ends
    <2> QED  BY <2>1, <2>2, SMTT(30)
  <1>3. /\ Worker!Begins(kind) => m <= profile.prefill + 1
        /\ ~Worker!Begins(kind) => m = IF Worker!GoesOn(kind) \/ kind = "error" THEN 1 ELSE 0
    <2>1. /\ Worker!Begins(kind) => Reaches(p, g)
          /\ ~Worker!Begins(kind) => m = IF Worker!GoesOn(kind) \/ kind = "error" THEN 1 ELSE 0
      BY <1>0, Passing
    <2>2. profile.prefill \in Nat
      BY DEF ProfileType
    <2> QED  BY <1>0, <1>1, <2>1, <2>2 DEF Reaches
  <1>4. /\ profile.prefill \in Nat /\ profile.hangover \in Nat /\ profile.onset \in Nat
        /\ vad.onset \in Nat /\ vad.speech \in BOOLEAN /\ vad.hangover \in Nat
    BY DEF VadType, ProfileType
  <1>5. \A i, j \in 1..(n + 1) : g[i].frame = g[j].frame => i = j
    BY <1>1, Apart
  <1>6. \A x \in Worker!ToSet(o) : \E i \in 1..n : x = g[i].frame
    BY <1>0, <1>1 DEF Worker!Wanted
  <1>7. f \notin Worker!ToSet(o)
    <2>1. f = g[n + 1].frame /\ \A i \in 1..n : i # n + 1 /\ i \in 1..(n + 1)
      BY <1>1
    <2> QED  BY <1>1, <1>5, <1>6, <2>1
  <1>8. PICK q : q = o \o p
    OBVIOUS
  <1>9. /\ q \in Seq(Nat) /\ Len(q) = Len(o) + m /\ Len(o) \in Nat
        /\ Worker!ToSet(q) = Worker!ToSet(o) \cup Worker!ToSet(p)
        /\ \A a \in 1..Len(o) : q[a] = o[a] /\ o[a] \in Worker!ToSet(o)
        /\ \A a \in 1..Len(q) : a > Len(o) =>
               /\ n + 1 - m + (a - Len(o)) \in 1..(n + 1)
               /\ q[a] = g[n + 1 - m + (a - Len(o))].frame
    BY <1>0, <1>2, <1>8, Joined
  <1>10. \A i \in 1..n :
             g[i].kind \in Worker!Voiced /\ g[i].frame \in Worker!ToSet(o) => i <= n + 1 - m
    <2> SUFFICES ASSUME NEW i \in 1..n, g[i].kind \in Worker!Voiced, g[i].frame \in Worker!ToSet(o)
                 PROVE  i <= n + 1 - m
      OBVIOUS
    <2>1. CASE Worker!Begins(kind)
      <3>1. ~vad.speech /\ vad.onset + 1 >= profile.onset
        BY <2>1 DEF Worker!Begins
      <3>2. n - i >= profile.hangover + 1 + vad.onset
        BY <1>0, <1>1, <3>1 DEF FarBack
      <3>3. profile.prefill <= profile.hangover + profile.onset /\ m <= profile.prefill + 1
        BY <1>3, <2>1
      <3>4. profile.prefill <= profile.hangover + 1 + vad.onset
        BY ONLY <1>4, <3>1, <3>3, SMTT(30)
      <3>5. n - i >= profile.prefill
        BY <1>4, <3>2, <3>4
      <3> QED  BY <1>4, <3>3, <3>5
    <2>2. CASE ~Worker!Begins(kind)
      BY <1>3, <2>2
    <2> QED  BY <2>1, <2>2
  <1> HIDE DEF f, v
  <1>11. VoicedOnce(g, q)
    <2> SUFFICES ASSUME NEW i \in 1..(n + 1), g[i].kind \in Worker!Voiced,
                        NEW a \in 1..Len(q), NEW b \in 1..Len(q),
                        q[a] = g[i].frame, q[b] = g[i].frame
                 PROVE  a = b
      BY <1>1 DEF VoicedOnce
    <2>1. ASSUME NEW c \in 1..Len(q), q[c] = g[i].frame
          PROVE  /\ c > Len(o) => c = i - (n + 1 - m) + Len(o)
                 /\ ~(c > Len(o)) => c \in 1..Len(o) /\ o[c] = g[i].frame /\ i \in 1..n
                                     /\ i <= n + 1 - m
      <3>1. ASSUME c > Len(o) PROVE c = i - (n + 1 - m) + Len(o)
        <4>1. n + 1 - m + (c - Len(o)) \in 1..(n + 1)
              /\ q[c] = g[n + 1 - m + (c - Len(o))].frame
          BY <1>9, <3>1
        <4>2. n + 1 - m + (c - Len(o)) = i
          BY <1>5, <2>1, <4>1
        <4> QED  BY <1>9, <4>2
      <3>2. ASSUME ~(c > Len(o))
            PROVE  c \in 1..Len(o) /\ o[c] = g[i].frame /\ i \in 1..n /\ i <= n + 1 - m
        <4>1. c \in 1..Len(o)
          BY <1>9, <3>2
        <4>2. o[c] = g[i].frame /\ g[i].frame \in Worker!ToSet(o)
          BY <1>9, <2>1, <4>1
        <4>3. i \in 1..n
          BY <1>1, <1>7, <4>2 DEF f
        <4> QED  BY <1>10, <4>1, <4>2, <4>3
      <3> QED  BY <3>1, <3>2
    <2>2. ASSUME NEW c \in 1..Len(q), q[c] = g[i].frame, c > Len(o)
          PROVE  i - (n + 1 - m) >= 1
      <3>1. c \in Int /\ i \in Int /\ n \in Int /\ m \in Int /\ Len(o) \in Int
        BY <1>9
      <3>2. c = i - (n + 1 - m) + Len(o)
        BY <2>1, <2>2
      <3> QED  BY ONLY <2>2, <3>1, <3>2
    <2>3. (a > Len(o) => i - (n + 1 - m) >= 1) /\ (b > Len(o) => i - (n + 1 - m) >= 1)
      BY <2>2
    <2>4. CASE a > Len(o) \/ b > Len(o)
      <3>1. i - (n + 1 - m) >= 1
        BY <2>3, <2>4
      <3>2. ~(i <= n + 1 - m)
        BY <3>1
      <3>3. a > Len(o) /\ b > Len(o)
        BY <2>1, <3>2
      <3> QED  BY <2>1, <3>3
    <2>5. CASE ~(a > Len(o)) /\ ~(b > Len(o))
      BY <1>0, <1>1, <2>1, <2>5 DEF VoicedOnce
    <2> QED  BY <2>4, <2>5
  <1>12. FarBack(g, q, v)
    <2> SUFFICES ASSUME ~v.speech, NEW i \in 1..(n + 1), g[i].kind \in Worker!Voiced,
                        g[i].frame \in Worker!ToSet(q)
                 PROVE  n + 1 - i >= profile.hangover + 1 + v.onset
      BY <1>1 DEF FarBack
    <2>1. ~Worker!Begins(kind) /\ (kind # "error" => ~Worker!GoesOn(kind)) /\ v.onset \in Nat
      <3>1. CASE kind = "error"
        <4>1. "error" \notin Worker!Voiced
          BY DEF Worker!Voiced
        <4>2. v.onset = vad.onset
          BY <3>1 DEF Worker!Smoothed, v, VadType
        <4> QED  BY <1>4, <3>1, <4>1, <4>2 DEF Worker!Begins
      <3>2. CASE kind # "error"
        <4>1. v.speech <=> Worker!Begins(kind) \/ Worker!GoesOn(kind)
          BY <3>2 DEF Worker!Smoothed, v
        <4>2. v.onset \in Nat
          BY <1>4, <3>2 DEF Worker!Smoothed, v
        <4> QED  BY <3>2, <4>1, <4>2
      <3> QED  BY <3>1, <3>2
    <2>2. i \in 1..n /\ g[i].frame \in Worker!ToSet(o)
      <3>1. CASE kind = "error"
        <4>1. "error" \notin Worker!Voiced
          BY DEF Worker!Voiced
        <4>2. i \in 1..n
          BY <1>1, <3>1, <4>1
        <4>3. Worker!ToSet(p) = {f}
          BY <1>0, <2>1, <3>1 DEF Worker!Passed, Worker!ToSet
        <4>4. g[i].frame # f
          BY <1>1, <1>5, <4>2 DEF f
        <4> QED  BY <1>9, <4>2, <4>3, <4>4
      <3>2. CASE kind # "error"
        <4>1. Worker!ToSet(p) = {}
          BY <1>0, <2>1, <3>2 DEF Worker!Passed, Worker!ToSet
        <4>2. g[i].frame \in Worker!ToSet(o)
          BY <1>9, <4>1
        <4> QED  BY <1>1, <1>7, <4>2 DEF f
      <3> QED  BY <3>1, <3>2
    <2>3. CASE ~vad.speech
      <3>1. n - i >= profile.hangover + 1 + vad.onset
        BY <1>0, <1>1, <2>2, <2>3 DEF FarBack
      <3>2. v.onset <= vad.onset + 1
        BY <1>4, <2>3, SMTT(30) DEF Worker!Smoothed, v
      <3>3. i \in Int /\ n \in Int
        OBVIOUS
      <3> QED  BY ONLY <1>4, <2>1, <3>1, <3>2, <3>3, SMTT(30)
    <2>4. CASE vad.speech
      <3>1. kind \notin Worker!Voiced /\ kind # "error" /\ vad.hangover = 0 /\ v.onset = 0
        BY <1>4, <2>1, <2>4 DEF Worker!Smoothed, v, Worker!GoesOn, Steady, VadType
      <3>2. PICK j \in 1..n : Lingers(h, vad, j)
        BY <1>0, <2>4 DEF Steady
      <3>3. i <= j
        <4>1. i \notin Worker!Voice(h, j + 1, n)
          BY <1>0, <3>2 DEF Lingers
        <4>2. h[i].kind \in Worker!Voiced
          BY <1>1, <2>2
        <4> QED  BY <2>2, <4>1, <4>2 DEF Worker!Voice
      <3>4. Cardinality(Worker!Judged(h, j + 1, n)) = profile.hangover
        <4>1. IsFiniteSet(Worker!Judged(h, j + 1, n))
          <5>0. j + 1 \in Int /\ n \in Int
            OBVIOUS
          <5>1. IsFiniteSet((j + 1)..n) /\ Worker!Judged(h, j + 1, n) \subseteq (j + 1)..n
            BY <5>0, FS_Interval DEF Worker!Judged
          <5> QED  BY <5>1, FS_Subset
        <4>2. Cardinality(Worker!Judged(h, j + 1, n)) \in Nat
          BY <4>1, FS_CardinalityType
        <4>3. Cardinality(Worker!Judged(h, j + 1, n)) + vad.hangover = profile.hangover
          BY <1>0, <3>2 DEF Lingers
        <4> QED  BY <3>1, <4>2, <4>3
      <3>5. Cardinality(Worker!Judged(h, j + 1, n)) <= n - j
        <4>0. j + 1 \in Int /\ n \in Int
          OBVIOUS
        <4>1. IsFiniteSet((j + 1)..n) /\ Worker!Judged(h, j + 1, n) \subseteq (j + 1)..n
          BY <4>0, FS_Interval DEF Worker!Judged
        <4>2. Cardinality((j + 1)..n) = n - j
          <5>1. Cardinality((j + 1)..n) = IF j + 1 > n THEN 0 ELSE n - (j + 1) + 1
            BY FS_Interval
          <5> QED  BY <5>1
        <4> QED  BY <4>1, <4>2, FS_Subset
      <3> QED  BY <1>4, <2>2, <3>1, <3>3, <3>4, <3>5
    <2> QED  BY <1>4, <2>3, <2>4
  <1> QED  BY <1>0, <1>8, <1>11, <1>12 DEF f, v

LEMMA Sizes ==
    /\ MinActive \in Nat \ {0} /\ Keep \in Nat /\ Compact \in Nat
    /\ MinActive <= Keep /\ Keep <= Compact
  BY WorkerAssumption DEF Worker!RecorderAssumption

\* The last c frames are loud and the one before is not.
Row(h, c) ==
    /\ c <= Len(h) /\ \A i \in (Len(h) - c + 1)..Len(h) : h[i].kind \in Worker!Loud
    /\ c = Len(h) \/ h[Len(h) - c].kind \notin Worker!Loud

\* t is what came since frame s, none of it broken.
Since(h, t, s) ==
    /\ Ends(t, h) /\ s = Len(h) - Len(t)
    /\ \A i \in (s + 1)..Len(h) : h[i].kind # "broken"

Anew(h, s) == s = 0 \/ h[s].kind = "broken"

\* Before sound is detected the buffer goes back Keep frames or to where it begins,
\* and from then on it goes back to Keep frames before the sound.
Standing(h, r) ==
    \E s \in 0..Len(h) :
        /\ Since(h, r.frames, s)
        /\ ~r.detected =>
               /\ Row(h, r.active) /\ r.active < MinActive
               /\ Anew(h, s) \/ s + Keep <= Len(h)
               /\ \A k \in 1..Len(h) : ~Worker!Audible(h, k)
        /\ r.detected =>
               /\ \E k \in 1..Len(h) : Worker!Audible(h, k)
               /\ \A k \in 1..Len(h) : Worker!Audible(h, k) => Anew(h, s) \/ s + Keep < k

LEMMA RowOn ==
    ASSUME NEW h, NEW g, Longer(h, g), NEW c \in Nat, Row(h, c)
    PROVE  Row(g, IF g[Len(g)].kind \in Worker!Loud THEN c + 1 ELSE 0)
  <1>0. PICK n \in Nat : n = Len(h)
    BY Newer
  <1>1. Len(g) = n + 1 /\ \A i \in 1..n : g[i] = h[i]
    BY <1>0, Newer DEF Longer
  <1>2. /\ c <= n /\ \A i \in (n - c + 1)..n : h[i].kind \in Worker!Loud
        /\ c = n \/ h[n - c].kind \notin Worker!Loud
    BY <1>0 DEF Row
  <1>3. CASE g[n + 1].kind \in Worker!Loud
    <2>1. n + 1 - (c + 1) = n - c /\ c + 1 <= n + 1
      BY <1>2
    <2>2. \A i \in (n - c + 1)..(n + 1) : g[i].kind \in Worker!Loud
      <3> TAKE i \in (n - c + 1)..(n + 1)
      <3>1. i = n + 1 \/ (i \in (n - c + 1)..n /\ i \in 1..n)
        BY <1>2
      <3> QED  BY <1>1, <1>2, <1>3, <3>1
    <2>3. c + 1 = n + 1 \/ g[n - c].kind \notin Worker!Loud
      <3>1. c = n \/ n - c \in 1..n
        BY <1>2
      <3> QED  BY <1>1, <1>2, <3>1
    <2>4. Row(g, c + 1)
      BY ONLY <1>1, <2>1, <2>2, <2>3 DEF Row
    <2> QED  BY <1>1, <1>3, <2>4
  <1>4. CASE g[n + 1].kind \notin Worker!Loud
    <2>1. 0 <= n + 1 /\ n + 1 - 0 = n + 1 /\ (n + 1 + 1)..(n + 1) = {}
      OBVIOUS
    <2>2. Row(g, 0)
      BY <1>1, <1>4, <2>1 DEF Row
    <2> QED  BY <1>1, <1>4, <2>2
  <1> QED  BY <1>3, <1>4

LEMMA RowHeard ==
    ASSUME NEW g \in Seq(Frames), Len(g) # 0, NEW c \in Nat, Row(g, c)
    PROVE  /\ c < MinActive => ~Worker!Audible(g, Len(g))
           /\ c >= MinActive /\ g[Len(g)].kind # "broken" => Worker!Audible(g, Len(g))
  <1>0. PICK n \in Nat \ {0} : n = Len(g)
    OBVIOUS
  <1>1. /\ c <= n /\ \A i \in (n - c + 1)..n : g[i].kind \in Worker!Loud
        /\ c = n \/ g[n - c].kind \notin Worker!Loud
    BY <1>0 DEF Row
  <1>2. ASSUME c < MinActive, Worker!Audible(g, n) PROVE FALSE
    <2>1. n >= MinActive /\ \A j \in (n - MinActive + 1)..n : g[j].kind \in Worker!Loud
      BY <1>2 DEF Worker!Audible
    <2>2. n - c \in (n - MinActive + 1)..n /\ c # n
      BY <1>1, <1>2, <2>1, Sizes
    <2> QED  BY <1>1, <2>1, <2>2
  <1>3. ASSUME c >= MinActive, g[n].kind # "broken" PROVE Worker!Audible(g, n)
    <2>1. n >= MinActive /\ \A j \in (n - MinActive + 1)..n : j \in (n - c + 1)..n
      BY <1>1, <1>3, Sizes
    <2>2. \A j \in n..Len(g) : j = n
      BY <1>0
    <2> QED  BY <1>1, <1>3, <2>1, <2>2 DEF Worker!Audible
  <1> QED  BY <1>0, <1>2, <1>3

\* Sound that was audible is so until a broken frame comes.
LEMMA Audibly ==
    ASSUME NEW h, NEW g, Longer(h, g), NEW k \in 1..Len(h)
    PROVE  Worker!Audible(g, k) <=> Worker!Audible(h, k) /\ g[Len(g)].kind # "broken"
  <1>0. PICK n \in Nat : n = Len(h)
    BY Newer
  <1>1. /\ Len(g) = n + 1 /\ (\A i \in 1..n : g[i] = h[i]) /\ k \in 1..n
        /\ k..(n + 1) = (k..n) \cup {n + 1}
    BY <1>0, Newer DEF Longer
  <1>2. k >= MinActive => \A j \in (k - MinActive + 1)..k : g[j] = h[j]
    <2>1. k >= MinActive => \A j \in (k - MinActive + 1)..k : j \in 1..n
      BY <1>1, Sizes
    <2> QED  BY <1>1, <2>1
  <1>3. \A j \in k..n : j \in 1..n /\ g[j] = h[j]
    BY <1>1
  <1>4. (\A j \in k..(n + 1) : g[j].kind # "broken") <=>
            (\A j \in k..n : h[j].kind # "broken") /\ g[n + 1].kind # "broken"
    BY <1>1, <1>3
  <1> QED  BY <1>0, <1>1, <1>2, <1>4 DEF Worker!Audible

LEMMA SinceOn ==
    ASSUME NEW h, NEW g, Longer(h, g), NEW t \in Seq(Nat), NEW s \in 0..Len(h),
           Since(h, t, s), g[Len(g)].kind # "broken"
    PROVE  LET u == Append(t, g[Len(g)].frame) IN
           /\ u \in Seq(Nat) /\ Len(u) = Len(t) + 1 /\ Since(g, u, s)
           /\ s \in 0..Len(g) /\ (Anew(h, s) => Anew(g, s))
  <1>0. PICK n \in Nat, u \in Seq(Nat) : n = Len(h) /\ u = Append(t, g[Len(g)].frame)
    <2>1. Append(t, g[Len(g)].frame) \in Seq(Nat)
      BY EndsAppend DEF Since
    <2> QED  BY <2>1, Newer
  <1>1. Len(g) = n + 1 /\ \A i \in 1..n : g[i] = h[i]
    BY <1>0, Newer DEF Longer
  <1>2. Len(u) = Len(t) + 1 /\ Ends(u, g) /\ Len(t) \in Nat
    BY <1>0, EndsAppend DEF Since
  <1>3. s = n - Len(t) /\ (\A i \in (s + 1)..n : h[i].kind # "broken") /\ s \in 0..n
    BY <1>0 DEF Since
  <1>4. \A i \in (s + 1)..(n + 1) : g[i].kind # "broken"
    <2> TAKE i \in (s + 1)..(n + 1)
    <2>1. i = n + 1 \/ (i \in (s + 1)..n /\ i \in 1..n)
      BY <1>3
    <2> QED  BY <1>1, <1>3, <2>1
  <1>5. s = n + 1 - Len(u) /\ s \in 0..(n + 1)
    BY <1>2, <1>3
  <1>6. Since(g, u, s)
    BY ONLY <1>1, <1>2, <1>4, <1>5 DEF Since
  <1>7. Anew(h, s) => Anew(g, s)
    <2>1. s = 0 \/ s \in 1..n
      BY <1>3
    <2> QED  BY <1>1, <2>1 DEF Anew
  <1> QED  BY <1>0, <1>1, <1>2, <1>5, <1>6, <1>7

LEMMA SinceLatest ==
    ASSUME NEW g \in Seq(Frames), NEW t \in Seq(Nat), NEW s \in 0..Len(g), Since(g, t, s),
           NEW k \in Nat, Len(t) > k
    PROVE  LET u == Worker!Latest(t, k) IN
           /\ u \in Seq(Nat) /\ Len(u) = k /\ Len(g) - k \in 0..Len(g)
           /\ Since(g, u, Len(g) - k)
  <1>0. PICK n \in Nat, m \in Nat : n = Len(g) /\ m = Len(t)
    OBVIOUS
  <1>1. /\ Worker!Latest(t, k) \in Seq(Nat) /\ Ends(Worker!Latest(t, k), g)
        /\ Len(Worker!Latest(t, k)) = IF m <= k THEN m ELSE k
    BY <1>0, EndsLatest DEF Since
  <1>2. s = n - m /\ s \in 0..n /\ (\A i \in (s + 1)..n : g[i].kind # "broken") /\ m > k
    BY <1>0 DEF Since
  <1>3. n - k \in 0..n /\ (\A i \in (n - k + 1)..n : i \in (s + 1)..n) /\ ~(m <= k)
    BY <1>2
  <1>4. Len(Worker!Latest(t, k)) = k
    BY <1>1, <1>3
  <1>5. Since(g, Worker!Latest(t, k), n - k)
    BY <1>0, <1>1, <1>2, <1>3, <1>4 DEF Since
  <1> QED  BY <1>0, <1>1, <1>3, <1>4, <1>5

LEMMA Nothing ==
    ASSUME NEW g \in Seq(Frames), NEW r, r.frames = <<>>
    PROVE  Since(g, r.frames, Len(g)) /\ Len(g) \in 0..Len(g)
  <1>1. Len(g) \in Nat /\ Len(<<>>) = 0 /\ (Len(g) + 1)..Len(g) = {} /\ 1..0 = {}
    OBVIOUS
  <1>2. Ends(<<>>, g)
    BY <1>1 DEF Ends
  <1>3. Len(g) = Len(g) - 0
    BY <1>1
  <1> QED  BY <1>1, <1>2, <1>3 DEF Since

\* VadFallbackAudio::push_frame keeps it so.
LEMMA Pushing ==
    ASSUME NEW h, NEW g, Longer(h, g), rescue \in RescueType, Standing(h, rescue)
    PROVE  Standing(g, Worker!PushRescue(g[Len(g)].frame, g[Len(g)].kind))
  <1>0. PICK n \in Nat, f \in Nat, kind \in Worker!AllKinds :
            n = Len(h) /\ f = g[Len(g)].frame /\ kind = g[Len(g)].kind
    BY Newer
  <1>1. /\ Len(g) = n + 1 /\ n + 1 \in 1..(n + 1) /\ g \in Seq(Frames) /\ Len(g) # 0
        /\ \A i \in 1..(n + 1) : i = n + 1 \/ i \in 1..n
    BY <1>0, Newer
  <1>2. /\ rescue.frames \in Seq(Nat) /\ rescue.active \in Nat /\ rescue.detected \in BOOLEAN
    BY DEF RescueType
  <1>3. PICK s \in 0..n :
            /\ Since(h, rescue.frames, s)
            /\ ~rescue.detected =>
                   /\ Row(h, rescue.active) /\ rescue.active < MinActive
                   /\ Anew(h, s) \/ s + Keep <= n
                   /\ \A k \in 1..n : ~Worker!Audible(h, k)
            /\ rescue.detected =>
                   /\ \E k \in 1..n : Worker!Audible(h, k)
                   /\ \A k \in 1..n : Worker!Audible(h, k) => Anew(h, s) \/ s + Keep < k
    BY <1>0 DEF Standing
  <1>4. \A k \in 1..n : Worker!Audible(g, k) <=> Worker!Audible(h, k) /\ kind # "broken"
    BY <1>0, Audibly
  <1>5. CASE kind = "broken"
    <2>1. Worker!PushRescue(f, kind) = Worker!Fresh
      BY <1>5 DEF Worker!PushRescue
    <2>2. Worker!Fresh.frames = <<>> /\ Worker!Fresh.active = 0 /\ ~Worker!Fresh.detected
      BY DEF Worker!Fresh
    <2>3. Since(g, Worker!Fresh.frames, n + 1) /\ n + 1 \in 0..Len(g)
      BY <1>1, <2>2, Nothing
    <2>4. Anew(g, n + 1)
      BY <1>0, <1>1, <1>5 DEF Anew
    <2>5. Row(g, 0)
      <3>1. n + 1 - 0 = n + 1 /\ (n + 1 + 1)..(n + 1) = {} /\ 0 <= n + 1
        OBVIOUS
      <3>2. g[n + 1].kind \notin Worker!Loud
        BY <1>0, <1>1, <1>5 DEF Worker!Loud
      <3> QED  BY <1>1, <3>1, <3>2 DEF Row
    <2>6. 0 < MinActive
      BY Sizes
    <2>7. ~Worker!Audible(g, n + 1)
      BY <1>1, <2>5, <2>6, RowHeard
    <2>8. \A k \in 1..Len(g) : ~Worker!Audible(g, k)
      BY <1>1, <1>4, <1>5, <2>7
    <2> QED  BY <1>0, <2>1, <2>2, <2>3, <2>4, <2>5, <2>6, <2>8 DEF Standing
  <1>6. CASE kind # "broken"
    <2>0. PICK u \in Seq(Nat) : u = Append(rescue.frames, f)
      <3>1. Append(rescue.frames, f) \in Seq(Nat)
        BY <1>2, AppendProperties
      <3> QED  BY <3>1
    <2>1. /\ Len(u) = Len(rescue.frames) + 1 /\ Since(g, u, s) /\ s \in 0..Len(g)
          /\ Anew(h, s) => Anew(g, s)
      BY <1>0, <1>2, <1>3, <1>6, <2>0, SinceOn
    <2>2. CASE rescue.detected
      <3>1. /\ Worker!PushRescue(f, kind).frames = u /\ Worker!PushRescue(f, kind).detected
        BY <1>2, <1>6, <2>0, <2>2 DEF Worker!PushRescue, RescueType
      <3>2. \E k \in 1..Len(g) : Worker!Audible(g, k)
        <4>1. \A k \in 1..n : k \in 1..Len(g)
          BY <1>1
        <4> QED  BY <1>3, <1>4, <1>6, <2>2, <4>1
      <3>3. ASSUME NEW k \in 1..Len(g), Worker!Audible(g, k) PROVE Anew(g, s) \/ s + Keep < k
        <4>1. CASE k \in 1..n
          BY <1>3, <1>4, <2>1, <2>2, <3>3, <4>1
        <4>2. CASE k = n + 1
          <5>1. PICK q \in 1..n : Worker!Audible(h, q)
            BY <1>3, <2>2
          <5>2. Anew(h, s) \/ s + Keep < q
            BY <1>3, <2>2, <5>1
          <5> QED  BY <2>1, <4>2, <5>2, Sizes
        <4> QED  BY <1>1, <4>1, <4>2
      <3> QED  BY <1>0, <2>1, <3>1, <3>2, <3>3 DEF Standing
    <2>3. CASE ~rescue.detected
      <3>0. PICK c \in Nat : c = IF kind \in Worker!Loud THEN rescue.active + 1 ELSE 0
        BY <1>2
      <3>1. Row(g, c) /\ c <= MinActive
        <4>1. Row(g, c)
          BY <1>0, <1>2, <1>3, <2>3, <3>0, RowOn
        <4>2. rescue.active < MinActive
          BY <1>3, <2>3
        <4> QED  BY <1>2, <3>0, <4>1, <4>2, Sizes
      <3>2. Anew(g, s) \/ s + Keep <= n
        BY <1>3, <2>1, <2>3
      <3>3. \A k \in 1..n : ~Worker!Audible(g, k)
        BY <1>3, <1>4, <2>3
      <3>4. CASE c >= MinActive
        <4>1. Worker!PushRescue(f, kind).frames = u /\ Worker!PushRescue(f, kind).detected
          BY <1>6, <2>0, <2>3, <3>0, <3>4 DEF Worker!PushRescue
        <4>2. Worker!Audible(g, n + 1)
          BY <1>0, <1>1, <1>6, <3>1, <3>4, RowHeard
        <4>3. \A k \in 1..Len(g) : Worker!Audible(g, k) => k = n + 1
          BY <1>1, <3>3
        <4>4. Anew(g, s) \/ s + Keep < n + 1
          BY <3>2, Sizes
        <4> QED  BY <1>0, <1>1, <2>1, <4>1, <4>2, <4>3, <4>4 DEF Standing
      <3>5. CASE ~(c >= MinActive)
        <4>0. PICK w : w = IF Len(u) > Compact THEN Worker!Latest(u, Keep) ELSE u
          OBVIOUS
        <4>1. /\ Worker!PushRescue(f, kind).frames = w /\ Worker!PushRescue(f, kind).active = c
              /\ ~Worker!PushRescue(f, kind).detected
          BY <1>6, <2>0, <2>3, <3>0, <3>5, <4>0 DEF Worker!PushRescue
        <4>2. c < MinActive
          BY <3>5, Sizes
        <4>3. ~Worker!Audible(g, n + 1)
          BY <1>1, <3>1, <4>2, RowHeard
        <4>4. \A k \in 1..Len(g) : ~Worker!Audible(g, k)
          BY <1>1, <3>3, <4>3
        <4>5. PICK b \in 0..Len(g) : Since(g, w, b) /\ (Anew(g, b) \/ b + Keep <= Len(g))
          <5>1. CASE Len(u) > Compact
            <6>1. w = Worker!Latest(u, Keep) /\ Len(u) > Keep
              BY <4>0, <5>1, Sizes
            <6>2. Len(g) - Keep \in 0..Len(g) /\ Since(g, w, Len(g) - Keep)
              BY <1>1, <2>1, <6>1, Sizes, SinceLatest
            <6>3. Len(g) - Keep + Keep <= Len(g)
              BY <1>1, Sizes
            <6> QED  BY <6>2, <6>3
          <5>2. CASE ~(Len(u) > Compact)
            <6>1. w = u /\ (Anew(g, s) \/ s + Keep <= Len(g))
              BY <1>1, <3>2, <4>0, <5>2, Sizes
            <6> QED  BY <2>1, <6>1
          <5> QED  BY <5>1, <5>2
        <4> QED  BY <1>0, <3>1, <4>1, <4>2, <4>4, <4>5 DEF Standing
      <3> QED  BY <3>4, <3>5
    <2> QED  BY <1>2, <2>2, <2>3
  <1> QED  BY <1>5, <1>6

\* What was rescued is what the reference says.
LEMMA Standby ==
    ASSUME NEW h \in Seq(Frames), NEW r \in RescueType, Standing(h, r)
    PROVE  /\ r.detected <=> \E k \in DOMAIN h : Worker!Audible(h, k)
           /\ r.detected => Worker!Rescues(h, r.frames)
  <1>0. PICK n \in Nat : n = Len(h)
    OBVIOUS
  <1>1. DOMAIN h = 1..n /\ r.frames \in Seq(Nat) /\ r.detected \in BOOLEAN
    BY <1>0 DEF RescueType
  <1>2. PICK s \in 0..n :
            /\ Since(h, r.frames, s)
            /\ ~r.detected => \A k \in 1..n : ~Worker!Audible(h, k)
            /\ r.detected =>
                   /\ \E k \in 1..n : Worker!Audible(h, k)
                   /\ \A k \in 1..n : Worker!Audible(h, k) => Anew(h, s) \/ s + Keep < k
    BY <1>0 DEF Standing
  <1>3. r.detected <=> \E k \in DOMAIN h : Worker!Audible(h, k)
    BY <1>1, <1>2
  <1>4. s = Len(h) - Len(r.frames) /\ \A i \in (s + 1)..Len(h) : h[i].kind # "broken"
    BY <1>2 DEF Since
  <1>5. r.frames = Worker!Latest(Worker!Names(h), Len(r.frames))
    <2>0. PICK t \in Seq(Nat), m \in Nat : t = r.frames /\ m = Len(t)
      BY <1>1
    <2>1. m <= n /\ \A i \in 1..m : t[i] = h[n - m + i].frame
      BY <1>0, <1>2, <2>0 DEF Since, Ends
    <2>2. PICK e : e = Worker!Names(h)
      OBVIOUS
    <2>3. e = [i \in 1..n |-> h[i].frame] /\ \A i \in 1..n : h[i].frame \in Nat
      <3>1. \A i \in 1..n : h[i] \in Frames
        BY <1>0
      <3> QED  BY <1>1, <2>2, <3>1 DEF Worker!Names, Frames
    <2>4. e \in Seq(Nat) /\ Len(e) = n /\ \A i \in 1..n : e[i] = h[i].frame
      BY <2>3
    <2>5. Ends(e, h)
      <3>1. \A i \in 1..n : n - n + i = i
        OBVIOUS
      <3> QED  BY <1>0, <2>4, <3>1 DEF Ends
    <2>6. PICK l : l = Worker!Latest(e, m)
      OBVIOUS
    <2>7. l \in Seq(Nat) /\ Ends(l, h) /\ Len(l) = IF Len(e) <= m THEN Len(e) ELSE m
      BY <2>4, <2>5, <2>6, EndsLatest
    <2>8. Len(l) = m
      BY <2>1, <2>4, <2>7
    <2>9. \A i \in 1..m : l[i] = h[n - m + i].frame
      BY <1>0, <2>7, <2>8 DEF Ends
    <2>10. Len(t) = Len(l) /\ \A i \in 1..Len(t) : t[i] = l[i]
      BY <2>0, <2>1, <2>8, <2>9
    <2>11. t = l
      BY ONLY t \in Seq(Nat), <2>7, <2>10, SeqEqual
    <2> QED  BY <2>0, <2>2, <2>6, <2>11
  <1>6. ASSUME r.detected
        PROVE  \A k \in DOMAIN h : Worker!Audible(h, k) =>
                   s + Keep < k \/ s = 0 \/ h[s].kind = "broken"
    BY <1>1, <1>2, <1>6 DEF Anew
  <1> QED  BY <1>3, <1>4, <1>5, <1>6 DEF Worker!Rescues

\* What the worker has of a recording is what the reference says of it so far.
Listening(h, v, o, r) ==
    /\ Steady(h, v) /\ Reaches(v.recent, h)
    /\ Worker!ToSet(o) = Worker!Wanted(h) /\ VoicedOnce(h, o) /\ FarBack(h, o, v)
    /\ o = <<>> => Standing(h, r)

LEMMA SilentStart ==
    ASSUME profile \in ProfileType
    PROVE  Listening(<<>>, Worker!Reset, <<>>, Worker!Fresh)
  <1> DEFINE e == <<>>
  <1>1. e \in Seq(Frames) /\ Len(e) = 0 /\ 1..0 = {} /\ DOMAIN e = {} /\ 1..(0 + 1) = {1}
    OBVIOUS
  <1>2. /\ Worker!Reset.recent = <<>> /\ Worker!Reset.onset = 0 /\ ~Worker!Reset.speech
        /\ Worker!Fresh.frames = <<>> /\ Worker!Fresh.active = 0 /\ ~Worker!Fresh.detected
    BY DEF Worker!Reset, Worker!Fresh
  <1>3. profile.onset \in Nat /\ profile.onset > 0 /\ profile.prefill \in Nat
    BY DEF ProfileType
  <1> HIDE DEF e
  <1>4. Steady(e, Worker!Reset)
    <2>1. ~Worker!InSpeech(e, 0)
      BY <1>1 DEF Worker!InSpeech
    <2>2. Worker!Judged(e, 1, 0) = {} /\ Worker!Voice(e, 1, 0) = {}
      BY <1>1 DEF Worker!Judged, Worker!Voice
    <2>3. Counts(e, Worker!Reset, 1)
      BY <1>1, <1>2, <2>2, FS_EmptySet DEF Counts
    <2> QED  BY <1>1, <1>2, <1>3, <2>1, <2>3 DEF Steady
  <1>5. Reaches(e, e)
    BY <1>1, <1>3 DEF Reaches, Ends
  <1>6. Worker!ToSet(e) = {} /\ Worker!Wanted(e) = {}
    BY <1>1 DEF Worker!ToSet, Worker!Wanted
  <1>7. VoicedOnce(e, e) /\ FarBack(e, e, Worker!Reset)
    BY <1>1 DEF VoicedOnce, FarBack
  <1>8. Standing(e, Worker!Fresh)
    <2>1. Since(e, Worker!Fresh.frames, 0) /\ 0 \in 0..Len(e)
      BY <1>1, <1>2, Nothing
    <2>2. 0 - 0 + 1 = 1 /\ 0 <= 0
      OBVIOUS
    <2>3. Row(e, 0)
      BY <1>1, <2>2 DEF Row
    <2> QED  BY <1>1, <1>2, <2>1, <2>3, Sizes DEF Standing, Anew
  <1> QED  BY <1>2, <1>4, <1>5, <1>6, <1>7, <1>8 DEF Listening, e

\* handle_frame keeps it so.
LEMMA FrameHeard ==
    ASSUME profile \in ProfileType, profile.prefill <= profile.hangover + profile.onset,
           vad \in VadType, rescue \in RescueType, out \in Seq(Nat), heard \in Seq(Frames),
           NEW f \in Nat, NEW kind \in Worker!AllKinds, Ordered(heard, f),
           Listening(heard, vad, out, rescue), Worker!HandleFrame(f, kind)
    PROVE  /\ Listening(heard', vad', out', rescue')
           /\ \A b \in Nat : f < b => Ordered(heard', b)
  <1>0. PICK g : g = heard'
    OBVIOUS
  <1>1. /\ g = Append(heard, [frame |-> f, kind |-> kind]) /\ vad' = Worker!Smoothed(f, kind)
        /\ out' = out \o Worker!Passed(f, kind) /\ rescue' = Worker!Rescued(f, kind)
    BY <1>0 DEF Worker!HandleFrame
  <1>2. /\ Longer(heard, g) /\ g[Len(g)] = [frame |-> f, kind |-> kind]
        /\ g \in Seq(Frames) /\ Len(g) \in Nat
    <2>1. [frame |-> f, kind |-> kind] \in Frames
      BY DEF Frames
    <2>2. Longer(heard, g) /\ g[Len(heard) + 1] = [frame |-> f, kind |-> kind]
      BY <1>1, <2>1, Grows
    <2> QED  BY <2>2, Newer
  <1>3. g[Len(g)].frame = f /\ g[Len(g)].kind = kind
    BY <1>2
  <1>4. /\ Steady(g, vad')
        /\ Worker!Opens(g, Len(g)) <=> Worker!Begins(kind)
        /\ kind # "error" =>
               (Worker!InSpeech(g, Len(g)) <=> Worker!Begins(kind) \/ Worker!GoesOn(kind))
    BY <1>1, <1>2, <1>3, Deciding DEF Listening
  <1>5. Reaches(vad'.recent, g)
    <2>1. vad'.recent = Worker!Recent(f)
      BY <1>1 DEF Worker!Smoothed, VadType
    <2> QED  BY <1>2, <1>3, <2>1, Reaching DEF Listening
  <1>6. PICK p : p = Worker!Passed(f, kind)
    OBVIOUS
  <1>7. /\ p \in Seq(Nat) /\ Ends(p, g) /\ (Worker!Begins(kind) => Reaches(p, g))
        /\ ~Worker!Begins(kind) => Len(p) = IF Worker!GoesOn(kind) \/ kind = "error" THEN 1 ELSE 0
    BY <1>2, <1>3, <1>6, Passing DEF Listening
  <1>8. Worker!ToSet(out') = Worker!Wanted(g)
    <2>1. "error" \notin Worker!Voiced
      BY DEF Worker!Voiced
    <2>2. Worker!Begins(kind) => kind # "error"
      BY <2>1 DEF Worker!Begins
    <2>3. Worker!Wanted(g) = Worker!Wanted(heard) \cup Worker!ToSet(p)
      BY <1>2, <1>3, <1>4, <1>7, <2>2, Wanting
    <2>4. Worker!ToSet(out') = Worker!ToSet(out) \cup Worker!ToSet(p)
      BY <1>1, <1>6, <1>7, Joined
    <2> QED  BY <2>3, <2>4 DEF Listening
  <1>9. VoicedOnce(g, out') /\ FarBack(g, out', vad')
    BY <1>1, <1>2, <1>3, PassedOnce DEF Listening
  <1>10. ASSUME out' = <<>> PROVE Standing(g, rescue')
    <2>1. p = <<>> /\ out = <<>>
      <3>1. out \o p = <<>>
        BY <1>1, <1>6, <1>10
      <3> QED  BY ONLY out \in Seq(Nat), <1>7, <3>1, ConcatEqualIffEmpty
    <2>2. rescue' = Worker!PushRescue(f, kind)
      BY <1>1, <1>6, <2>1 DEF Worker!Rescued
    <2> QED  BY <1>2, <1>3, <2>1, <2>2, Pushing DEF Listening
  <1>11. \A b \in Nat : f < b => Ordered(g, b)
    BY <1>2, <1>3, Apart
  <1> QED  BY <1>0, <1>4, <1>5, <1>8, <1>9, <1>10, <1>11 DEF Listening

\* What is handed over is then what the reference asks for.
LEMMA Handed ==
    ASSUME out \in Seq(Nat), heard \in Seq(Frames), rescue \in RescueType,
           Listening(heard, vad, out, rescue)
    PROVE  Worker!Faithful(heard, Worker!Finalized)
  <1>1. Worker!ToSet(out) = {} <=> out = <<>>
    <2>1. out # <<>> => 1 \in DOMAIN out
      BY EmptySeq
    <2>2. DOMAIN <<>> = {}
      OBVIOUS
    <2> QED  BY <2>1, <2>2 DEF Worker!ToSet
  <1>2. CASE out # <<>>
    <2>1. Worker!Finalized = out /\ Worker!Wanted(heard) # {}
      BY <1>1, <1>2 DEF Worker!Finalized, Listening
    <2>2. DOMAIN heard = 1..Len(heard) /\ DOMAIN out = 1..Len(out)
      OBVIOUS
    <2> QED  BY <2>1, <2>2 DEF Worker!Faithful, Listening, VoicedOnce
  <1>3. CASE out = <<>>
    <2>1. Worker!Wanted(heard) = {}
      BY <1>1, <1>3 DEF Listening
    <2>2. /\ rescue.detected <=> \E k \in DOMAIN heard : Worker!Audible(heard, k)
          /\ rescue.detected => Worker!Rescues(heard, rescue.frames)
      BY <1>3, Standby DEF Listening
    <2>3. Worker!Finalized = IF rescue.detected THEN rescue.frames ELSE <<>>
      BY <1>3 DEF Worker!Finalized
    <2> QED  BY <2>1, <2>2, <2>3 DEF Worker!Faithful
  <1> QED  BY <1>2, <1>3

-----------------------------------------------------------------------------
(* While a recording is on, or being stopped, the detector has been reset  *)
(* at its start and its frames come in the order of their samples.         *)

On == recording \/ worker \in {"drain", "finish"}

Tuned ==
    /\ On => Listening(heard, vad, out, rescue)
    /\ ~On => heard = <<>>
    /\ Ordered(heard, Worker!NextFrame)

LEMMA Rigid ==
    ASSUME profile' = profile
    PROVE  /\ Listening(heard, vad, out, rescue)' <=> Listening(heard', vad', out', rescue')
           /\ Ordered(heard, Worker!NextFrame)' <=> Ordered(heard', Worker!NextFrame')
  BY DEF Listening, Steady, Counts, Lingers, Reaches, Ends, VoicedOnce, FarBack, Standing,
         Since, Row, Anew, Ordered, Worker!InSpeech, Worker!Complete, Worker!Lasts,
         Worker!Opens, Worker!Wants, Worker!Wanted, Worker!Judged, Worker!Voice,
         Worker!Audible, Worker!ToSet

LEMMA Unheard ==
    ASSUME heard' = <<>>, ~On'
    PROVE  Tuned'
  <1>1. Len(<<>>) = 0 /\ 1..0 = {}
    OBVIOUS
  <1>2. heard' = <<>> => Ordered(heard, Worker!NextFrame)'
    BY <1>1 DEF Ordered
  <1> QED  BY <1>2 DEF Tuned

LEMMA SameTune ==
    ASSUME Tuned, UNCHANGED <<profile, vad, out, rescue, heard>>, On' <=> On,
           Worker!NextFrame' = Worker!NextFrame \/ ~On
    PROVE  Tuned'
  <1>1. CASE ~On
    BY <1>1, Unheard DEF Tuned
  <1>2. CASE On
    <2>1. Listening(heard', vad', out', rescue') /\ Ordered(heard', Worker!NextFrame')
      BY <1>2 DEF Tuned
    <2> QED  BY <1>2, <2>1, Rigid DEF Tuned
  <1> QED  BY <1>1, <1>2

LEMMA TuneFrame ==
    ASSUME CaptureInv, Tuned, On, On', profile' = profile,
           NEW kind \in Kinds, Worker!HandleFrame(Worker!NextFrame, kind),
           Worker!NextFrame' > Worker!NextFrame, Worker!NextFrame' \in Nat
    PROVE  Tuned'
  <1>1. /\ vad \in VadType /\ rescue \in RescueType /\ out \in Seq(Nat) /\ heard \in Seq(Frames)
        /\ taken \in Nat /\ carried \in Nat /\ carried <= taken
    BY DEF CaptureInv, Sounding, Counted, Frames
  <1>2. /\ profile \in ProfileType /\ profile.prefill <= profile.hangover + profile.onset
        /\ kind \in Worker!AllKinds
    BY WorkerAssumption DEF CaptureInv, Placed, Worker!RecorderAssumption, ProfileType
  <1>3. Worker!NextFrame \in Nat
    BY <1>1 DEF Worker!NextFrame
  <1>4. Listening(heard, vad, out, rescue) /\ Ordered(heard, Worker!NextFrame)
    BY DEF Tuned
  <1>5. /\ Listening(heard', vad', out', rescue')
        /\ \A b \in Nat : Worker!NextFrame < b => Ordered(heard', b)
    BY <1>1, <1>2, <1>3, <1>4, FrameHeard
  <1>6. Ordered(heard', Worker!NextFrame')
    BY <1>3, <1>5
  <1> QED  BY <1>5, <1>6, Rigid DEF Tuned

LEMMA TuneWork ==
    ASSUME CaptureInv, Tuned, Worker!Work
    PROVE  Tuned'
  <1>0. profile' = profile /\ profile \in ProfileType
    BY Numbers DEF Worker!Work, CaptureInv, Placed, ProfileType
  <1>1. /\ taken \in Nat /\ carried \in Nat /\ carried <= taken
        /\ worker \in {"none", "dead", "drain", "finish"} => ~recording
    BY DEF CaptureInv, Counted, Sounding, Owned
  <1>2. CASE Worker!HearChunk
    BY <1>0, <1>1, <1>2, Numbers, SameTune
       DEF Worker!HearChunk, Worker!Receive, Worker!At, Worker!Go, Worker!sound, On,
           Worker!NextFrame
  <1>3. CASE Worker!Disconnected
    BY <1>3, Unheard DEF Worker!Disconnected, Worker!Return, On
  <1>4. CASE Worker!Frame
    <2>1. /\ worker \in {"feed", "drain"} /\ worker' = worker /\ recording' = recording
          /\ carried >= FrameSize /\ carried' = carried - FrameSize /\ taken' = taken
      BY <1>4 DEF Worker!Frame
    <2>2. /\ On <=> recording \/ worker = "drain"
          /\ On' <=> On
      BY <2>1 DEF On
    <2>3. CASE On
      <3>1. PICK kind \in Kinds : Worker!HandleFrame(Worker!NextFrame, kind)
        BY <1>4, <2>2, <2>3 DEF Worker!Frame, Worker!At
      <3>2. Worker!NextFrame' > Worker!NextFrame /\ Worker!NextFrame' \in Nat
        BY <1>1, <2>1, Numbers DEF Worker!NextFrame
      <3> QED  BY <1>0, <2>2, <2>3, <3>1, <3>2, TuneFrame
    <2>4. CASE ~On
      <3>1. UNCHANGED Worker!sound
        BY <1>4, <2>2, <2>4 DEF Worker!Frame, Worker!At
      <3> QED  BY <1>0, <2>2, <2>4, <3>1, SameTune DEF Worker!sound
    <2> QED  BY <2>3, <2>4
  <1>5. CASE Worker!Report \/ Worker!Obeyed \/ Worker!ObeySnapshot
    <2>1. /\ worker \notin {"drain", "finish"} /\ worker' \notin {"drain", "finish"}
          /\ UNCHANGED <<taken, carried, recording, vad, out, rescue, heard>>
      BY <1>5 DEF Worker!Report, Worker!Obeyed, Worker!ObeySnapshot, Worker!Takes, Worker!At,
                  Worker!Go, Worker!sound, Worker!feed
    <2>2. (On' <=> On) /\ Worker!NextFrame' = Worker!NextFrame
      BY <2>1 DEF On, Worker!NextFrame
    <2> QED  BY <1>0, <2>1, <2>2, SameTune
  <1>6. CASE Worker!ObeyStart
    <2>1. /\ recording' /\ vad' = Worker!Reset /\ out' = <<>> /\ rescue' = Worker!Fresh
          /\ heard' = <<>>
      BY <1>6 DEF Worker!ObeyStart
    <2>2. Listening(heard', vad', out', rescue')
      BY <1>0, <2>1, SilentStart
    <2>3. Ordered(heard', Worker!NextFrame')
      <3>1. Len(<<>>) = 0 /\ 1..0 = {}
        OBVIOUS
      <3> QED  BY <2>1, <3>1 DEF Ordered
    <2>4. On'
      BY <2>1 DEF On
    <2> QED  BY <1>0, <2>2, <2>3, <2>4, Rigid DEF Tuned
  <1>7. CASE Worker!ObeyStop
    <2>1. /\ worker' = "drain" /\ inbox # <<>> /\ Head(inbox) = "Stop"
          /\ inbox' = Tail(inbox) /\ worker = "obey"
          /\ UNCHANGED <<taken, carried, vad, out, rescue, heard>>
      BY <1>7 DEF Worker!ObeyStop, Worker!Takes, Worker!At, Worker!Go, Worker!sound,
                  Worker!feed
    <2>2. Len(inbox) = 1 /\ \A i \in 1..Len(inbox) : inbox[i] = "Stop"
      BY <2>1, Waiting
    <2>3. recording
      BY <2>1, <2>2 DEF CaptureInv, Begun
    <2>4. (On' <=> On) /\ Worker!NextFrame' = Worker!NextFrame
      BY <2>1, <2>3 DEF On, Worker!NextFrame
    <2> QED  BY <1>0, <2>1, <2>4, SameTune
  <1>8. CASE Worker!ObeyShutdown
    BY <1>8, Unheard DEF Worker!ObeyShutdown, Worker!Return, Worker!Go, On
  <1>9. CASE Worker!Drain
    <2>1. /\ worker = "drain" /\ worker' = worker /\ recording' = recording
          /\ taken' = taken + ChunkSize /\ carried' = carried + ChunkSize
          /\ UNCHANGED <<vad, out, rescue, heard>>
      BY <1>9 DEF Worker!Drain, Worker!At, Worker!Receive, Worker!sound
    <2>2. (On' <=> On) /\ Worker!NextFrame' = Worker!NextFrame
      BY <1>1, <2>1, Numbers DEF On, Worker!NextFrame
    <2> QED  BY <1>0, <2>1, <2>2, SameTune
  <1>10. CASE Worker!Finish
    <2>1. /\ worker = "drain" /\ worker' = "finish" /\ carried' = 0 /\ taken' = taken
          /\ recording' = recording
      BY <1>10 DEF Worker!Finish, Worker!At, Worker!Go
    <2>2. On /\ On'
      BY <2>1 DEF On
    <2>3. CASE carried > 0
      <3>1. PICK kind \in Kinds : Worker!HandleFrame(Worker!NextFrame, kind)
        BY <1>10, <2>3 DEF Worker!Finish
      <3>2. Worker!NextFrame' > Worker!NextFrame /\ Worker!NextFrame' \in Nat
        BY <1>1, <2>1, <2>3 DEF Worker!NextFrame
      <3> QED  BY <1>0, <2>2, <3>1, <3>2, TuneFrame
    <2>4. CASE ~(carried > 0)
      <3>1. UNCHANGED Worker!sound
        BY <1>10, <2>4 DEF Worker!Finish
      <3>2. Worker!NextFrame' = Worker!NextFrame
        BY <1>1, <2>1, <2>4 DEF Worker!NextFrame
      <3> QED  BY <1>0, <2>2, <3>1, <3>2, SameTune DEF Worker!sound
    <2> QED  BY <2>3, <2>4
  <1>11. CASE Worker!Finalize
    <2>1. worker = "finish" /\ worker' = "obey" /\ recording' = recording /\ heard' = <<>>
      BY <1>11 DEF Worker!Finalize, Worker!At, Worker!Go
    <2>2. ~On'
      BY <1>1, <2>1 DEF On
    <2> QED  BY <2>1, <2>2, Unheard
  <1> QED  BY <1>2, <1>3, <1>4, <1>5, <1>6, <1>7, <1>8, <1>9, <1>10, <1>11 DEF Worker!Work

LEMMA TuneStep ==
    ASSUME CaptureInv, Tuned, [Worker!Next]_(Worker!vars)
    PROVE  Tuned'
  <1>1. CASE Worker!Work
    BY <1>1, TuneWork
  <1>2. CASE (Worker!User \/ Worker!Capture \/ Worker!StreamFails) /\ UNCHANGED profile
    <2>1. /\ worker \in {"none", "dead", "drain", "finish"} => ~recording
          /\ worker \in {"drain", "finish"} => caller = "Stop"
      BY DEF CaptureInv, Sounding, Owned, Commanded
    <2>2. CASE Worker!Open \/ Worker!CloseDead
      <3>1. /\ worker \in {"none", "dead"} /\ worker' \in {"none", "hear"}
            /\ UNCHANGED <<recording, vad, out, rescue, heard>>
        BY <2>2 DEF Worker!Open, Worker!CloseDead, Worker!sound
      <3>2. ~On /\ (On' <=> On)
        BY <2>1, <3>1 DEF On
      <3> QED  BY <1>2, <3>1, <3>2, SameTune
    <2>3. CASE \/ Worker!Start \/ Worker!Stop \/ Worker!Snapshot \/ Worker!Close
               \/ Worker!Capture \/ Worker!StreamFails
      <3>1. UNCHANGED <<worker, recording, taken, carried, vad, out, rescue, heard>>
        BY <2>3 DEF Worker!Start, Worker!Stop, Worker!Snapshot, Worker!Close, Worker!Ask,
                    Worker!Capture, Worker!StreamFails, Worker!sound, Worker!feed
      <3>2. (On' <=> On) /\ Worker!NextFrame' = Worker!NextFrame
        BY <3>1 DEF On, Worker!NextFrame
      <3> QED  BY <1>2, <3>1, <3>2, SameTune
    <2> QED  BY <1>2, <2>2, <2>3 DEF Worker!User
  <1>3. CASE UNCHANGED Worker!vars
    <2>1. UNCHANGED <<profile, worker, recording, taken, carried, vad, out, rescue, heard>>
      BY <1>3 DEF Worker!vars, Worker!sound, Worker!feed
    <2>2. (On' <=> On) /\ Worker!NextFrame' = Worker!NextFrame
      BY <2>1 DEF On, Worker!NextFrame
    <2> QED  BY <2>1, <2>2, SameTune
  <1> QED  BY <1>1, <1>2, <1>3 DEF Worker!Next

\* While a recording is on, what the worker holds back, has counted and has
\* handed over is what the reference says of the sounds so far (run_consumer,
\* SmoothedVad and VadFallbackAudio), for any profile and any sequence of them.
THEOREM TunedAlways == Worker!Spec => []Tuned
  <1>1. Worker!Init => Tuned
    <2> SUFFICES ASSUME Worker!Init PROVE Tuned
      OBVIOUS
    <2>1. heard = <<>> /\ ~recording /\ worker = "none"
      BY DEF Worker!Init
    <2>2. Len(<<>>) = 0 /\ 1..0 = {}
      OBVIOUS
    <2>3. heard = <<>> => Ordered(heard, Worker!NextFrame)
      BY <2>2 DEF Ordered
    <2> QED  BY <2>1, <2>3 DEF Tuned, On
  <1>2. CaptureInv /\ Tuned /\ [Worker!Next]_(Worker!vars) => Tuned'
    BY TuneStep
  <1> QED  BY <1>1, <1>2, CaptureInvariance, PTL DEF Worker!Spec

\* run_consumer hands over, on a stop, every frame of speech with the frames
\* around it and no other, no voice twice, and when SmoothedVad lets nothing
\* through, the audible audio it missed: for any profile and any sequence of
\* sounds.
THEOREM SpeechHandedOverAlways == CaptureSpec => SpeechHandedOver
  <1>1. CaptureInv /\ Tuned /\ worker = "finish" => Worker!Faithful(heard, Worker!Finalized)
    <2> SUFFICES ASSUME CaptureInv, Tuned, worker = "finish"
                 PROVE  Worker!Faithful(heard, Worker!Finalized)
      OBVIOUS
    <2>1. /\ rescue \in RescueType /\ out \in Seq(Nat) /\ heard \in Seq(Frames)
      BY DEF CaptureInv, Sounding, Frames
    <2>2. Listening(heard, vad, out, rescue)
      BY DEF Tuned, On
    <2> QED  BY <2>1, <2>2, Handed
  <1>2. CaptureInv /\ Tuned /\ [Worker!Next]_(Worker!vars)
        => [worker = "finish" /\ worker' = "obey"
                => Worker!Faithful(heard, Worker!Finalized)]_(Worker!vars)
    BY <1>1
  <1>3. Worker!Spec => Worker!SpeechHandedOver
    BY <1>2, CaptureInvariance, TunedAlways, PTL DEF Worker!Spec, Worker!SpeechHandedOver
  <1> QED  BY <1>3, CaptureRuns, PTL DEF SpeechHandedOver
=============================================================================
