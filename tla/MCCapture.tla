----------------------------- MODULE MCCapture ------------------------------
(***************************************************************************)
(* The two sides of a capture: the manager's calls (Microphone) and the    *)
(* worker they reach (Recorder).  Microphone has the effect of a call on   *)
(* the worker, Recorder the calls in any order a manager may make them.    *)
(* For TLC the initial state chooses the side whose steps are taken.       *)
(***************************************************************************)
EXTENDS Microphone

CONSTANTS Kinds, ChunkSize, FrameSize, Profiles, MinActive, Keep, Compact, Drops,
          MaxRare, MaxChunks, MaxRequests

VARIABLES focus, profile, caller, inbox, worker, captured, taken, carried, device,
          fault, recording, vad, out, rescue, begun, requests, heard, sealed, tail

Worker == INSTANCE Recorder

ASSUME WorkerAssumption == Worker!RecorderAssumption

\* The numbers of the two acoustic profiles, smaller: "normal" asks for two
\* frames of voice, "quiet" for one and reaches further back.
Normal == [prefill |-> 1, hangover |-> 1, onset |-> 2]
Quiet  == [prefill |-> 2, hangover |-> 1, onset |-> 1]

BothProfiles == {Normal, Quiet}

capture == <<profile, caller, inbox, worker, captured, taken, carried, device, fault,
             recording, vad, out, rescue, begun, requests, heard, sealed, tail>>
all     == <<vars, capture, focus>>

CaptureInit == focus \in {"manager", "worker"} /\ Init /\ Worker!Init

ManagerStep(A) == focus = "manager" /\ A /\ UNCHANGED <<focus, capture>>
WorkerStep(A)  == focus = "worker" /\ A /\ UNCHANGED <<focus, vars>>

CaptureSpec ==
    /\ CaptureInit
    /\ [][ManagerStep(Next) \/ WorkerStep(Worker!Next)]_all
    /\ \A t \in Threads : WF_all(ManagerStep(Step(t)))
    /\ WF_all(WorkerStep(Worker!Work))

-----------------------------------------------------------------------------
(* What is checked of the worker, named here for the configuration *)

\* A stop hands over audio of its own recording, all that had come when it
\* was called.
OwnAudio == Worker!OwnAudio

\* All of the speech with the frames around it, and nothing else.
SpeechHandedOver == Worker!SpeechHandedOver

\* A stream that delivers nothing wedges neither calls nor the news of it.
Responsive == Worker!Responsive
=============================================================================
