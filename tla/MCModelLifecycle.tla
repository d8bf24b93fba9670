-------------------------- MODULE MCModelLifecycle --------------------------
(* Instances of ModelLifecycle for TLC. *)
EXTENDS ModelLifecycle

CONSTANTS A, B, L1, L2

\* Two models, one of them with a realtime session; two loader threads.
TwoModels   == {A, B}
OneRealtime == {B}
TwoLoaders  == {L1, L2}
=============================================================================
