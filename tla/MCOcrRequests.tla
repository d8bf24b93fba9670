--------------------------- MODULE MCOcrRequests ----------------------------
(* An instance of OcrRequests for TLC. *)
EXTENDS OcrRequests

CONSTANTS A, B
TwoModels == {A, B}
=============================================================================
