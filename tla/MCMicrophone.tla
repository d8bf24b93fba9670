---------------------------- MODULE MCMicrophone ----------------------------
(* Microphone with one failure thread or none for TLC.                     *)
EXTENDS Microphone, TLC

CONSTANT f1

MCFailers == {f1}
NoFailers == {}

AllCommands == CommandNames

BothModes    == Modes
AlwaysOnOnly == {"AlwaysOn"}
=============================================================================
