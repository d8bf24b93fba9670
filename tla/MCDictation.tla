---------------------------- MODULE MCDictation ----------------------------
(* Dictation with small constants for TLC.                                 *)
EXTENDS Dictation, TLC

CONSTANTS transcribe, rewrite

\* transcribe is the adaptive binding, rewrite the explicit one.
MCBindings  == {transcribe, rewrite}
MCRewriting == {rewrite}

\* Signals and toggle mode send presses only.
MCToggle == [binding : MCBindings, pressed : {TRUE}, ptt : {FALSE}]

\* Push-to-talk on one binding: presses and releases.
MCPushToTalk == [binding : {transcribe}, pressed : BOOLEAN, ptt : {TRUE}]
=============================================================================
