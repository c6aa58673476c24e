----------------------------- MODULE MCRecorder -----------------------------
(* Values of constants for TLC. *)
EXTENDS Recorder

NoPitchOrTwo == {Unpitched, 30, 80}
AnyFiles == SUBSET {"speech", "music"}
AllFiles == {{"speech", "music"}}
=============================================================================
