--------------------------- MODULE MCBeatSchedule ---------------------------
(***************************************************************************)
(* Instances of BeatSchedule for TLC.                                      *)
(***************************************************************************)
EXTENDS BeatSchedule

=============================================================================
