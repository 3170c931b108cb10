---------------------------- MODULE MCAudioTrack ----------------------------
(* The instance of AudioTrack that TLC checks; values in MCAudioTrack.cfg. *)
EXTENDS AudioTrack
=============================================================================
