-------------------------- MODULE MCPictureReading --------------------------
(***************************************************************************)
(* PictureReading on a small instance: taps that overlap, as often as they *)
(* come, two attempts at most, one retry, and faults anywhere.             *)
(***************************************************************************)
EXTENDS PictureReading
=============================================================================
