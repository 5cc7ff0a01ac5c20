----------------------------- MODULE MCStreams ------------------------------
(* A finite instance of Streams for TLC. *)
EXTENDS Streams

CONSTANTS recorder, viewer
=============================================================================
