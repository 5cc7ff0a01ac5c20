----------------------------- MODULE MCWatcher ------------------------------
(* A finite instance of WatcherFeed for TLC. *)
EXTENDS WatcherFeed

CONSTANT s1
=============================================================================
