---------------------------- MODULE MCQueuedDriver ----------------------------
(* Constants for checking QueuedDriver with TLC. *)
EXTENDS QueuedDriver

CONSTANTS f1, f2, d1, d2
==============================================================================
