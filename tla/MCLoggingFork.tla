---------------------------- MODULE MCLoggingFork ----------------------------
(* The outputs of MCLogging, written through a subtask's fork whose parent *)
(* context may end at any point.                                           *)
EXTENDS LoggingFork, MCLogging
=============================================================================
