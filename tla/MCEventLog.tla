----------------------------- MODULE MCEventLog -----------------------------
(***************************************************************************)
(* Small instances of EventLog: one logger with three events, and two      *)
(* loggers on one file.                                                    *)
(***************************************************************************)
EXTENDS EventLog
=============================================================================
