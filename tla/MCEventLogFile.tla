--------------------------- MODULE MCEventLogFile ----------------------------
(* The instance of EventLogFile for TLC.                                     *)
EXTENDS EventLogFile
==============================================================================
