----------------------------- MODULE MCJobControl -----------------------------
(* Instances of JobControl for TLC.                                          *)
EXTENDS JobControl
==============================================================================
