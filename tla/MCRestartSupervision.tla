------------------------- MODULE MCRestartSupervision -------------------------
(***************************************************************************)
(* RestartSupervision for TLC.  A clock unit stands for 150 s.             *)
(***************************************************************************)
EXTENDS RestartSupervision
=============================================================================
