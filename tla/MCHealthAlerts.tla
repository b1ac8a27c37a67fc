--------------------------- MODULE MCHealthAlerts ---------------------------
(***************************************************************************)
(* HealthAlerts for TLC.  A clock unit stands for the time between polls.  *)
(* One text is what two alerts of the same minute, reason and conditions   *)
(* have, and a queue of one notice is full when a second one comes.  Two   *)
(* identities of threads show a second thread beside the first.            *)
(***************************************************************************)
EXTENDS HealthAlerts
=============================================================================
