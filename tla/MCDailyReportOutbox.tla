------------------------ MODULE MCDailyReportOutbox ------------------------
(***************************************************************************)
(* DailyReportOutbox for TLC.  A clock unit stands for publish_timeout_sec *)
(* (20 s) and a lease lasts two, the factor in _publish_report.  Two       *)
(* workers are what a race takes: one whose attempt is late, and the one   *)
(* that reclaimed it.  The workers are symmetric.                          *)
(***************************************************************************)
EXTENDS DailyReportOutbox, MCDailyReportContent, TLC

WorkerSymmetry == Permutations(Workers)
=============================================================================
