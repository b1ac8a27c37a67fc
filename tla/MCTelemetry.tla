---------------------------- MODULE MCTelemetry ----------------------------
(* One order with up to three events, a report and a night, and signals.     *)
EXTENDS Telemetry
CONSTANT o1
=============================================================================
