----------------------------- MODULE MCMonitor -----------------------------
(* Monitor with four packets: over both directions and up to four           *)
(* intervals.                                                               *)
EXTENDS Monitor
=============================================================================
