-------------------------- MODULE MCSatelliteMain --------------------------
(* SatelliteMain with a few frames: two after g_running is cleared would    *)
(* already be one too many.                                                 *)
EXTENDS SatelliteMain
=============================================================================
