------------------------------ MODULE MCUplink ------------------------------
(* Uplink with two keys, one or two weapons and queues that a few packets   *)
(* fill.                                                                    *)
EXTENDS Uplink
=============================================================================
