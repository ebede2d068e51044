---------------------------- MODULE MCVideoLink ----------------------------
(* VideoLink with packets of four bytes: units that fill a packet, units    *)
(* one byte larger (two full fragments) and units that end in a short       *)
(* fragment; key frames whose slice is fragmented and whose slice is not.   *)
EXTENDS VideoLink

Param == [kind |-> "param", size |-> 3, startcode |-> "long"]
Idr(size) == [kind |-> "idr", size |-> size, startcode |-> "short"]
Delta(size) == [kind |-> "delta", size |-> size, startcode |-> "long"]

MCAccessUnits ==
  {<<Param, Idr(6)>>, <<Param, Idr(4)>>, <<Delta(4)>>, <<Delta(5)>>}
=============================================================================
