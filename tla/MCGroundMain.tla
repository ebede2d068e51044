---------------------------- MODULE MCGroundMain ----------------------------
(* GroundMain with a socket that holds two packets: a poll that goes on     *)
(* after a picture, and one that never finds the socket empty.              *)
EXTENDS GroundMain
=============================================================================
