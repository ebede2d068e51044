---------------------------- MODULE MCInputLink ----------------------------
(* InputLink with two keys, a few changes of the keyboard, two packets on    *)
(* the way at a time, and queues that these changes cannot fill.            *)
EXTENDS InputLink
=============================================================================
