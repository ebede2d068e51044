------------------------------ MODULE NalPipe ------------------------------
(***************************************************************************)
(* What the video path promises the rest of BFG-I while the link is sound, *)
(* without packets, fragments or sequence numbers: NAL units go in frame by *)
(* frame and come out one by one, each whole, once and in order.  Units of *)
(* the kind that the receiver ignores are never in the pipe.  Once the link *)
(* has failed in any way nothing is promised any more.                     *)
(***************************************************************************)
EXTENDS Naturals, Sequences

VARIABLES
  pipe,    \* units put in and not yet taken out, oldest first
  taken,   \* units taken out, in order
  sound    \* nothing has gone wrong so far

pipevars == <<pipe, taken, sound>>

PipeInit ==
  /\ pipe = <<>>
  /\ taken = <<>>
  /\ sound = TRUE

\* Units of a frame go in at the back, those of them that get through at all.
Put ==
  /\ sound
  /\ Len(pipe') >= Len(pipe) /\ SubSeq(pipe', 1, Len(pipe)) = pipe
  /\ UNCHANGED <<taken, sound>>

\* The oldest unit comes out.
Take ==
  /\ sound /\ pipe # <<>>
  /\ taken' = Append(taken, Head(pipe))
  /\ pipe' = Tail(pipe)
  /\ UNCHANGED sound

\* The link fails.
Fail ==
  /\ sound
  /\ pipe' = <<>> /\ taken' = <<>>
  /\ sound' = FALSE

PipeNext == Put \/ Take \/ Fail

PipeSpec == PipeInit /\ [][PipeNext]_pipevars
=============================================================================
