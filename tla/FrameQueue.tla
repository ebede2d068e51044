----------------------------- MODULE FrameQueue -----------------------------
(***************************************************************************)
(* What satellite/ringbuffer.c promises the rest of BFG-I, without slots,  *)
(* indices or threads: a bounded first-in first-out queue of whole frames. *)
(* The DOOM thread offers a frame and is never made to wait: the frame is  *)
(* queued if there is room and lost otherwise.  The encoder thread takes   *)
(* the oldest frame.  Queued frames are numbered consecutively modulo      *)
(* CounterMod; a lost frame uses up no number.                             *)
(***************************************************************************)
EXTENDS Naturals, Sequences

CONSTANTS
  Capacity,    \* frames the queue holds at most
  CounterMod,  \* frame numbers are counted modulo this
  Image        \* the images a frame may carry

VARIABLES
  queue,      \* frames accepted and not yet taken, oldest first
  count,      \* how many frames were ever accepted
  lost,       \* how many frames were refused
  delivered   \* the frames taken, in the order they were taken

qvars == <<queue, count, lost, delivered>>

QueueInit ==
  /\ queue = <<>>
  /\ count = 0
  /\ lost = 0
  /\ delivered = <<>>

\* A frame is accepted: it gets the next number and goes to the back.
Put(image) ==
  /\ Len(queue) < Capacity
  /\ queue' = Append(queue, [data |-> image, number |-> count % CounterMod])
  /\ count' = count + 1
  /\ UNCHANGED <<lost, delivered>>

\* A frame is refused, which is allowed only when the queue is full.
Lose ==
  /\ Len(queue) = Capacity
  /\ lost' = lost + 1
  /\ UNCHANGED <<queue, count, delivered>>

\* The oldest frame is taken.
Get ==
  /\ queue # <<>>
  /\ delivered' = Append(delivered, Head(queue))
  /\ queue' = Tail(queue)
  /\ UNCHANGED <<count, lost>>

QueueNext ==
  \/ \E image \in Image : Put(image)
  \/ Lose
  \/ Get

QueueSpec == QueueInit /\ [][QueueNext]_qvars
=============================================================================
