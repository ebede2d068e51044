----------------------------- MODULE RingBuffer -----------------------------
(***************************************************************************)
(* satellite/ringbuffer.c: the lock-free ring of frame slots between the   *)
(* DOOM thread, which writes every rendered frame (I_FinishUpdate), and    *)
(* the encoder thread, which polls for the next one.  Each access to a     *)
(* variable that both threads use is a step of its own, and a frame is     *)
(* copied in Parts steps, so that two threads inside one slot would mix    *)
(* frames.  g_write_index is stored by the DOOM thread only and            *)
(* g_read_index by the encoder thread only: loading one's own index and    *)
(* the compare-and-swap that follows it are one step.                      *)
(***************************************************************************)
EXTENDS Integers, Sequences

CONSTANTS
  N,           \* RING_BUFFER_SIZE
  Parts,       \* steps in which the pixels of a frame are copied
  CounterMod,  \* g_frame_counter is unsigned: it counts modulo this
  Palette,     \* the palettes DOOM may install
  Grayscale,   \* the fallback palette of ringbuffer_init
  MaxCalls     \* bound: frames DOOM renders

ASSUME RingAssumption ==
  /\ N \in Nat \ {0}
  /\ Parts \in Nat \ {0}
  /\ CounterMod \in Nat \ {0}
  /\ Grayscale \in Palette
  /\ MaxCalls \in Nat

Slot == 0 .. N - 1
Part == 0 .. Parts - 1

\* A pixel shows the rendered frame it comes from, in the palette in use
\* when it was converted; an untouched slot holds zeroed memory.
Pixel == [src : 0 .. MaxCalls, pal : Palette]
Whole(src, pal) == [p \in Part |-> [src |-> src, pal |-> pal]]
Zeroed == Whole(0, Grayscale)

\* What one call of ringbuffer_read_frame hands out.
Frame(data, number) == [data |-> data, number |-> number]

VARIABLES
  status, frame_data, frame_number,  \* g_ring_buffer, field by field
  g_write_index, g_read_index,
  g_frame_counter, g_palette_rgb,
  wpc, wpart, calls,                 \* DOOM thread: place, pixels, frame
  rpc, rpart, rbuf, rnum,            \* encoder thread: place and output
  accepted, lost, delivered          \* history: published, dropped, read

indices == <<g_write_index, g_read_index>>
convert == <<g_frame_counter, g_palette_rgb>>
shared == <<status, frame_data, frame_number, indices, convert>>
writer == <<wpc, wpart, calls>>
reader == <<rpc, rpart, rbuf, rnum>>
history == <<accepted, lost, delivered>>
vars == <<shared, writer, reader, history>>

\* The statics are zero before main runs, so the encoder thread may poll
\* the ring before the DOOM thread has called ringbuffer_init.  Nothing is
\* written with the zeroed palette, which is not told apart from the gray.
Init ==
  /\ status = [s \in Slot |-> "EMPTY"]
  /\ frame_data = [s \in Slot |-> Zeroed]
  /\ frame_number = [s \in Slot |-> 0]
  /\ g_write_index = 0 /\ g_read_index = 0
  /\ g_frame_counter = 0 /\ g_palette_rgb = Grayscale
  /\ wpc = "start" /\ wpart = 0 /\ calls = 0
  /\ rpc = "idle" /\ rpart = 0 /\ rbuf = Zeroed /\ rnum = 0
  /\ accepted = <<>> /\ lost = 0 /\ delivered = <<>>

-----------------------------------------------------------------------------
(* The DOOM thread. *)

ringbuffer_init ==
  /\ wpc = "start"
  /\ wpc' = "idle"
  /\ status' = [s \in Slot |-> "EMPTY"]
  /\ frame_number' = [s \in Slot |-> 0]
  /\ g_write_index' = 0 /\ g_read_index' = 0
  /\ g_frame_counter' = 0 /\ g_palette_rgb' = Grayscale
  /\ UNCHANGED <<frame_data, wpart, calls, reader, history>>

ringbuffer_update_palette(pal) ==
  /\ wpc = "idle"
  /\ g_palette_rgb' = pal
  /\ UNCHANGED <<status, frame_data, frame_number, indices, g_frame_counter,
                 writer, reader, history>>

\* Mutant: the frame is written whatever the state of the slot.
WriteAcquireAlways ==
  /\ wpc = "idle" /\ calls < MaxCalls
  /\ status' = [status EXCEPT ![g_write_index] = "WRITING"]
  /\ calls' = calls + 1
  /\ wpart' = 0
  /\ wpc' = "copy"
  /\ UNCHANGED <<frame_data, frame_number, indices, convert, reader, history>>

\* ringbuffer_write_frame is called with the next rendered frame and wins
\* the slot at g_write_index.
WriteAcquire ==
  /\ wpc = "idle" /\ calls < MaxCalls
  /\ status[g_write_index] = "EMPTY"
  /\ status' = [status EXCEPT ![g_write_index] = "WRITING"]
  /\ calls' = calls + 1
  /\ wpart' = 0
  /\ wpc' = "copy"
  /\ UNCHANGED <<frame_data, frame_number, indices, convert, reader, history>>

\* The slot is busy: the rendered frame is dropped and false returned.
WriteDrop ==
  /\ wpc = "idle" /\ calls < MaxCalls
  /\ status[g_write_index] # "EMPTY"
  /\ calls' = calls + 1
  /\ lost' = lost + 1
  /\ UNCHANGED <<wpc, wpart, shared, reader, accepted, delivered>>

WriteCopy ==
  /\ wpc = "copy" /\ wpart < Parts
  /\ frame_data' = [frame_data EXCEPT ![g_write_index] =
                      [@ EXCEPT ![wpart] = [src |-> calls, pal |-> g_palette_rgb]]]
  /\ wpart' = wpart + 1
  /\ UNCHANGED <<wpc, calls, status, frame_number, indices, convert,
                 reader, history>>

\* Mutant: the counter is advanced before it is stored in the slot.
WriteNumberAfter ==
  /\ wpc = "copy" /\ wpart = Parts
  /\ frame_number' = [frame_number EXCEPT ![g_write_index] =
                        (g_frame_counter + 1) % CounterMod]
  /\ g_frame_counter' = (g_frame_counter + 1) % CounterMod
  /\ wpc' = "ready"
  /\ UNCHANGED <<wpart, calls, status, frame_data, indices, g_palette_rgb,
                 reader, history>>

WriteNumber ==
  /\ wpc = "copy" /\ wpart = Parts
  /\ frame_number' = [frame_number EXCEPT ![g_write_index] = g_frame_counter]
  /\ g_frame_counter' = (g_frame_counter + 1) % CounterMod
  /\ wpc' = "ready"
  /\ UNCHANGED <<wpart, calls, status, frame_data, indices, g_palette_rgb,
                 reader, history>>

WriteReady ==
  /\ wpc = "ready"
  /\ status' = [status EXCEPT ![g_write_index] = "READY"]
  /\ accepted' = Append(accepted, Frame(Whole(calls, g_palette_rgb),
                                        Len(accepted) % CounterMod))
  /\ wpc' = "advance"
  /\ UNCHANGED <<wpart, calls, frame_data, frame_number, indices, convert,
                 reader, lost, delivered>>

\* Mutant: the index does not wrap around.
WriteAdvancePast ==
  /\ wpc = "advance"
  /\ g_write_index' = g_write_index + 1
  /\ wpc' = "idle"
  /\ UNCHANGED <<wpart, calls, status, frame_data, frame_number, g_read_index,
                 convert, reader, history>>

WriteAdvance ==
  /\ wpc = "advance"
  /\ g_write_index' = (g_write_index + 1) % N
  /\ wpc' = "idle"
  /\ UNCHANGED <<wpart, calls, status, frame_data, frame_number, g_read_index,
                 convert, reader, history>>

-----------------------------------------------------------------------------
(* The encoder thread: ringbuffer_read_frame, called in a polling loop.  A  *)
(* poll that finds no READY slot returns false and changes nothing.         *)

ReadAcquire ==
  /\ rpc = "idle"
  /\ status[g_read_index] = "READY"
  /\ status' = [status EXCEPT ![g_read_index] = "READING"]
  /\ rpart' = 0
  /\ rpc' = "copy"
  /\ UNCHANGED <<rbuf, rnum, frame_data, frame_number, indices, convert,
                 writer, history>>

ReadCopy ==
  /\ rpc = "copy" /\ rpart < Parts
  /\ rbuf' = [rbuf EXCEPT ![rpart] = frame_data[g_read_index][rpart]]
  /\ rpart' = rpart + 1
  /\ UNCHANGED <<rpc, rnum, shared, writer, history>>

\* Mutant: the slot is given back before its frame number is read.
ReadNumberReleased ==
  /\ rpc = "copy" /\ rpart = Parts
  /\ status' = [status EXCEPT ![g_read_index] = "EMPTY"]
  /\ rnum' = frame_number[g_read_index]
  /\ rpc' = "release"
  /\ UNCHANGED <<rpart, rbuf, frame_data, frame_number, indices, convert,
                 writer, history>>

ReadNumber ==
  /\ rpc = "copy" /\ rpart = Parts
  /\ rnum' = frame_number[g_read_index]
  /\ rpc' = "release"
  /\ UNCHANGED <<rpart, rbuf, shared, writer, history>>

\* Mutant: the slot is handed out and stays READING.
ReadReleaseKeeps ==
  /\ rpc = "release"
  /\ delivered' = Append(delivered, Frame(rbuf, rnum))
  /\ rpc' = "advance"
  /\ UNCHANGED <<rpart, rbuf, rnum, shared, writer, accepted, lost>>

ReadRelease ==
  /\ rpc = "release"
  /\ status' = [status EXCEPT ![g_read_index] = "EMPTY"]
  /\ delivered' = Append(delivered, Frame(rbuf, rnum))
  /\ rpc' = "advance"
  /\ UNCHANGED <<rpart, rbuf, rnum, frame_data, frame_number, indices, convert,
                 writer, accepted, lost>>

\* Mutant: the reader skips a slot.
ReadAdvanceTwo ==
  /\ rpc = "advance"
  /\ g_read_index' = (g_read_index + 2) % N
  /\ rpc' = "idle"
  /\ UNCHANGED <<rpart, rbuf, rnum, status, frame_data, frame_number,
                 g_write_index, convert, writer, history>>

ReadAdvance ==
  /\ rpc = "advance"
  /\ g_read_index' = (g_read_index + 1) % N
  /\ rpc' = "idle"
  /\ UNCHANGED <<rpart, rbuf, rnum, status, frame_data, frame_number,
                 g_write_index, convert, writer, history>>

-----------------------------------------------------------------------------

\* What the DOOM thread does once inside ringbuffer_write_frame.
Writing == WriteCopy \/ WriteNumber \/ WriteReady \/ WriteAdvance

Polling == ReadAcquire \/ ReadCopy \/ ReadNumber \/ ReadRelease \/ ReadAdvance

Next ==
  \/ ringbuffer_init
  \/ \E pal \in Palette : ringbuffer_update_palette(pal)
  \/ WriteAcquire
  \/ WriteDrop
  \/ Writing
  \/ Polling

Spec == Init /\ [][Next]_vars

\* The encoder thread polls as long as the program runs and no step of
\* ringbuffer_write_frame blocks; when DOOM renders is its own affair.
FairSpec == Spec /\ WF_vars(Writing) /\ WF_vars(Polling)

-----------------------------------------------------------------------------
(* Properties. *)

TypeOK ==
  /\ status \in [Slot -> {"EMPTY", "WRITING", "READY", "READING"}]
  /\ frame_data \in [Slot -> [Part -> Pixel]]
  /\ frame_number \in [Slot -> 0 .. CounterMod - 1]
  /\ g_write_index \in Slot /\ g_read_index \in Slot
  /\ g_frame_counter \in 0 .. CounterMod - 1
  /\ g_palette_rgb \in Palette
  /\ wpc \in {"start", "idle", "copy", "ready", "advance"}
  /\ wpart \in 0 .. Parts /\ calls \in 0 .. MaxCalls
  /\ rpc \in {"idle", "copy", "release", "advance"}
  /\ rpart \in 0 .. Parts /\ rbuf \in [Part -> Pixel]
  /\ rnum \in 0 .. CounterMod - 1
  /\ accepted \in Seq([data : [Part -> Pixel], number : 0 .. CounterMod - 1])
  /\ lost \in Nat
  /\ delivered \in Seq([data : [Part -> Pixel], number : 0 .. CounterMod - 1])

\* The two threads are never inside the same slot: between its CAS and its
\* release store a thread owns the pixels it copies (the comments "Status is
\* now WRITING" and "Status is now READING" of the code rely on it).
SlotExclusion ==
  wpc \in {"copy", "ready"} /\ rpc \in {"copy", "release"}
    => g_write_index # g_read_index

\* What the encoder thread has read is exactly an initial part of what DOOM
\* published: whole frames, in one palette each, in order, none lost or
\* repeated after its READY store, numbered consecutively.
ReadInOrder ==
  /\ Len(delivered) <= Len(accepted)
  /\ \A i \in 1 .. Len(delivered) : delivered[i] = accepted[i]

\* A call of ringbuffer_write_frame finds its slot free unless all N slots
\* hold published frames the encoder thread has not yet given back: a frame
\* is never dropped while there is room, whatever step the encoder is at.
DropOnlyWhenFull ==
  wpc = "idle" /\ Len(accepted) - Len(delivered) < N
    => status[g_write_index] = "EMPTY"

\* A poll finds the oldest published frame whenever there is one: the two
\* indices never lose each other, so the encoder does not starve beside a
\* READY slot.
PollFindsFrame ==
  rpc = "idle" /\ Len(delivered) < Len(accepted)
    => status[g_read_index] = "READY"

\* Every frame DOOM published reaches the encoder.
PublishedIsRead ==
  \A i \in 1 .. MaxCalls : Len(accepted) >= i ~> Len(delivered) >= i

-----------------------------------------------------------------------------
(* Why the properties hold.  Number the published frames from 0: frame k    *)
(* lives in slot k % N, the frames Taken .. Published - 1 are in the ring   *)
(* and the slots of Published .. Taken + N - 1 are free, whatever step the  *)
(* two threads are at.                                                      *)

Published == Len(accepted)
Taken == Len(delivered)
SlotOf(k) == k % N

InsideWrite == wpc \in {"copy", "ready"}
InsideRead == rpc \in {"copy", "release"}

\* An index follows its counter, one behind while its store is pending.
IndexInv ==
  /\ Taken <= Published /\ Published <= Taken + N
  /\ InsideWrite => Published < Taken + N
  /\ InsideRead => Taken < Published
  /\ wpc = "advance" => Published > 0
  /\ rpc = "advance" => Taken > 0
  /\ g_write_index = SlotOf(IF wpc = "advance" THEN Published - 1 ELSE Published)
  /\ g_read_index = SlotOf(IF rpc = "advance" THEN Taken - 1 ELSE Taken)

StatusInv ==
  /\ \A k \in Taken .. Published - 1 :
       status[SlotOf(k)] = IF k = Taken /\ InsideRead THEN "READING" ELSE "READY"
  /\ \A k \in Published .. Taken + N - 1 :
       status[SlotOf(k)] = IF k = Published /\ InsideWrite THEN "WRITING" ELSE "EMPTY"

ContentsInv ==
  \A k \in Taken .. Published - 1 :
    accepted[k + 1] = Frame(frame_data[SlotOf(k)], frame_number[SlotOf(k)])

WriterInv ==
  /\ wpc = "start" => Published = 0
  /\ InsideWrite =>
       /\ calls > 0
       /\ \A p \in Part : p < wpart =>
            frame_data[g_write_index][p] = [src |-> calls, pal |-> g_palette_rgb]
  /\ wpc = "ready" =>
       /\ wpart = Parts
       /\ frame_number[g_write_index] = Published % CounterMod
  /\ g_frame_counter =
       (IF wpc = "ready" THEN Published + 1 ELSE Published) % CounterMod

ReaderInv ==
  /\ InsideRead =>
       \A p \in Part : p < rpart => rbuf[p] = frame_data[g_read_index][p]
  /\ rpc = "release" =>
       /\ rpart = Parts
       /\ rnum = frame_number[g_read_index]

IInv ==
  /\ TypeOK
  /\ IndexInv
  /\ StatusInv
  /\ ContentsInv
  /\ WriterInv
  /\ ReaderInv
  /\ ReadInOrder

-----------------------------------------------------------------------------
(* The ring implements the queue of FrameQueue.  The queued frames are the  *)
(* occupied slots, counted from g_read_index; a slot whose frame was read   *)
(* but whose index store is pending is no longer in the queue.              *)

Head0 == IF rpc = "advance" THEN (g_read_index + 1) % N ELSE g_read_index

RingQueue ==
  [i \in 1 .. Published - Taken |->
     LET s == (Head0 + i - 1) % N IN Frame(frame_data[s], frame_number[s])]

Queue == INSTANCE FrameQueue WITH
  Capacity <- N,
  Image <- {Whole(src, pal) : src \in 1 .. MaxCalls, pal \in Palette},
  queue <- RingQueue,
  count <- Len(accepted)

\* Seen from outside, the ring is a bounded queue: frames are taken in the
\* order they were accepted, read back exactly as they were rendered, and
\* refused only when N of them are waiting.
RefinesFrameQueue == Queue!QueueSpec
=============================================================================
