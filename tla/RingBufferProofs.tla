-------------------------- MODULE RingBufferProofs --------------------------
(***************************************************************************)
(* Proofs about RingBuffer for every ring size, counter width, set of      *)
(* palettes and number of rendered frames.  The argument is the invariant  *)
(* IInv: frame k lives in slot k % N, the published frames not yet taken   *)
(* are the READY (or READING) slots and the other slots are EMPTY (or      *)
(* WRITING).  The slots of two different frames of one window of N         *)
(* consecutive numbers differ, which is all the arithmetic there is.       *)
(***************************************************************************)
EXTENDS RingBuffer, SequenceTheorems, TLAPS

-----------------------------------------------------------------------------
(* Remainders: the slots of a ring. *)

\* A remainder is below the modulus: ring indices stay within the ring.
LEMMA ModRange ==
  ASSUME NEW n \in Nat \ {0}, NEW a \in Nat
  PROVE  a % n \in 0 .. n - 1
OBVIOUS

\* Division with remainder.
LEMMA DivMod ==
  ASSUME NEW n \in Nat \ {0}, NEW a \in Nat
  PROVE  a \div n \in Nat /\ a = n * (a \div n) + (a % n)
OBVIOUS

\* A number below the modulus is its own remainder.
LEMMA ModUnique ==
  ASSUME NEW n \in Nat \ {0}, NEW q \in Nat, NEW r \in 0 .. n - 1
  PROVE  (n * q + r) % n = r
OBVIOUS

\* Advancing an index, as the code does, moves to the slot of the next frame.
LEMMA ModSucc ==
  ASSUME NEW n \in Nat \ {0}, NEW a \in Nat
  PROVE  ((a % n) + 1) % n = (a + 1) % n
<1>1. PICK q \in Nat, r \in 0 .. n - 1 : a = n * q + r /\ a % n = r
  BY DivMod, ModRange
<1>2. CASE r + 1 < n
  <2>1. (n * q + (r + 1)) % n = r + 1
    BY <1>1, <1>2, ModUnique
  <2>2. (n * 0 + (r + 1)) % n = r + 1
    BY <1>1, <1>2, ModUnique
  <2>3. QED BY <1>1, <2>1, <2>2
<1>3. CASE r + 1 = n
  <2>1. (n * (q + 1) + 0) % n = 0
    BY <1>1, ModUnique
  <2>2. (n * 1 + 0) % n = 0
    BY ModUnique
  <2>3. n * (q + 1) = n * q + n
    BY <1>1
  <2>4. a + 1 = n * (q + 1) + 0
    BY <1>1, <1>3, <2>3
  <2>5. QED BY <1>1, <1>3, <2>1, <2>2, <2>4
<1>4. QED BY <1>1, <1>2, <1>3

\* Going once round the ring comes back to the same slot.
LEMMA ModPeriod ==
  ASSUME NEW n \in Nat \ {0}, NEW a \in Nat
  PROVE  (a + n) % n = a % n
<1>1. PICK q \in Nat, r \in 0 .. n - 1 : a = n * q + r /\ a % n = r
  BY DivMod, ModRange
<1>2. (n * (q + 1) + r) % n = r
  BY <1>1, ModUnique
<1>3. a + n = n * (q + 1) + r
  BY <1>1
<1>4. QED BY <1>1, <1>2, <1>3

\* Walking b slots on from the slot of a leads to the slot of a + b.
LEMMA ModAdd ==
  ASSUME NEW n \in Nat \ {0}, NEW a \in Nat, NEW b \in Nat
  PROVE  ((a % n) + b) % n = (a + b) % n
<1>1. PICK q \in Nat, r \in 0 .. n - 1 : a = n * q + r /\ a % n = r
  BY DivMod, ModRange
<1>2. r + b \in Nat
  OBVIOUS
<1>3. PICK p \in Nat, t \in 0 .. n - 1 : r + b = n * p + t /\ (r + b) % n = t
  BY <1>2, DivMod, ModRange
<1>4. (n * (q + p) + t) % n = t
  BY ModUnique
<1>5. a + b = n * q + (r + b)
  BY <1>1
<1>6. n * q + n * p = n * (q + p)
  OBVIOUS
<1>7. a + b = n * (q + p) + t
  BY <1>3, <1>5, <1>6
<1>8. QED BY <1>1, <1>3, <1>4, <1>7

\* Two frames of one window of n numbers have different slots.
LEMMA ModDistinct ==
  ASSUME NEW n \in Nat \ {0}, NEW a \in Nat, NEW b \in Nat,
         a < b, b < a + n
  PROVE  a % n # b % n
<1> SUFFICES ASSUME a % n = b % n PROVE FALSE
  OBVIOUS
<1>1. PICK r \in 0 .. n - 1 : r = a % n
  BY ModRange
<1>2. PICK p \in Nat : a = n * p + r
  BY <1>1, DivMod
<1>3. PICK q \in Nat : b = n * q + r
  BY <1>1, DivMod
<1>4. b - a = n * (q - p)
  <2>1. b - a = n * q - n * p
    BY <1>2, <1>3
  <2>2. n * q - n * p = n * (q - p)
    OBVIOUS
  <2>3. QED BY <2>1, <2>2
<1>5. CASE q <= p
  <2>1. n * (q - p) <= 0
    BY <1>5
  <2>2. QED BY <1>4, <2>1
<1>6. CASE q >= p + 1
  <2>1. n * (q - p) >= n
    BY <1>6
  <2>2. QED BY <1>4, <2>1
<1>7. QED BY <1>5, <1>6

-----------------------------------------------------------------------------
(* Types. *)

\* A frame in one palette is a frame.
LEMMA WholeType ==
  ASSUME NEW src \in 0 .. MaxCalls, NEW pal \in Palette
  PROVE  Whole(src, pal) \in [Part -> Pixel]
BY DEF Whole, Pixel

\* The variables have their types in the initial state: the zeroed statics.
LEMMA TypeInit == Init => TypeOK
<1> SUFFICES ASSUME Init PROVE TypeOK
  OBVIOUS
<1>1. Zeroed \in [Part -> Pixel]
  BY RingAssumption, WholeType DEF Zeroed
<1>2. QED BY <1>1, RingAssumption DEF Init, TypeOK, Slot

\* Every step of the two threads keeps the variables in their types; the
\* indices stay within the ring and the counter within its width.
LEMMA TypeStep == TypeOK /\ [Next]_vars => TypeOK'
<1> SUFFICES ASSUME TypeOK, [Next]_vars PROVE TypeOK'
  OBVIOUS
<1> USE RingAssumption DEF TypeOK, indices, convert, shared, writer, reader, history
<1>1. CASE ringbuffer_init
  BY <1>1 DEF ringbuffer_init, Slot
<1>2. ASSUME NEW pal \in Palette, ringbuffer_update_palette(pal) PROVE TypeOK'
  BY <1>2 DEF ringbuffer_update_palette
<1>3. CASE WriteAcquire
  BY <1>3 DEF WriteAcquire
<1>4. CASE WriteDrop
  BY <1>4 DEF WriteDrop
<1>5. CASE WriteCopy
  <2>1. [src |-> calls, pal |-> g_palette_rgb] \in Pixel
    BY DEF Pixel
  <2>2. [frame_data[g_write_index] EXCEPT ![wpart] =
           [src |-> calls, pal |-> g_palette_rgb]] \in [Part -> Pixel]
    BY <2>1
  <2>3. QED BY <1>5, <2>2 DEF WriteCopy
<1>6. CASE WriteNumber
  <2>1. (g_frame_counter + 1) % CounterMod \in 0 .. CounterMod - 1
    BY ModRange
  <2>2. QED BY <1>6, <2>1 DEF WriteNumber
<1>7. CASE WriteReady
  <2>1. Len(accepted) % CounterMod \in 0 .. CounterMod - 1
    BY ModRange
  <2>2. Frame(Whole(calls, g_palette_rgb), Len(accepted) % CounterMod)
          \in [data : [Part -> Pixel], number : 0 .. CounterMod - 1]
    BY <2>1, WholeType DEF Frame
  <2>3. QED BY <1>7, <2>2 DEF WriteReady
<1>8. CASE WriteAdvance
  <2>1. (g_write_index + 1) % N \in Slot
    BY ModRange DEF Slot
  <2>2. QED BY <1>8, <2>1 DEF WriteAdvance
<1>9. CASE ReadAcquire
  BY <1>9 DEF ReadAcquire
<1>10. CASE ReadCopy
  <2>1. rpart \in Part
    BY <1>10 DEF ReadCopy, Part
  <2>2. frame_data[g_read_index][rpart] \in Pixel
    BY <2>1
  <2>3. QED BY <1>10, <2>1, <2>2 DEF ReadCopy, Part
<1>11. CASE ReadNumber
  BY <1>11 DEF ReadNumber
<1>12. CASE ReadRelease
  <2>1. Frame(rbuf, rnum) \in [data : [Part -> Pixel], number : 0 .. CounterMod - 1]
    BY DEF Frame
  <2>2. QED BY <1>12, <2>1 DEF ReadRelease
<1>13. CASE ReadAdvance
  <2>1. (g_read_index + 1) % N \in Slot
    BY ModRange DEF Slot
  <2>2. QED BY <1>13, <2>1 DEF ReadAdvance
<1>14. CASE UNCHANGED vars
  BY <1>14 DEF vars
<1>15. QED
  BY <1>1, <1>2, <1>3, <1>4, <1>5, <1>6, <1>7, <1>8, <1>9, <1>10, <1>11, <1>12,
     <1>13, <1>14 DEF Next, Writing, Polling

\* The variables of the ring always have their types.
THEOREM TypeCorrect == Spec => []TypeOK
<1>1. Init => TypeOK
  BY TypeInit
<1>2. TypeOK /\ [Next]_vars => TypeOK'
  BY TypeStep
<1>3. QED BY <1>1, <1>2, PTL DEF Spec

-----------------------------------------------------------------------------
(* The invariant. *)

\* What is published and read: a frame with its number.
FrameType == [data : [Part -> Pixel], number : 0 .. CounterMod - 1]

\* The numbers of published and taken frames are natural numbers.
LEMMA Counts == TypeOK => Published \in Nat /\ Taken \in Nat
BY DEF TypeOK, Published, Taken

\* Frames are stored in slots.
LEMMA SlotOfType == \A k \in Nat : SlotOf(k) \in Slot
BY RingAssumption, ModRange DEF SlotOf, Slot

\* Advancing an index the way the code does leads to the next frame's slot.
LEMMA SlotOfNext == \A k \in Nat : (SlotOf(k) + 1) % N = SlotOf(k + 1)
BY RingAssumption, ModSucc DEF SlotOf

\* A ring of N slots reuses a slot every N frames.
LEMMA SlotOfPeriod == \A k \in Nat : SlotOf(k + N) = SlotOf(k)
BY RingAssumption, ModPeriod DEF SlotOf

\* Distinct frames less than N apart have distinct slots.
LEMMA SlotOfDistinct ==
  ASSUME NEW j \in Nat, NEW k \in Nat, j # k, j < k + N, k < j + N
  PROVE  SlotOf(j) # SlotOf(k)
<1>1. CASE j < k
  BY <1>1, RingAssumption, ModDistinct DEF SlotOf
<1>2. CASE k < j
  BY <1>2, RingAssumption, ModDistinct DEF SlotOf
<1>3. QED BY <1>1, <1>2

\* The ring of zeroed statics satisfies the invariant: no frame, N free slots.
LEMMA InvInit == Init => IInv
<1> SUFFICES ASSUME Init PROVE IInv
  OBVIOUS
<1> USE RingAssumption
<1>1. TypeOK
  BY TypeInit
<1>2. Published = 0 /\ Taken = 0 /\ ~InsideWrite /\ ~InsideRead
  BY DEF Init, Published, Taken, InsideWrite, InsideRead
<1>3. SlotOf(0) = 0 /\ 0 % CounterMod = 0
  BY DEF SlotOf
<1>4. IndexInv
  BY <1>2, <1>3 DEF Init, IndexInv
<1>5. StatusInv
  BY <1>2, SlotOfType DEF Init, StatusInv
<1>6. ContentsInv /\ ReaderInv /\ ReadInOrder
  BY <1>2 DEF Init, ContentsInv, ReaderInv, ReadInOrder, InsideRead, Published, Taken
<1>7. WriterInv
  BY <1>2, <1>3 DEF Init, WriterInv
<1>8. QED BY <1>1, <1>4, <1>5, <1>6, <1>7 DEF IInv

-----------------------------------------------------------------------------
(* One lemma per action that moves a frame along its way through a slot.    *)

\* The DOOM thread wins a slot: the invariant makes it the slot of the next
\* frame, and an EMPTY status says that the window has room for it.
LEMMA WriteAcquireInv == IInv /\ TypeOK' /\ WriteAcquire => IInv'
<1> SUFFICES ASSUME IInv, TypeOK', WriteAcquire PROVE IInv'
  OBVIOUS
<1>1. /\ Published \in Nat /\ Taken \in Nat /\ N \in Nat \ {0}
      /\ Published' = Published /\ Taken' = Taken
      /\ ~InsideWrite /\ InsideWrite' /\ InsideRead' = InsideRead
  BY Counts, RingAssumption
  DEF IInv, WriteAcquire, reader, history, Published, Taken, InsideWrite, InsideRead
<1>2. g_write_index = SlotOf(Published)
  BY DEF IInv, IndexInv, WriteAcquire
<1>3. Published < Taken + N
  <2> SUFFICES ASSUME Published = Taken + N PROVE FALSE
    BY <1>1 DEF IInv, IndexInv
  <2>1. SlotOf(Published) = SlotOf(Taken)
    BY <1>1, SlotOfPeriod
  <2>2. status[SlotOf(Taken)] # "EMPTY"
    BY <1>1 DEF IInv, StatusInv
  <2>3. QED BY <1>2, <2>1, <2>2 DEF WriteAcquire
<1>4. IndexInv'
  BY <1>1, <1>2, <1>3 DEF IInv, IndexInv, WriteAcquire, indices, reader, InsideWrite, InsideRead
<1>5. StatusInv'
  <2>1. ASSUME NEW k \in Nat, Taken <= k, k < Taken + N, k # Published
        PROVE  status'[SlotOf(k)] = status[SlotOf(k)]
    <3>1. Published < k + N /\ k < Published + N /\ Taken <= Published
      BY <1>1, <1>3, <2>1 DEF IInv, IndexInv
    <3>2. SlotOf(k) # SlotOf(Published)
      BY <1>1, <2>1, <3>1, SlotOfDistinct
    <3>3. QED BY <1>2, <3>2, SlotOfType, <2>1 DEF IInv, WriteAcquire, TypeOK
  <2>2. status'[SlotOf(Published)] = "WRITING"
    BY <1>2 DEF IInv, TypeOK, WriteAcquire
  <2>3. QED BY <1>1, <1>3, <2>1, <2>2 DEF IInv, IndexInv, StatusInv, WriteAcquire, reader
<1>6. ContentsInv'
  BY <1>1 DEF IInv, ContentsInv, WriteAcquire, history, Frame
<1>7. WriterInv'
  BY <1>1, RingAssumption DEF IInv, TypeOK, WriterInv, WriteAcquire, convert, Part
<1>8. ReaderInv' /\ ReadInOrder'
  BY <1>1 DEF IInv, ReaderInv, ReadInOrder, WriteAcquire, reader, history, indices, InsideRead
<1>9. QED BY <1>4, <1>5, <1>6, <1>7, <1>8 DEF IInv

\* The step that publishes: the slot just filled is the slot of frame
\* Published, and it holds that frame, whole and with its number.
LEMMA WriteReadyInv == IInv /\ TypeOK' /\ WriteReady => IInv'
<1> SUFFICES ASSUME IInv, TypeOK', WriteReady PROVE IInv'
  OBVIOUS
<1> DEFINE f == Frame(Whole(calls, g_palette_rgb), Len(accepted) % CounterMod)
<1>1. /\ Published \in Nat /\ Taken \in Nat /\ N \in Nat \ {0}
      /\ Published' = Published + 1 /\ Taken' = Taken
      /\ InsideWrite /\ ~InsideWrite' /\ InsideRead' = InsideRead
      /\ accepted'[Published + 1] = f
      /\ \A i \in 1 .. Published : accepted'[i] = accepted[i]
  <2>1. f \in FrameType
    BY RingAssumption, WholeType, ModRange, Counts
    DEF IInv, TypeOK, Frame, FrameType, Published
  <2>2. accepted \in Seq(FrameType) /\ accepted' = Append(accepted, f)
    BY DEF IInv, TypeOK, WriteReady, FrameType
  <2> HIDE DEF f
  <2>3. /\ Published' = Published + 1
        /\ accepted'[Published + 1] = f
        /\ \A i \in 1 .. Published : accepted'[i] = accepted[i]
    BY <2>1, <2>2, AppendProperties DEF Published
  <2>4. Published \in Nat /\ Taken \in Nat /\ N \in Nat \ {0}
    BY Counts, RingAssumption DEF IInv
  <2>5. Taken' = Taken /\ InsideWrite /\ ~InsideWrite' /\ InsideRead' = InsideRead
    BY DEF WriteReady, reader, Taken, InsideWrite, InsideRead
  <2>6. QED BY <2>3, <2>4, <2>5
<1>2. /\ g_write_index = SlotOf(Published)
      /\ Taken <= Published /\ Published < Taken + N
  BY <1>1 DEF IInv, IndexInv, WriteReady
<1>3. f = Frame(frame_data[SlotOf(Published)], frame_number[SlotOf(Published)])
  <2>1. frame_data[SlotOf(Published)] = Whole(calls, g_palette_rgb)
    <3>1. frame_data[SlotOf(Published)] \in [Part -> Pixel]
      BY <1>1, SlotOfType DEF IInv, TypeOK
    <3>2. \A p \in Part : frame_data[SlotOf(Published)][p] =
                          [src |-> calls, pal |-> g_palette_rgb]
      BY <1>1, <1>2, RingAssumption DEF IInv, WriterInv, WriteReady, Part
    <3>3. QED BY <3>1, <3>2 DEF Whole
  <2>2. frame_number[SlotOf(Published)] = Len(accepted) % CounterMod
    BY <1>2 DEF IInv, WriterInv, WriteReady, Published
  <2>3. QED BY <2>1, <2>2
<1> HIDE DEF f
<1>4. IndexInv'
  BY <1>1, <1>2 DEF IInv, IndexInv, WriteReady, indices, reader, InsideRead, InsideWrite
<1>5. StatusInv'
  <2>1. ASSUME NEW k \in Nat, Taken <= k, k < Taken + N, k # Published
        PROVE  status'[SlotOf(k)] = status[SlotOf(k)]
    <3>1. SlotOf(k) # SlotOf(Published)
      BY <1>1, <1>2, <2>1, SlotOfDistinct
    <3>2. QED BY <1>2, <3>1, SlotOfType, <2>1 DEF IInv, WriteReady, TypeOK
  <2>2. status'[SlotOf(Published)] = "READY"
    BY <1>1, <1>2, SlotOfType DEF IInv, TypeOK, WriteReady
  <2>3. Published = Taken => ~InsideRead
    BY <1>1 DEF IInv, IndexInv
  <2>4. QED BY <1>1, <1>2, <2>1, <2>2, <2>3 DEF IInv, StatusInv
<1>6. ContentsInv'
  <2>1. frame_data' = frame_data /\ frame_number' = frame_number
    BY DEF WriteReady
  <2>2. ASSUME NEW k \in Taken .. Published - 1
        PROVE  accepted'[k + 1] = Frame(frame_data[SlotOf(k)], frame_number[SlotOf(k)])
    BY <1>1, <2>2 DEF IInv, ContentsInv
  <2>3. QED BY <1>1, <1>3, <2>1, <2>2 DEF ContentsInv
<1>7. WriterInv'
  BY <1>1 DEF IInv, WriterInv, WriteReady, convert
<1>8. ReaderInv'
  BY <1>1 DEF IInv, ReaderInv, WriteReady, reader, indices, InsideRead
<1>9. ReadInOrder'
  BY <1>1, <1>2 DEF IInv, ReadInOrder, WriteReady, Published, Taken
<1>10. QED BY <1>4, <1>5, <1>6, <1>7, <1>8, <1>9 DEF IInv

\* Filling the slot of frame Published disturbs neither the frames in the
\* ring nor the one the encoder is copying.
LEMMA WriteFillInv == IInv /\ TypeOK' /\ (WriteCopy \/ WriteNumber) => IInv'
<1> SUFFICES ASSUME IInv, TypeOK', WriteCopy \/ WriteNumber PROVE IInv'
  OBVIOUS
<1>1. /\ Published \in Nat /\ Taken \in Nat /\ N \in Nat \ {0}
      /\ Published' = Published /\ Taken' = Taken
      /\ InsideWrite /\ InsideWrite' /\ InsideRead' = InsideRead
      /\ status' = status /\ accepted' = accepted /\ delivered' = delivered
      /\ g_write_index' = g_write_index /\ g_read_index' = g_read_index
      /\ rpc' = rpc /\ rpart' = rpart /\ rbuf' = rbuf /\ rnum' = rnum
      /\ wpc = "copy" /\ wpc' # "advance" /\ wpc' # "start"
      /\ calls' = calls /\ g_palette_rgb' = g_palette_rgb
  BY Counts, RingAssumption
  DEF IInv, WriteCopy, WriteNumber, reader, history, indices, convert,
      Published, Taken, InsideWrite, InsideRead
<1>2. /\ g_write_index = SlotOf(Published)
      /\ Taken <= Published /\ Published < Taken + N
  BY <1>1 DEF IInv, IndexInv
<1>3. ASSUME NEW k \in Nat, Taken <= k, k < Published
      PROVE  /\ frame_data'[SlotOf(k)] = frame_data[SlotOf(k)]
             /\ frame_number'[SlotOf(k)] = frame_number[SlotOf(k)]
  <2>1. SlotOf(k) # SlotOf(Published)
    BY <1>1, <1>2, <1>3, SlotOfDistinct
  <2>2. QED BY <1>2, <2>1, SlotOfType, <1>3 DEF IInv, TypeOK, WriteCopy, WriteNumber
<1>4. IndexInv' /\ StatusInv' /\ ReadInOrder'
  BY <1>1 DEF IInv, IndexInv, StatusInv, ReadInOrder
<1>5. ContentsInv'
  BY <1>1, <1>3 DEF IInv, ContentsInv
<1>6. WriterInv'
  <2>1. CASE WriteCopy
    <3>1. wpart \in Part
      BY <2>1 DEF WriteCopy, IInv, TypeOK, Part
    <3>2. frame_data'[g_write_index] =
            [frame_data[g_write_index] EXCEPT ![wpart] =
               [src |-> calls, pal |-> g_palette_rgb]]
      BY <1>1, <1>2, <2>1, SlotOfType DEF WriteCopy, IInv, TypeOK
    <3>3. ASSUME NEW p \in Part, p < wpart + 1
          PROVE  frame_data'[g_write_index][p] = [src |-> calls, pal |-> g_palette_rgb]
      <4>1. frame_data[g_write_index] \in [Part -> Pixel]
        BY DEF IInv, TypeOK
      <4>2. CASE p = wpart
        BY <3>2, <4>1, <4>2
      <4>3. CASE p # wpart
        <5>1. p < wpart
          BY <3>1, <3>3, <4>3 DEF Part
        <5>2. QED BY <1>1, <3>2, <4>1, <4>3, <5>1 DEF IInv, WriterInv
      <4>4. QED BY <4>2, <4>3
    <3>4. QED BY <1>1, <2>1, <3>3 DEF IInv, WriterInv, WriteCopy, convert
  <2>2. CASE WriteNumber
    <3>1. g_frame_counter' = (Published + 1) % CounterMod
      BY <1>1, <2>2, RingAssumption, ModSucc DEF WriteNumber, IInv, WriterInv
    <3>2. frame_number'[g_write_index] = Published % CounterMod
      BY <1>1, <1>2, <2>2, SlotOfType DEF WriteNumber, IInv, TypeOK, WriterInv
    <3>3. QED BY <1>1, <2>2, <3>1, <3>2 DEF IInv, WriterInv, WriteNumber
  <2>3. QED BY <2>1, <2>2
<1>7. ReaderInv'
  BY <1>1, <1>2, <1>3 DEF IInv, IndexInv, ReaderInv, InsideRead
<1>8. QED BY <1>4, <1>5, <1>6, <1>7 DEF IInv

\* The DOOM thread stores its index: it now stands at the next frame's slot.
LEMMA WriteAdvanceInv == IInv /\ TypeOK' /\ WriteAdvance => IInv'
<1> SUFFICES ASSUME IInv, TypeOK', WriteAdvance PROVE IInv'
  OBVIOUS
<1>1. /\ Published \in Nat /\ Taken \in Nat /\ N \in Nat \ {0}
      /\ Published' = Published /\ Taken' = Taken
      /\ ~InsideWrite /\ ~InsideWrite' /\ InsideRead' = InsideRead
  BY Counts, RingAssumption
  DEF IInv, WriteAdvance, reader, history, Published, Taken, InsideWrite, InsideRead
<1>2. g_write_index' = SlotOf(Published)
  <2>1. Published - 1 \in Nat /\ g_write_index = SlotOf(Published - 1)
    BY <1>1 DEF IInv, IndexInv, WriteAdvance
  <2>2. (g_write_index + 1) % N = SlotOf((Published - 1) + 1)
    BY <2>1, SlotOfNext
  <2>3. QED BY <1>1, <2>2 DEF WriteAdvance
<1>3. IndexInv'
  BY <1>1, <1>2 DEF IInv, IndexInv, WriteAdvance, reader, InsideRead
<1>4. StatusInv' /\ ContentsInv' /\ ReadInOrder'
  BY <1>1 DEF IInv, StatusInv, ContentsInv, ReadInOrder, WriteAdvance, history
<1>5. WriterInv' /\ ReaderInv'
  BY <1>1 DEF IInv, WriterInv, ReaderInv, WriteAdvance, convert, reader, InsideRead
<1>6. QED BY <1>3, <1>4, <1>5 DEF IInv

\* The encoder wins a slot: it is the slot of the oldest frame in the ring.
LEMMA ReadAcquireInv == IInv /\ TypeOK' /\ ReadAcquire => IInv'
<1> SUFFICES ASSUME IInv, TypeOK', ReadAcquire PROVE IInv'
  OBVIOUS
<1>1. /\ Published \in Nat /\ Taken \in Nat /\ N \in Nat \ {0}
      /\ Published' = Published /\ Taken' = Taken
      /\ InsideWrite' = InsideWrite /\ ~InsideRead /\ InsideRead'
  BY Counts, RingAssumption
  DEF IInv, ReadAcquire, writer, history, Published, Taken, InsideWrite, InsideRead
<1>2. g_read_index = SlotOf(Taken) /\ Taken <= Published /\ Published <= Taken + N
  BY DEF IInv, IndexInv, ReadAcquire
<1>3. Taken < Published
  <2> SUFFICES ASSUME Taken = Published PROVE FALSE
    BY <1>1, <1>2
  <2>1. status[SlotOf(Taken)] # "READY"
    BY <1>1 DEF IInv, StatusInv
  <2>2. QED BY <1>2, <2>1 DEF ReadAcquire
<1>4. IndexInv'
  BY <1>1, <1>2, <1>3 DEF IInv, IndexInv, ReadAcquire, indices, writer, InsideWrite
<1>5. StatusInv'
  <2>1. ASSUME NEW k \in Nat, Taken <= k, k < Taken + N, k # Taken
        PROVE  status'[SlotOf(k)] = status[SlotOf(k)]
    <3>1. SlotOf(k) # SlotOf(Taken)
      BY <1>1, <2>1, SlotOfDistinct
    <3>2. QED BY <1>2, <3>1, SlotOfType, <2>1 DEF IInv, ReadAcquire, TypeOK
  <2>2. status'[SlotOf(Taken)] = "READING"
    BY <1>1, <1>2, SlotOfType DEF IInv, TypeOK, ReadAcquire
  <2>3. QED BY <1>1, <1>2, <1>3, <2>1, <2>2 DEF IInv, StatusInv
<1>6. ContentsInv' /\ ReadInOrder'
  BY <1>1 DEF IInv, ContentsInv, ReadInOrder, ReadAcquire, history
<1>7. WriterInv'
  BY <1>1 DEF IInv, WriterInv, ReadAcquire, writer, indices, convert
<1>8. ReaderInv'
  BY <1>1, RingAssumption DEF IInv, ReaderInv, ReadAcquire, Part
<1>9. QED BY <1>4, <1>5, <1>6, <1>7, <1>8 DEF IInv

\* Copying out of the slot of frame Taken changes nothing but the copy.
LEMMA ReadCopyInv == IInv /\ TypeOK' /\ (ReadCopy \/ ReadNumber) => IInv'
<1> SUFFICES ASSUME IInv, TypeOK', ReadCopy \/ ReadNumber PROVE IInv'
  OBVIOUS
<1>1. /\ shared' = shared /\ writer' = writer /\ history' = history
      /\ Published' = Published /\ Taken' = Taken
      /\ InsideWrite' = InsideWrite /\ InsideRead /\ InsideRead'
      /\ rpc' # "advance" /\ rpc # "advance"
  BY DEF ReadCopy, ReadNumber, shared, writer, history, Published, Taken,
         InsideWrite, InsideRead
<1>2. IndexInv' /\ StatusInv' /\ ContentsInv' /\ WriterInv' /\ ReadInOrder'
  BY <1>1 DEF IInv, IndexInv, StatusInv, ContentsInv, WriterInv, ReadInOrder,
              shared, writer, history, indices, convert
<1>3. CASE ReadCopy
  <2>1. rpart \in Part /\ rbuf \in [Part -> Pixel]
    BY <1>3 DEF ReadCopy, IInv, TypeOK, Part
  <2>2. ASSUME NEW p \in Part, p < rpart + 1
        PROVE  rbuf'[p] = frame_data[g_read_index][p]
    <3>1. CASE p = rpart
      BY <1>3, <2>1, <3>1 DEF ReadCopy
    <3>2. CASE p # rpart
      <4>1. p < rpart
        BY <2>1, <2>2, <3>2 DEF Part
      <4>2. QED BY <1>1, <1>3, <2>1, <3>2, <4>1 DEF ReadCopy, IInv, ReaderInv
    <3>3. QED BY <3>1, <3>2
  <2>3. ReaderInv'
    BY <1>1, <1>3, <2>2 DEF ReadCopy, ReaderInv, shared, indices
  <2>4. QED BY <1>2, <2>3 DEF IInv
<1>4. CASE ReadNumber
  <2>1. ReaderInv'
    BY <1>1, <1>4 DEF ReadNumber, IInv, ReaderInv, shared, indices
  <2>2. QED BY <1>2, <2>1 DEF IInv
<1>5. QED BY <1>3, <1>4

\* The encoder gives a slot back: what it copied is the oldest frame of the
\* ring, and its slot becomes the free slot of the last frame of the window.
LEMMA ReadReleaseInv == IInv /\ TypeOK' /\ ReadRelease => IInv'
<1> SUFFICES ASSUME IInv, TypeOK', ReadRelease PROVE IInv'
  OBVIOUS
<1>1. /\ Published \in Nat /\ Taken \in Nat /\ N \in Nat \ {0}
      /\ Published' = Published /\ Taken' = Taken + 1
      /\ InsideWrite' = InsideWrite /\ InsideRead /\ ~InsideRead'
      /\ delivered'[Taken + 1] = Frame(rbuf, rnum)
      /\ \A i \in 1 .. Taken : delivered'[i] = delivered[i]
  <2>1. Frame(rbuf, rnum) \in FrameType
    BY DEF IInv, TypeOK, Frame, FrameType
  <2>2. /\ delivered \in Seq(FrameType)
        /\ delivered' = Append(delivered, Frame(rbuf, rnum))
    BY DEF IInv, TypeOK, ReadRelease, FrameType
  <2>3. /\ Taken' = Taken + 1
        /\ delivered'[Taken + 1] = Frame(rbuf, rnum)
        /\ \A i \in 1 .. Taken : delivered'[i] = delivered[i]
    BY <2>1, <2>2, AppendProperties DEF Taken
  <2>4. Published \in Nat /\ Taken \in Nat /\ N \in Nat \ {0}
    BY Counts, RingAssumption DEF IInv
  <2>5. /\ Published' = Published
        /\ InsideWrite' = InsideWrite /\ InsideRead /\ ~InsideRead'
    BY DEF ReadRelease, writer, Published, InsideWrite, InsideRead
  <2>6. QED BY <2>3, <2>4, <2>5
<1>2. /\ g_read_index = SlotOf(Taken)
      /\ Taken < Published /\ Published <= Taken + N
  BY <1>1 DEF IInv, IndexInv, ReadRelease
<1>3. Frame(rbuf, rnum) = accepted[Taken + 1]
  <2>1. frame_data[g_read_index] \in [Part -> Pixel] /\ rbuf \in [Part -> Pixel]
    BY DEF IInv, TypeOK
  <2>2. \A p \in Part : rbuf[p] = frame_data[g_read_index][p]
    BY <1>1, RingAssumption DEF IInv, ReaderInv, ReadRelease, Part
  <2>3. rbuf = frame_data[g_read_index]
    BY <2>1, <2>2
  <2>4. rnum = frame_number[g_read_index]
    BY DEF IInv, ReaderInv, ReadRelease
  <2>5. accepted[Taken + 1] = Frame(frame_data[SlotOf(Taken)], frame_number[SlotOf(Taken)])
    BY <1>1, <1>2 DEF IInv, ContentsInv
  <2>6. QED BY <1>2, <2>3, <2>4, <2>5
<1>4. IndexInv'
  BY <1>1, <1>2 DEF IInv, IndexInv, ReadRelease, indices, writer, InsideWrite
<1>5. StatusInv'
  <2>1. ASSUME NEW k \in Nat, Taken < k, k < Taken + N
        PROVE  status'[SlotOf(k)] = status[SlotOf(k)]
    <3>1. SlotOf(k) # SlotOf(Taken)
      BY <1>1, <2>1, SlotOfDistinct
    <3>2. QED BY <1>2, <3>1, SlotOfType, <2>1 DEF IInv, ReadRelease, TypeOK
  <2>2. status'[SlotOf(Taken)] = "EMPTY"
    BY <1>1, <1>2, SlotOfType DEF IInv, TypeOK, ReadRelease
  <2>3. SlotOf(Taken + N) = SlotOf(Taken)
    BY <1>1, SlotOfPeriod
  <2>4. InsideWrite => Published # Taken + N
    BY <1>1 DEF IInv, IndexInv
  <2>5. QED BY <1>1, <1>2, <2>1, <2>2, <2>3, <2>4 DEF IInv, StatusInv
<1>6. ContentsInv'
  BY <1>1, <1>2 DEF IInv, ContentsInv, ReadRelease
<1>7. WriterInv'
  BY <1>1 DEF IInv, WriterInv, ReadRelease, writer, indices, convert
<1>8. ReaderInv'
  BY <1>1 DEF ReaderInv, ReadRelease
<1>9. ReadInOrder'
  BY <1>1, <1>2, <1>3 DEF IInv, ReadInOrder, ReadRelease, Published, Taken
<1>10. QED BY <1>4, <1>5, <1>6, <1>7, <1>8, <1>9 DEF IInv

\* The encoder stores its index: it now stands at the oldest frame's slot.
LEMMA ReadAdvanceInv == IInv /\ TypeOK' /\ ReadAdvance => IInv'
<1> SUFFICES ASSUME IInv, TypeOK', ReadAdvance PROVE IInv'
  OBVIOUS
<1>1. /\ Published \in Nat /\ Taken \in Nat /\ N \in Nat \ {0}
      /\ Published' = Published /\ Taken' = Taken
      /\ InsideWrite' = InsideWrite /\ ~InsideRead /\ ~InsideRead'
  BY Counts, RingAssumption
  DEF IInv, ReadAdvance, writer, history, Published, Taken, InsideWrite, InsideRead
<1>2. g_read_index' = SlotOf(Taken)
  <2>1. Taken - 1 \in Nat /\ g_read_index = SlotOf(Taken - 1)
    BY <1>1 DEF IInv, IndexInv, ReadAdvance
  <2>2. (g_read_index + 1) % N = SlotOf((Taken - 1) + 1)
    BY <2>1, SlotOfNext
  <2>3. QED BY <1>1, <2>2 DEF ReadAdvance
<1>3. IndexInv'
  BY <1>1, <1>2 DEF IInv, IndexInv, ReadAdvance, writer, InsideWrite
<1>4. StatusInv' /\ ContentsInv' /\ ReadInOrder'
  BY <1>1 DEF IInv, StatusInv, ContentsInv, ReadInOrder, ReadAdvance, history
<1>5. WriterInv' /\ ReaderInv'
  BY <1>1 DEF IInv, WriterInv, ReaderInv, ReadAdvance, writer, convert
<1>6. QED BY <1>3, <1>4, <1>5 DEF IInv

\* The remaining steps touch no slot in use: initialising the untouched ring,
\* a new palette between two frames, a dropped frame, and stuttering.
LEMMA OtherStepsInv ==
  ASSUME IInv, TypeOK',
         \/ ringbuffer_init
         \/ \E pal \in Palette : ringbuffer_update_palette(pal)
         \/ WriteDrop
         \/ UNCHANGED vars
  PROVE  IInv'
<1>1. CASE ringbuffer_init
  <2>1. /\ Published = 0 /\ Taken = 0 /\ Published' = 0 /\ Taken' = 0
        /\ ~InsideWrite' /\ ~InsideRead' /\ rpc' # "advance"
    BY <1>1, Counts DEF IInv, IndexInv, WriterInv, ringbuffer_init, reader,
       history, Published, Taken, InsideWrite, InsideRead
  <2>2. SlotOf(0) = 0 /\ 0 % CounterMod = 0
    BY RingAssumption DEF SlotOf
  <2>3. IndexInv' /\ WriterInv'
    BY <1>1, <2>1, <2>2, RingAssumption DEF IndexInv, WriterInv, ringbuffer_init
  <2>4. StatusInv'
    BY <1>1, <2>1, SlotOfType, RingAssumption DEF StatusInv, ringbuffer_init
  <2>5. ContentsInv' /\ ReaderInv' /\ ReadInOrder'
    BY <1>1, <2>1 DEF IInv, ContentsInv, ReaderInv, ReadInOrder, ringbuffer_init,
       reader, history, Published, Taken, InsideRead
  <2>6. QED BY <2>3, <2>4, <2>5 DEF IInv
<1>2. ASSUME NEW pal \in Palette, ringbuffer_update_palette(pal) PROVE IInv'
  BY <1>2 DEF ringbuffer_update_palette, IInv, IndexInv, StatusInv, ContentsInv,
     WriterInv, ReaderInv, ReadInOrder, indices, writer, reader, history,
     Published, Taken, InsideWrite, InsideRead
<1>3. CASE WriteDrop \/ UNCHANGED vars
  BY <1>3 DEF WriteDrop, vars, IInv, IndexInv, StatusInv, ContentsInv,
     WriterInv, ReaderInv, ReadInOrder, shared, indices, convert, writer, reader,
     history, Published, Taken, InsideWrite, InsideRead
<1>4. QED BY <1>1, <1>2, <1>3

\* Every step of the two threads preserves the invariant.
LEMMA InvStep == IInv /\ [Next]_vars => IInv'
<1> SUFFICES ASSUME IInv, [Next]_vars PROVE IInv'
  OBVIOUS
<1>1. TypeOK'
  BY TypeStep DEF IInv
<1>2. CASE Writing
  BY <1>1, <1>2, WriteFillInv, WriteReadyInv, WriteAdvanceInv DEF Writing
<1>3. CASE Polling
  BY <1>1, <1>3, ReadAcquireInv, ReadCopyInv, ReadReleaseInv, ReadAdvanceInv
  DEF Polling
<1>4. QED BY <1>1, <1>2, <1>3, WriteAcquireInv, OtherStepsInv DEF Next

\* The ring invariant holds in every reachable state.
THEOREM Invariance == Spec => []IInv
<1>1. Init => IInv
  BY InvInit
<1>2. IInv /\ [Next]_vars => IInv'
  BY InvStep
<1>3. QED BY <1>1, <1>2, PTL DEF Spec

-----------------------------------------------------------------------------
(* What the invariant says of the ring. *)

\* The DOOM thread and the encoder thread never hold the same slot.
THEOREM Exclusion == Spec => []SlotExclusion
<1>1. IInv => SlotExclusion
  <2> SUFFICES ASSUME IInv, InsideWrite, InsideRead
               PROVE  g_write_index # g_read_index
    BY DEF SlotExclusion, InsideWrite, InsideRead
  <2>1. /\ Published \in Nat /\ Taken \in Nat
        /\ Taken < Published /\ Published < Taken + N
        /\ g_write_index = SlotOf(Published) /\ g_read_index = SlotOf(Taken)
    BY Counts DEF IInv, IndexInv, InsideWrite, InsideRead
  <2>2. Taken < Published + N /\ Taken # Published
    BY <2>1, RingAssumption
  <2>3. QED BY <2>1, <2>2, SlotOfDistinct
<1>2. QED BY <1>1, Invariance, PTL

\* Frames are read whole, in the order they were published, each once.
THEOREM Order == Spec => []ReadInOrder
<1>1. IInv => ReadInOrder
  BY DEF IInv
<1>2. QED BY <1>1, Invariance, PTL

\* No frame is dropped while one of the N slots is free.
THEOREM Room == Spec => []DropOnlyWhenFull
<1>1. IInv => DropOnlyWhenFull
  <2> SUFFICES ASSUME IInv, wpc = "idle", Published - Taken < N
               PROVE  status[g_write_index] = "EMPTY"
    BY DEF DropOnlyWhenFull, Published, Taken
  <2>1. Published \in Nat /\ Taken \in Nat /\ Taken <= Published
    BY Counts DEF IInv, IndexInv
  <2>2. status[SlotOf(Published)] = "EMPTY"
    BY <2>1, RingAssumption DEF IInv, StatusInv, InsideWrite
  <2>3. QED BY <2>2 DEF IInv, IndexInv
<1>2. QED BY <1>1, Invariance, PTL

\* A poll of the encoder thread never misses a published frame.
THEOREM NoMiss == Spec => []PollFindsFrame
<1>1. IInv => PollFindsFrame
  <2> SUFFICES ASSUME IInv, rpc = "idle", Taken < Published
               PROVE  status[g_read_index] = "READY"
    BY DEF PollFindsFrame, Published, Taken
  <2>1. Published \in Nat /\ Taken \in Nat
    BY Counts DEF IInv
  <2>2. status[SlotOf(Taken)] = "READY"
    BY <2>1 DEF IInv, StatusInv, InsideRead
  <2>3. QED BY <2>2 DEF IInv, IndexInv
<1>2. QED BY <1>1, Invariance, PTL

-----------------------------------------------------------------------------
(* The ring implements the bounded queue of FrameQueue. *)

\* The elements of a sequence come from the set it is over.
LEMMA ElementType ==
  ASSUME NEW S, NEW s \in Seq(S), NEW i \in 1 .. Len(s)
  PROVE  s[i] \in S
OBVIOUS

\* The published frames not yet taken, as the history has them.
Pending == [i \in 1 .. Published - Taken |-> accepted[Taken + i]]

\* Walking the slots from the read index finds the pending frames in order.
LEMMA RingHoldsPending == IInv => RingQueue = Pending
<1> SUFFICES ASSUME IInv PROVE RingQueue = Pending
  OBVIOUS
<1>1. /\ Published \in Nat /\ Taken \in Nat /\ N \in Nat \ {0}
      /\ Taken <= Published
  BY Counts, RingAssumption DEF IInv, IndexInv
<1>2. Head0 = SlotOf(Taken)
  <2>1. CASE rpc = "advance"
    <3>1. Taken - 1 \in Nat /\ g_read_index = SlotOf(Taken - 1)
      BY <1>1, <2>1 DEF IInv, IndexInv
    <3>2. (g_read_index + 1) % N = SlotOf((Taken - 1) + 1)
      BY <3>1, SlotOfNext
    <3>3. QED BY <1>1, <2>1, <3>2 DEF Head0
  <2>2. CASE rpc # "advance"
    BY <2>2 DEF IInv, IndexInv, Head0
  <2>3. QED BY <2>1, <2>2
<1>3. ASSUME NEW i \in 1 .. Published - Taken
      PROVE  LET s == (Head0 + i - 1) % N IN
               Frame(frame_data[s], frame_number[s]) = accepted[Taken + i]
  <2>1. i - 1 \in Nat /\ SlotOf(Taken) \in Nat
    BY <1>1, SlotOfType, RingAssumption DEF Slot
  <2>2. (SlotOf(Taken) + (i - 1)) % N = SlotOf(Taken + (i - 1))
    BY <1>1, <2>1, ModAdd DEF SlotOf
  <2>3. (Head0 + i - 1) % N = SlotOf(Taken + (i - 1))
    BY <1>2, <2>1, <2>2
  <2>4. /\ Taken + (i - 1) \in Taken .. Published - 1
        /\ (Taken + (i - 1)) + 1 = Taken + i
    BY <1>1
  <2>5. QED BY <2>3, <2>4 DEF IInv, ContentsInv
<1>4. QED BY <1>3 DEF RingQueue, Pending

\* Every step of the two threads is a step of the queue or changes nothing
\* a user of the queue can see.
LEMMA QueueStep == IInv /\ IInv' /\ [Next]_vars => [Queue!QueueNext]_Queue!qvars
<1> SUFFICES ASSUME IInv, IInv', [Next]_vars
             PROVE  [Queue!QueueNext]_Queue!qvars
  OBVIOUS
<1>1. RingQueue = Pending
  BY RingHoldsPending
<1>2. RingQueue' = Pending'
  <2>1. (IInv => RingQueue = Pending)'
    BY RingHoldsPending, PTL
  <2>2. QED BY <2>1
<1>3. /\ Published \in Nat /\ Taken \in Nat /\ N \in Nat \ {0}
      /\ Taken <= Published
  BY Counts, RingAssumption DEF IInv, IndexInv
<1>4. Pending \in Seq([data : [Part -> Pixel], number : 0 .. CounterMod - 1])
      /\ Len(Pending) = Published - Taken
  <2>1. ASSUME NEW i \in 1 .. Published - Taken
        PROVE  accepted[Taken + i] \in
                 [data : [Part -> Pixel], number : 0 .. CounterMod - 1]
    <3>1. Taken + i \in 1 .. Len(accepted)
      BY <1>3 DEF Published
    <3>2. QED BY <3>1, ElementType DEF IInv, TypeOK
  <2>2. QED BY <1>3, <2>1 DEF Pending
<1>5. CASE WriteReady
  <2> DEFINE f == Frame(Whole(calls, g_palette_rgb), Len(accepted) % CounterMod)
  <2>1. Published' = Published + 1 /\ Taken' = Taken /\ Published < Taken + N
    BY <1>5 DEF WriteReady, IInv, TypeOK, IndexInv, Published, Taken, InsideWrite
  <2>2. accepted'[Published + 1] = f
        /\ \A i \in 1 .. Published : accepted'[i] = accepted[i]
    BY <1>5 DEF WriteReady, IInv, TypeOK, Published
  <2> HIDE DEF f
  <2>3. Pending' = Append(Pending, f)
    BY <1>3, <1>4, <2>1, <2>2 DEF Pending
  <2>4. calls \in 1 .. MaxCalls /\ g_palette_rgb \in Palette
    BY <1>5, RingAssumption DEF WriteReady, IInv, TypeOK, WriterInv, InsideWrite
  <2>5. Queue!Put(Whole(calls, g_palette_rgb))
    BY <1>1, <1>2, <1>3, <1>4, <1>5, <2>1, <2>3
    DEF Queue!Put, WriteReady, f, Frame, IInv, TypeOK
  <2>6. QED BY <2>4, <2>5 DEF Queue!QueueNext
<1>6. CASE WriteDrop
  <2>1. Published' = Published /\ Taken' = Taken /\ accepted' = accepted
    BY <1>6 DEF WriteDrop, Published, Taken
  <2>2. Published = Taken + N
    <3>1. Published < Taken + N => status[SlotOf(Published)] = "EMPTY"
      BY <1>3, <1>6, RingAssumption DEF IInv, StatusInv, WriteDrop, InsideWrite
    <3>2. g_write_index = SlotOf(Published) /\ Published <= Taken + N
      BY <1>6 DEF IInv, IndexInv, WriteDrop
    <3>3. QED BY <1>3, <1>6, <3>1, <3>2 DEF WriteDrop
  <2>3. Pending' = Pending
    BY <2>1 DEF Pending
  <2>4. Queue!Lose
    BY <1>1, <1>2, <1>3, <1>4, <1>6, <2>1, <2>2, <2>3 DEF Queue!Lose, WriteDrop
  <2>5. QED BY <2>4 DEF Queue!QueueNext
<1>7. CASE ReadRelease
  <2>1. Published' = Published /\ Taken' = Taken + 1 /\ Taken < Published
        /\ accepted' = accepted
    BY <1>7 DEF ReadRelease, IInv, TypeOK, IndexInv, Published, Taken, InsideRead
  <2>2. Pending # <<>> /\ Head(Pending) = accepted[Taken + 1]
    BY <1>3, <1>4, <2>1 DEF Pending
  <2>3. Pending' = Tail(Pending)
    <3>1. /\ Tail(Pending) \in
                Seq([data : [Part -> Pixel], number : 0 .. CounterMod - 1])
          /\ Len(Tail(Pending)) = Len(Pending) - 1
          /\ \A i \in 1 .. Len(Tail(Pending)) : Tail(Pending)[i] = Pending[i + 1]
      BY <1>4, <2>2, HeadTailProperties
    <3>2. Pending' = [i \in 1 .. Published - (Taken + 1) |-> accepted[Taken + 1 + i]]
      BY <2>1 DEF Pending
    <3>3. \A i \in 1 .. Published - (Taken + 1) :
            Pending[i + 1] = accepted[Taken + 1 + i]
      BY <1>3 DEF Pending
    <3>4. Len(Pending) - 1 = Published - (Taken + 1)
      BY <1>3, <1>4
    <3>5. Tail(Pending) = [i \in 1 .. Len(Tail(Pending)) |-> Tail(Pending)[i]]
      <4> HIDE DEF Pending
      <4>1. Tail(Pending) \in [1 .. Len(Tail(Pending)) ->
                [data : [Part -> Pixel], number : 0 .. CounterMod - 1]]
        BY <3>1, LenProperties
      <4>2. QED BY <4>1
    <3>6. QED BY <3>1, <3>2, <3>3, <3>4, <3>5
  <2>4. Frame(rbuf, rnum) = accepted[Taken + 1]
    <3>1. delivered'[Taken + 1] = Frame(rbuf, rnum)
      BY <1>7 DEF ReadRelease, IInv, TypeOK, Taken
    <3>2. Taken + 1 \in 1 .. Len(delivered')
      BY <1>3, <2>1 DEF Taken
    <3>3. QED BY <2>1, <3>1, <3>2 DEF IInv, ReadInOrder
  <2>5. Queue!Get
    BY <1>1, <1>2, <1>7, <2>1, <2>2, <2>3, <2>4 DEF Queue!Get, ReadRelease
  <2>6. QED BY <2>5 DEF Queue!QueueNext
<1>8. CASE UNCHANGED history
  <2>1. Pending' = Pending
    BY <1>8 DEF Pending, Published, Taken, history
  <2>2. QED BY <1>1, <1>2, <1>8, <2>1 DEF Queue!qvars, history
<1>9. QED
  BY <1>5, <1>6, <1>7, <1>8 DEF Next, Writing, Polling, ringbuffer_init,
     ringbuffer_update_palette, WriteAcquire, WriteCopy, WriteNumber,
     WriteAdvance, ReadAcquire, ReadCopy, ReadNumber, ReadAdvance, vars

\* The lock-free ring implements the bounded first-in first-out queue: for
\* its users it is a queue of N whole frames, numbered consecutively, that
\* refuses a frame only when it is full.
THEOREM Refinement == Spec => RefinesFrameQueue
<1>1. Init => Queue!QueueInit
  <2> SUFFICES ASSUME Init PROVE Queue!QueueInit
    OBVIOUS
  <2>1. Published = 0 /\ Taken = 0
    BY DEF Init, Published, Taken
  <2>2. RingQueue = <<>>
    BY <2>1 DEF RingQueue
  <2>3. QED BY <2>2 DEF Queue!QueueInit, Init
<1>2. IInv /\ IInv' /\ [Next]_vars => [Queue!QueueNext]_Queue!qvars
  BY QueueStep
<1>3. QED BY <1>1, <1>2, Invariance, PTL DEF Spec, RefinesFrameQueue, Queue!QueueSpec
=============================================================================
