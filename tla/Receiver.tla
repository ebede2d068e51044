------------------------------ MODULE Receiver ------------------------------
(***************************************************************************)
(* ground/receiver.c and the part of ground/main.c that shows its frames.  *)
(* One recvfrom of receiver_poll, with the work on its packet, is a step.  *)
(* libavcodec is modelled from outside, by the frames it gives back.       *)
(***************************************************************************)
EXTENDS Rtp

VARIABLES
  polling,         \* inside receiver_poll
  got_frame,
  h264_buf,        \* the first h264_len bytes of the reassembly buffer
  rgb_buffer,      \* the picture decoded last
  shown,           \* the picture display_present_frame showed last
  headers, ref,    \* libavcodec: parameter sets seen, frame held exactly
  fed              \* history: what avcodec_send_packet was given, until
                   \* the first fault of the link

decoder == <<headers, ref, fed>>
receiver == <<polling, got_frame, h264_buf, rgb_buffer, shown, decoder>>

Picture(number, exact) == [frame |-> number, exact |-> exact]
NoPicture == Picture(0, FALSE)

ReceiverInit ==
  /\ polling = FALSE /\ got_frame = FALSE
  /\ h264_buf = <<>>
  /\ rgb_buffer = NoPicture /\ shown = NoPicture
  /\ headers = FALSE /\ ref = 0
  /\ fed = <<>>

PollStart ==
  /\ ~polling
  /\ polling' = TRUE
  /\ got_frame' = FALSE
  /\ UNCHANGED <<h264_buf, rgb_buffer, shown, decoder, wire>>

\* avcodec_receive_frame gives back a picture, which decode_frame_to_rgb
\* converts, or nothing.  Its pictures are all of one size, the encoder's, so
\* the conversion is never set up again (and cannot fail at that).
Shows(picture) ==
  /\ rgb_buffer' = picture
  /\ got_frame' = TRUE

\* Mutant: a packet without a picture hides the picture before it.
ShowsNothingForgets ==
  /\ got_frame' = FALSE
  /\ UNCHANGED rgb_buffer

ShowsNothing == UNCHANGED <<rgb_buffer, got_frame>>

\* The decoder is given one whole NAL unit: a key picture is exact once the
\* parameter sets are known, another one if the decoder holds the picture
\* before it.
DecodeWhole(nal) ==
  CASE nal.kind = "param" ->
         /\ headers' = TRUE
         /\ ShowsNothing
         /\ UNCHANGED ref
    [] nal.kind = "idr" ->
         /\ IF headers THEN Shows(Picture(nal.frame, TRUE)) ELSE ShowsNothing
         /\ ref' = IF headers THEN nal.frame ELSE ref
         /\ UNCHANGED headers
    [] nal.kind = "delta" ->
         /\ \/ Shows(Picture(nal.frame, ref # 0 /\ ref = nal.frame - 1))
            \/ ref # nal.frame - 1 /\ ShowsNothing
         /\ ref' = IF ref = nal.frame - 1 THEN nal.frame ELSE 0
         /\ UNCHANGED headers

\* Anything else: the decoder may refuse it, or conceal what is missing.
DecodeDamaged(number) ==
  \/ /\ ShowsNothing
     /\ UNCHANGED <<headers, ref>>
  \/ /\ headers
     /\ Shows(Picture(number, FALSE))
     /\ ref' = 0
     /\ UNCHANGED headers

Stripped(bytes) == IF bytes # <<>> /\ Head(bytes) = StartCode THEN Tail(bytes) ELSE bytes

\* avcodec_send_packet; known is the set of NAL units that exist.
Decode(bytes, number, known) ==
  /\ fed' = IF damaged = {} THEN Append(fed, bytes) ELSE fed
  /\ LET whole == {nal \in known : Whole(nal) = Stripped(bytes)}
     IN \/ \E nal \in whole : DecodeWhole(nal)
        \/ whole = {} /\ DecodeDamaged(number)

\* A payload that begins with the long start code goes to the decoder as it
\* is; one with the short start code is of no type the receiver knows (its
\* first byte is 0) and is ignored.
ReceiveSingle(p, known) ==
  /\ p.form = "single"
  /\ UNCHANGED h264_buf
  /\ IF p.startcode = "long"
     THEN Decode(p.data, p.frame, known)
     ELSE UNCHANGED <<got_frame, rgb_buffer, decoder>>

\* Mutant: the start bit does not empty the buffer.
AssembledOnTop(p) ==
  h264_buf \o (IF p.start THEN <<StartCode, p.header>> \o p.data ELSE p.data)

\* The buffer with fragment p added: a start bit empties it first.
Assembled(p) ==
  IF p.start THEN <<StartCode, p.header>> \o p.data ELSE h264_buf \o p.data

ReceiveFragment(p, known) ==
  /\ p.form = "fragment"
  /\ IF p.end
     THEN /\ h264_buf' = <<>>
          /\ Decode(Assembled(p), p.frame, known)
     ELSE /\ h264_buf' = Assembled(p)
          /\ UNCHANGED <<got_frame, rgb_buffer, decoder>>

Receive(known) ==
  /\ polling /\ wire # <<>>
  /\ wire' = Tail(wire)
  /\ \/ ReceiveSingle(Head(wire), known)
     \/ ReceiveFragment(Head(wire), known)
  /\ UNCHANGED <<polling, shown>>

\* recvfrom finds nothing (more) yet: the last picture decoded, if any, is
\* returned and shown.  There may be packets on the wire, so the step also
\* stands for leaving the loop because recvfrom failed, or returned 0.
PollEnd ==
  /\ polling
  /\ polling' = FALSE
  /\ shown' = IF got_frame THEN rgb_buffer ELSE shown
  /\ UNCHANGED <<got_frame, h264_buf, rgb_buffer, decoder, wire>>
=============================================================================
