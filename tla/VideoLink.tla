------------------------------ MODULE VideoLink ------------------------------
(***************************************************************************)
(* The video path: the satellite's downlink, a UDP link that may lose      *)
(* packets, and the ground station's receiver.                             *)
(***************************************************************************)
EXTENDS Downlink, Receiver, FiniteSets

vars == <<sender, damaged, wire, receiver>>

Init ==
  /\ DownlinkInit
  /\ ReceiverInit
  /\ wire = <<>>
  /\ damaged = {}

-----------------------------------------------------------------------------
(* What UDP may do to packets.  A frame is damaged if one of its packets is  *)
(* lost, doubled, or takes part in an overtaking.                            *)

Damage(frames) ==
  /\ damaged' = damaged \cup frames
  /\ UNCHANGED <<sender, receiver>>

\* The oldest packet on the wire is lost.
Lose ==
  /\ "loss" \in Faults
  /\ wire # <<>>
  /\ wire' = Tail(wire)
  /\ Damage({Head(wire).frame})

\* A packet overtakes the packet before it.  Bound: this damages a frame that
\* was whole so far.
Overtake(k) ==
  /\ "reorder" \in Faults
  /\ ~({wire[k].frame, wire[k + 1].frame} \subseteq damaged)
  /\ wire' = [wire EXCEPT ![k] = wire[k + 1], ![k + 1] = wire[k]]
  /\ Damage({wire[k].frame, wire[k + 1].frame})

\* The oldest packet arrives twice.  Bound: in a frame not yet damaged.
Duplicate ==
  /\ "duplicate" \in Faults
  /\ wire # <<>> /\ Head(wire).frame \notin damaged
  /\ wire' = <<Head(wire)>> \o wire
  /\ Damage({Head(wire).frame})

Link == Lose \/ (\E k \in 1 .. Len(wire) - 1 : Overtake(k)) \/ Duplicate

-----------------------------------------------------------------------------

Offered == {offered[k] : k \in DOMAIN offered}

Satellite ==
  /\ (\E au \in AccessUnits : Encode(au)) \/ Send
  /\ UNCHANGED receiver

SendError == SendFails /\ UNCHANGED receiver

Polls == (PollStart \/ PollEnd) /\ UNCHANGED <<sender, damaged>>
Receives == Receive(Offered) /\ UNCHANGED <<sender, damaged>>

Next == Satellite \/ SendError \/ Link \/ Polls \/ Receives

Spec == Init /\ [][Next]_vars

\* The encoder thread goes on encoding and sending, the ground station polls
\* in a loop, and a packet that the link does not lose is found by a poll.
FairSpec ==
  /\ Spec
  /\ WF_vars(Satellite)
  /\ WF_vars(Polls)
  /\ SF_vars(Receives)

-----------------------------------------------------------------------------
(* Properties. *)

TypeOK ==
  /\ rtp_seq_number \in 0 .. SeqMod - 1
  /\ frame \in 0 .. MaxFrames
  /\ i \in 1 .. Len(nals) \/ (nals = <<>> /\ i = 1)
  /\ nals # <<>> => sent \in 0 .. nals[i].size - 2
  /\ h264_buf \in Seq(Nat \X Nat \X Nat)
  /\ damaged \subseteq 1 .. frame
  /\ polling \in BOOLEAN /\ got_frame \in BOOLEAN /\ headers \in BOOLEAN
  /\ ref \in 0 .. frame
  /\ rgb_buffer.frame \in 0 .. frame /\ shown.frame \in 0 .. frame

\* What reaches the decoder of the units offered: all but the small ones
\* with a short start code.
Reaches(nal) == nal.size > MAX_PAYLOAD_SIZE \/ nal.startcode = "long"

\* Of the first k units of a stream, those that reach it, and how many.
Reaching(stream, k) == {j \in 1 .. k : Reaches(stream[j])}
Rank(stream, k) == Cardinality(Reaching(stream, k))

\* The units of a stream that reach the decoder, in order.
Passing(stream) ==
  LET all == Reaching(stream, Len(stream))
  IN [n \in 1 .. Cardinality(all) |-> stream[CHOOSE k \in all : Rank(stream, k) = n]]

Expected == Passing(offered)

Idle == nals = <<>> /\ wire = <<>>

\* Until the first fault the decoder is given the NAL units that x264 made,
\* each whole and once, in order, whatever their sizes, and all of them.
DecoderGetsNals ==
  damaged = {} =>
    /\ Len(fed) <= Len(Expected)
    /\ \A k \in DOMAIN fed : Stripped(fed[k]) = Whole(Expected[k])
    /\ Idle => Len(fed) = Len(Expected)

\* Until the first fault successive packets are numbered consecutively, over
\* units, fragments and frames, and the marker bit is set on the last packet
\* of each frame and on no other.
PacketsAreNumbered ==
  damaged = {} =>
    \A k \in 1 .. Len(wire) - 1 :
      /\ wire[k + 1].seq = (wire[k].seq + 1) % SeqMod
      /\ wire[k].marker <=> wire[k + 1].frame # wire[k].frame

\* What is left of damaged frames never accumulates: if the last byte in the
\* reassembly buffer is of a frame no fault has touched, the buffer holds the
\* beginning of that one NAL unit and nothing else.
NothingLeftOver ==
  h264_buf # <<>> /\ h264_buf[Len(h264_buf)][1] \notin damaged =>
    \E nal \in Offered : \E n \in 1 .. nal.size - 1 :
      h264_buf = <<StartCode>> \o Bytes(nal, 1, n)

\* Frame number n can be decoded exactly: it and all frames since some key
\* frame arrived completely and reach the decoder.
Recoverable(n) ==
  \E k \in 1 .. n :
    /\ k .. n \cap damaged = {}
    /\ \E nal \in Offered : nal.frame = k /\ nal.kind = "idr"
    /\ \A nal \in Offered : nal.frame \in k .. n => Reaches(nal)

\* Losing packets never harms a picture beyond the next key frame that
\* arrives whole: what is left in the reassembly buffer, or a frame that
\* sendto cut short, does not leak into it.
LossEndsAtKeyFrame ==
  rgb_buffer.frame > 0 /\ Recoverable(rgb_buffer.frame) => rgb_buffer.exact

\* After every poll the screen shows the picture decoded last, however many
\* packets, with pictures or without, the poll went through.
ScreenIsCurrent == ~polling => shown = rgb_buffer

\* Loss corrupts frames and never stalls the picture: if the last frame can
\* be decoded, it ends up on the screen, exact.
NewestIsShown ==
  <>[](frame = MaxFrames /\ (Recoverable(frame) => shown = Picture(frame, TRUE)))

\* Every small NAL unit is processed directly.
SmallNalsAreDecoded ==
  Idle => \A nal \in Offered : nal.size <= MAX_PAYLOAD_SIZE =>
            \E k \in DOMAIN fed : Stripped(fed[k]) = Whole(nal)

-----------------------------------------------------------------------------
(* The video path implements the pipe of NalPipe: in the pipe are the units *)
(* encoded that the decoder will be given and has not been given yet.       *)

UnitGiven(bytes) == CHOOSE nal \in Offered : Whole(nal) = Stripped(bytes)

Pipe == INSTANCE NalPipe WITH
  pipe <- IF damaged = {} THEN SubSeq(Expected, Len(fed) + 1, Len(Expected)) ELSE <<>>,
  taken <- IF damaged = {} THEN [k \in DOMAIN fed |-> UnitGiven(fed[k])] ELSE <<>>,
  sound <- damaged = {}

\* Until the first fault the satellite, the link and the receiver together
\* are a first-in first-out pipe of whole NAL units.
RefinesNalPipe == Pipe!PipeSpec
=============================================================================
