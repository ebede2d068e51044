------------------------------ MODULE Downlink ------------------------------
(***************************************************************************)
(* satellite/downlink.c, called by the encoder thread of satellite/main.c: *)
(* downlink_send_nals cuts the NAL units of one encoded frame into RTP     *)
(* packets.  Each sendto is a step.                                        *)
(***************************************************************************)
EXTENDS Rtp

VARIABLES
  rtp_seq_number,
  frame,         \* frames encoded so far
  nals, i, sent, \* the frame being sent, the unit at hand, its bytes sent
  offered        \* history: every NAL unit encoded, in order

sender == <<rtp_seq_number, frame, nals, i, sent, offered>>

DownlinkInit ==
  /\ rtp_seq_number = 0 /\ frame = 0
  /\ nals = <<>> /\ i = 1 /\ sent = 0
  /\ offered = <<>>

\* encoder_encode_frame makes an access unit of the next frame; the stream
\* begins with a key frame.  A frame that x264 fails to encode or delays
\* sends nothing and leaves no trace.
Encode(au) ==
  /\ nals = <<>> /\ frame < MaxFrames /\ Len(wire) <= MaxInFlight
  /\ frame = 0 => IsKey(au)
  /\ frame' = frame + 1
  /\ nals' = [k \in DOMAIN au |-> Nal(frame + 1, k, au[k])]
  /\ i' = 1 /\ sent' = 0
  /\ offered' = offered \o nals'
  /\ UNCHANGED <<rtp_seq_number, wire, damaged>>

is_last_nal == i = Len(nals)

\* Mutant: the loop over the units does not begin again at the first one.
NalDonePastEnd ==
  /\ sent' = 0
  /\ nals' = IF is_last_nal THEN <<>> ELSE nals
  /\ i' = i + 1

\* What the call goes on with once a NAL unit is sent.
NalDone ==
  /\ sent' = 0
  /\ nals' = IF is_last_nal THEN <<>> ELSE nals
  /\ i' = IF is_last_nal THEN 1 ELSE i + 1

Transmit(packet) ==
  /\ wire' = Append(wire, packet)
  /\ rtp_seq_number' = (rtp_seq_number + 1) % SeqMod
  /\ UNCHANGED <<frame, offered, damaged>>

\* Mutant: a unit that fills a packet exactly is neither sent nor cut.
SendSingleBelow ==
  /\ nals # <<>> /\ nals[i].size < MAX_PAYLOAD_SIZE
  /\ Transmit(SinglePacket(rtp_seq_number, is_last_nal, nals[i]))
  /\ NalDone

SendSingle ==
  /\ nals # <<>> /\ nals[i].size <= MAX_PAYLOAD_SIZE
  /\ Transmit(SinglePacket(rtp_seq_number, is_last_nal, nals[i]))
  /\ NalDone

\* The first byte travels in the FU bytes, the others in fragments.
frag_size ==
  LET remaining == nals[i].size - 1 - sent
  IN IF remaining > FragmentSize THEN FragmentSize ELSE remaining

\* Mutant: the byte that travels in the FU bytes is taken off twice.
is_last_frag_early == sent + frag_size >= nals[i].size - 2

is_last_frag == sent + frag_size = nals[i].size - 1

\* Mutant: every fragment of the last unit has the marker bit.
SendFragmentMarked ==
  /\ nals # <<>> /\ nals[i].size > MAX_PAYLOAD_SIZE
  /\ Transmit(FragmentPacket(rtp_seq_number, is_last_nal,
                             nals[i], sent + 2, sent + 1 + frag_size))
  /\ IF is_last_frag
     THEN NalDone
     ELSE /\ sent' = sent + frag_size
          /\ UNCHANGED <<nals, i>>

SendFragment ==
  /\ nals # <<>> /\ nals[i].size > MAX_PAYLOAD_SIZE
  /\ Transmit(FragmentPacket(rtp_seq_number, is_last_nal /\ is_last_frag,
                             nals[i], sent + 2, sent + 1 + frag_size))
  /\ IF is_last_frag
     THEN NalDone
     ELSE /\ sent' = sent + frag_size
          /\ UNCHANGED <<nals, i>>

\* sendto fails: the call returns -1, the rest of the frame is not sent and
\* the caller ignores the result.
SendFails ==
  /\ "sendto" \in Faults
  /\ nals # <<>>
  /\ nals' = <<>> /\ i' = 1 /\ sent' = 0
  /\ damaged' = damaged \cup {frame}
  /\ UNCHANGED <<rtp_seq_number, frame, offered, wire>>

Send == SendSingle \/ SendFragment
=============================================================================
