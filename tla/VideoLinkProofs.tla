-------------------------- MODULE VideoLinkProofs --------------------------
(***************************************************************************)
(* Proofs about VideoLink for every packet size, every modulus of the RTP  *)
(* sequence number, all access units and any set of faults: the types, the *)
(* numbering of the packets, that the screen shows the picture decoded     *)
(* last, and that nothing is left over in the reassembly buffer.           *)
(***************************************************************************)
EXTENDS VideoLink, SequenceTheorems, TLAPS

Triple == Nat \X Nat \X Nat

\* NAL units of these frames; packets of the frames up to the given one.
NalsOf(frames) ==
  [frame : frames, index : Nat, kind : {"param", "idr", "delta"},
   size : Nat \ {0, 1}, startcode : {"long", "short"}]
Singles(n) ==
  [form : {"single"}, seq : 0 .. SeqMod - 1, marker : BOOLEAN, frame : 1 .. n,
   startcode : {"long", "short"}, data : Seq(Triple)]
Fragments(n) ==
  [form : {"fragment"}, seq : 0 .. SeqMod - 1, marker : BOOLEAN, frame : 1 .. n,
   start : BOOLEAN, end : BOOLEAN, header : Triple, data : Seq(Triple)]
Packets(n) == Singles(n) \cup Fragments(n)

-----------------------------------------------------------------------------
(* The inductive invariant. *)

StreamInv ==
  /\ frame \in Nat
  /\ wire \in Seq(Packets(frame))
  /\ offered \in Seq(NalsOf(1 .. frame))
  /\ nals \in Seq(NalsOf({frame}))
  /\ nals # <<>> => frame >= 1

\* The packet sent last was numbered last, and marked if it was the last of
\* its frame.
NumberInv ==
  damaged = {} /\ wire # <<>> =>
    LET p == wire[Len(wire)]
    IN /\ rtp_seq_number = (p.seq + 1) % SeqMod
       /\ p.marker <=> nals = <<>> \/ p.frame # frame

\* A picture not yet shown is one that the present poll has decoded.
PictureInv == shown = rgb_buffer \/ (polling /\ got_frame)

IInv == TypeOK /\ StreamInv /\ PacketsAreNumbered /\ NumberInv /\ PictureInv

-----------------------------------------------------------------------------
(* Why nothing is left over: a fragment of a sound frame comes right after  *)
(* the fragment before it, or finds the bytes before it in the buffer.      *)

\* What the buffer holds when n bytes of the unit have arrived.
Begun(nal, n) == <<StartCode>> \o Bytes(nal, 1, n)

\* Packet p carries these bytes of the unit.
Carries(p, nal, from, to) ==
  /\ p.form = "fragment" /\ p.frame = nal.frame /\ p.header = Byte(nal, 1)
  /\ p.data = Bytes(nal, from, to)
  /\ p.start <=> from = 2
  /\ p.end <=> to = nal.size

\* The first n bytes of the unit come right before place k of wire w, where
\* the buffer comes before the first place.
Preceded(w, buffer, k, nal, n) ==
  IF k = 1 THEN buffer = Begun(nal, n)
  ELSE \E from \in 2 .. n : Carries(w[k - 1], nal, from, n)

InOrder(w, buffer, k) ==
  w[k].form = "fragment" =>
    \E nal \in Offered : \E from \in 2 .. nal.size : \E to \in from .. nal.size :
      /\ Carries(w[k], nal, from, to)
      /\ from # 2 /\ nal.frame \notin damaged => Preceded(w, buffer, k, nal, from - 1)

FragmentsInv == \A k \in 1 .. Len(wire) : InOrder(wire, h264_buf, k)

SenderInv ==
  /\ \A k \in DOMAIN nals : nals[k] \in Offered
  /\ nals # <<>> /\ sent > 0 /\ frame \notin damaged
       => Preceded(wire, h264_buf, Len(wire) + 1, nals[i], sent + 1)

LeftInv == NothingLeftOver /\ FragmentsInv /\ SenderInv

-----------------------------------------------------------------------------
(* Bytes, units and packets. *)

\* Some bytes of a unit are a sequence of bytes.
LEMMA BytesType ==
  ASSUME NEW n \in Nat, NEW nal \in NalsOf(1 .. n), NEW from \in Nat, NEW to \in Nat,
         from <= to + 1, from >= 1
  PROVE  Bytes(nal, from, to) \in Seq(Triple)
<1> DEFINE m == to - from + 1
<1>1. m \in Nat
  OBVIOUS
<1>2. nal.frame \in Nat /\ nal.index \in Nat
  BY DEF NalsOf
<1>3. \A k \in 1 .. m : <<nal.frame, nal.index, from + k - 1>> \in Triple
  BY <1>2 DEF Triple
<1>4. Bytes(nal, from, to) \in [1 .. m -> Triple]
  BY <1>3 DEF Bytes, Byte
<1>5. QED BY <1>1, <1>4, SeqDef

\* A packet of an earlier frame is one of the frames up to a later one.
LEMMA PacketsGrow ==
  ASSUME NEW n \in Nat, NEW m \in Nat, n <= m
  PROVE  Packets(n) \subseteq Packets(m)
<1>1. 1 .. n \subseteq 1 .. m
  OBVIOUS
<1>2. Singles(n) \subseteq Singles(m) /\ Fragments(n) \subseteq Fragments(m)
  BY <1>1, Zenon DEF Singles, Fragments
<1>3. QED BY <1>2 DEF Packets

LEMMA NalsGrow ==
  ASSUME NEW n \in Nat, NEW m \in Nat, n <= m
  PROVE  NalsOf(1 .. n) \subseteq NalsOf(1 .. m)
<1>1. 1 .. n \subseteq 1 .. m
  OBVIOUS
<1>2. QED BY <1>1, Zenon DEF NalsOf

\* The two kinds of packets are packets.
LEMMA SingleType ==
  ASSUME NEW n \in Nat, NEW nal \in NalsOf(1 .. n), NEW marker \in BOOLEAN,
         NEW seq \in 0 .. SeqMod - 1
  PROVE  SinglePacket(seq, marker, nal) \in Packets(n)
<1>1. nal.size \in Nat /\ nal.frame \in 1 .. n /\ nal.startcode \in {"long", "short"}
  BY DEF NalsOf
<1>2. Bytes(nal, 1, nal.size) \in Seq(Triple)
  <2>1. 1 \in Nat /\ 1 <= nal.size + 1 /\ 1 >= 1
    BY <1>1
  <2>2. QED BY <1>1, <2>1, BytesType
<1>3. SinglePacket(seq, marker, nal) \in Singles(n)
  BY <1>1, <1>2, Zenon DEF SinglePacket, Singles, Whole
<1>4. QED BY <1>3, Zenon DEF Packets

LEMMA FragmentType ==
  ASSUME NEW n \in Nat, NEW nal \in NalsOf(1 .. n), NEW marker \in BOOLEAN,
         NEW seq \in 0 .. SeqMod - 1, NEW from \in Nat, NEW to \in Nat,
         from <= to + 1, from >= 1
  PROVE  FragmentPacket(seq, marker, nal, from, to) \in Packets(n)
<1>1. nal.frame \in 1 .. n /\ nal.frame \in Nat /\ nal.index \in Nat
  BY DEF NalsOf
<1>2. Bytes(nal, from, to) \in Seq(Triple)
  BY BytesType
<1>3. Byte(nal, 1) \in Triple
  BY <1>1 DEF Byte, Triple
<1>4. (from = 2) \in BOOLEAN /\ (to = nal.size) \in BOOLEAN
  OBVIOUS
<1>5. FragmentPacket(seq, marker, nal, from, to) \in Fragments(n)
  BY <1>1, <1>2, <1>3, <1>4, Zenon DEF FragmentPacket, Fragments
<1>6. QED BY <1>5, Zenon DEF Packets

\* What the number, marker and frame of a new packet are.
LEMMA PacketFields ==
  ASSUME NEW seq, NEW marker, NEW nal, NEW from, NEW to
  PROVE  /\ SinglePacket(seq, marker, nal).seq = seq
         /\ SinglePacket(seq, marker, nal).marker = marker
         /\ SinglePacket(seq, marker, nal).frame = nal.frame
         /\ FragmentPacket(seq, marker, nal, from, to).seq = seq
         /\ FragmentPacket(seq, marker, nal, from, to).marker = marker
         /\ FragmentPacket(seq, marker, nal, from, to).frame = nal.frame
BY DEF SinglePacket, FragmentPacket

\* What is known of a packet on the wire.
LEMMA PacketParts ==
  ASSUME NEW n \in Nat, NEW p \in Packets(n)
  PROVE  /\ p.frame \in 1 .. n /\ p.seq \in 0 .. SeqMod - 1 /\ p.data \in Seq(Triple)
         /\ p.form = "fragment" => p.header \in Triple
BY DEF Packets, Singles, Fragments

\* The unit at hand.
LEMMA UnitAtHand ==
  ASSUME TypeOK, StreamInv, nals # <<>>
  PROVE  /\ i \in 1 .. Len(nals) /\ Len(nals) \in Nat
         /\ nals[i] \in NalsOf(1 .. frame) /\ nals[i].frame = frame
         /\ nals[i].size \in Nat /\ nals[i].size >= 2
         /\ sent \in 0 .. nals[i].size - 2
<1>1. i \in 1 .. Len(nals) /\ Len(nals) \in Nat /\ sent \in 0 .. nals[i].size - 2
  BY DEF TypeOK, StreamInv
<1>2. nals[i] \in NalsOf({frame})
  BY <1>1, ElementOfSeq DEF StreamInv
<1>3. frame \in 1 .. frame
  BY DEF StreamInv
<1>4. nals[i] \in NalsOf(1 .. frame) /\ nals[i].frame = frame
  BY <1>2, <1>3 DEF NalsOf
<1>5. nals[i].size \in Nat /\ nals[i].size >= 2
  BY <1>2 DEF NalsOf
<1>6. QED BY <1>1, <1>4, <1>5
-----------------------------------------------------------------------------
(* The satellite. *)

\* What a step of the sender leaves alone.
LEMMA SenderAside ==
  ASSUME TypeOK, UNCHANGED receiver, damaged' \subseteq 1 .. frame', frame' \in Nat,
         frame \in Nat, frame' >= frame, rtp_seq_number' \in 0 .. SeqMod - 1, frame' <= MaxFrames,
         i' \in 1 .. Len(nals') \/ (nals' = <<>> /\ i' = 1),
         nals' # <<>> => sent' \in 0 .. nals'[i'].size - 2
  PROVE  TypeOK'
<1>1. UNCHANGED <<polling, got_frame, h264_buf, rgb_buffer, shown, headers, ref>>
  BY DEF receiver, decoder
<1>2. frame' \in 0 .. MaxFrames
  BY RtpAssumption
<1>3. /\ ref \in 0 .. frame' /\ rgb_buffer.frame \in 0 .. frame' /\ shown.frame \in 0 .. frame'
  BY DEF TypeOK
<1>4. h264_buf \in Seq(Triple)
  BY DEF TypeOK, Triple
<1>5. QED BY <1>1, <1>2, <1>3, Zenon DEF TypeOK

\* A frame is encoded: its packets will be of a frame of their own.
LEMMA EncodeInv ==
  ASSUME IInv, NEW au \in AccessUnits, Encode(au), UNCHANGED receiver
  PROVE  IInv'
<1> USE DEF IInv
<1>1. /\ nals = <<>> /\ frame < MaxFrames /\ frame' = frame + 1
      /\ nals' = [k \in DOMAIN au |-> Nal(frame + 1, k, au[k])]
      /\ i' = 1 /\ sent' = 0 /\ offered' = offered \o nals'
      /\ UNCHANGED <<rtp_seq_number, wire, damaged>>
  BY DEF Encode
<1>2. frame \in Nat /\ frame' \in Nat
  BY <1>1 DEF StreamInv
<1>3. au \in Seq(Unit) /\ au # <<>> /\ Len(au) \in Nat /\ DOMAIN au = 1 .. Len(au) /\ Len(au) >= 1
  BY RtpAssumption
<1>4. ASSUME NEW k \in 1 .. Len(au) PROVE Nal(frame + 1, k, au[k]) \in NalsOf({frame'})
  <2>1. au[k] \in Unit
    BY <1>3, ElementOfSeq
  <2>2. /\ au[k].kind \in {"param", "idr", "delta"} /\ au[k].size \in Nat \ {0, 1}
        /\ au[k].startcode \in {"long", "short"}
    BY <2>1 DEF Unit
  <2>3. k \in Nat
    BY <1>3
  <2>4. QED BY <1>1, <2>2, <2>3, Zenon DEF Nal, NalsOf
<1>5. nals' \in [1 .. Len(au) -> NalsOf({frame'})]
  BY <1>1, <1>3, <1>4
<1>6. nals' \in Seq(NalsOf({frame'})) /\ Len(nals') = Len(au)
  BY <1>3, <1>5, SeqDef
<1>7. nals' # <<>> /\ i' \in 1 .. Len(nals')
  BY <1>1, <1>3, <1>6
<1>8. sent' \in 0 .. nals'[i'].size - 2
  <2>1. nals'[i'] \in NalsOf({frame'})
    BY <1>6, <1>7, ElementOfSeq
  <2>2. nals'[i'].size \in Nat /\ nals'[i'].size >= 2
    BY <2>1 DEF NalsOf
  <2>3. QED BY <1>1, <2>2
<1>9. damaged \subseteq 1 .. frame'
  BY <1>1, <1>2 DEF TypeOK
<1>10. TypeOK'
  <2>1. rtp_seq_number' \in 0 .. SeqMod - 1 /\ damaged' \subseteq 1 .. frame'
    BY <1>1, <1>9 DEF TypeOK
  <2>2. frame' >= frame /\ frame' <= MaxFrames
    BY <1>1, <1>2, RtpAssumption
  <2>3. QED BY <1>2, <1>7, <1>8, <2>1, <2>2, SenderAside
<1>11. StreamInv'
  <2>1. wire' \in Seq(Packets(frame'))
    <3>1. Packets(frame) \subseteq Packets(frame')
      BY <1>1, <1>2, PacketsGrow
    <3>2. QED BY <1>1, <3>1, SeqMonotonic DEF StreamInv
  <2>2. offered \in Seq(NalsOf(1 .. frame'))
    <3>1. NalsOf(1 .. frame) \subseteq NalsOf(1 .. frame')
      BY <1>1, <1>2, NalsGrow
    <3>2. QED BY <3>1, SeqMonotonic DEF StreamInv
  <2>3. nals' \in Seq(NalsOf(1 .. frame'))
    <3>1. {frame'} \subseteq 1 .. frame'
      BY <1>1, <1>2
    <3>2. NalsOf({frame'}) \subseteq NalsOf(1 .. frame')
      BY <3>1, Zenon DEF NalsOf
    <3>3. QED BY <1>6, <3>2, SeqMonotonic
  <2>4. offered' \in Seq(NalsOf(1 .. frame'))
    BY <1>1, <2>2, <2>3, ConcatProperties
  <2>5. frame' >= 1
    BY <1>1, <1>2
  <2>6. QED BY <1>2, <1>6, <2>1, <2>4, <2>5 DEF StreamInv
<1>12. PacketsAreNumbered'
  BY <1>1 DEF PacketsAreNumbered
<1>13. NumberInv'
  <2> SUFFICES ASSUME damaged' = {}, wire' # <<>>
               PROVE  /\ rtp_seq_number' = (wire'[Len(wire')].seq + 1) % SeqMod
                      /\ wire'[Len(wire')].marker <=> nals' = <<>> \/ wire'[Len(wire')].frame # frame'
    BY DEF NumberInv
  <2> DEFINE p == wire[Len(wire)]
  <2>1. wire # <<>> /\ damaged = {} /\ wire' = wire
    BY <1>1
  <2>2. rtp_seq_number = (p.seq + 1) % SeqMod /\ p.marker
    BY <1>1, <2>1 DEF NumberInv
  <2>3. Len(wire) \in 1 .. Len(wire)
    BY <2>1 DEF StreamInv
  <2>4. p.frame \in 1 .. frame
    BY <1>2, <2>3, ElementOfSeq, PacketParts DEF StreamInv
  <2>5. p.frame # frame'
    BY <1>1, <1>2, <2>4
  <2>6. QED BY <1>1, <2>1, <2>2, <2>5
<1>14. PictureInv'
  BY DEF PictureInv, receiver
<1>15. QED BY <1>10, <1>11, <1>12, <1>13, <1>14

\* A packet joins the others on the wire.
LEMMA TransmitInv ==
  ASSUME IInv, nals # <<>>, NEW p \in Packets(frame),
         p.seq = rtp_seq_number, p.frame = frame, p.marker <=> nals' = <<>>,
         Transmit(p), nals' = nals \/ nals' = <<>>, UNCHANGED receiver
  PROVE  StreamInv' /\ PacketsAreNumbered' /\ NumberInv' /\ PictureInv'
<1> USE DEF IInv
<1>1. /\ wire' = Append(wire, p) /\ rtp_seq_number' = (rtp_seq_number + 1) % SeqMod
      /\ UNCHANGED <<frame, offered, damaged>>
  BY DEF Transmit
<1>2. /\ wire' \in Seq(Packets(frame)) /\ Len(wire) \in Nat /\ Len(wire') = Len(wire) + 1
      /\ \A k \in 1 .. Len(wire) : wire'[k] = wire[k]
      /\ wire'[Len(wire) + 1] = p
  BY <1>1 DEF StreamInv
<1>3. StreamInv'
  <2>1. nals' \in Seq(NalsOf({frame}))
    BY EmptySeq DEF StreamInv
  <2>2. QED BY <1>1, <1>2, <2>1 DEF StreamInv
<1>4. NumberInv'
  <2>1. wire'[Len(wire')] = p
    BY <1>2
  <2>2. QED BY <1>1, <2>1 DEF NumberInv
<1>5. PacketsAreNumbered'
  <2> SUFFICES ASSUME damaged = {}, NEW k \in 1 .. Len(wire') - 1
               PROVE  /\ wire'[k + 1].seq = (wire'[k].seq + 1) % SeqMod
                      /\ wire'[k].marker <=> wire'[k + 1].frame # wire'[k].frame
    BY <1>1 DEF PacketsAreNumbered
  <2>1. CASE k = Len(wire)
    <3>1. wire'[k] = wire[Len(wire)] /\ wire'[k + 1] = p /\ wire # <<>>
      BY <1>2, <2>1
    <3>2. QED BY <3>1 DEF NumberInv
  <2>2. CASE k # Len(wire)
    <3>1. k \in 1 .. Len(wire) - 1 /\ wire'[k] = wire[k] /\ wire'[k + 1] = wire[k + 1]
      BY <1>2, <2>2
    <3>2. QED BY <3>1 DEF PacketsAreNumbered
  <2>3. QED BY <2>1, <2>2
<1>6. PictureInv'
  BY DEF PictureInv, receiver
<1>7. QED BY <1>3, <1>4, <1>5, <1>6

\* After a unit comes the next one, or the end of the frame.
LEMMA NalDoneType ==
  ASSUME TypeOK, StreamInv, nals # <<>>, NalDone
  PROVE  /\ is_last_nal => nals' = <<>> /\ i' = 1
         /\ ~is_last_nal => /\ nals' = nals /\ i' \in 1 .. Len(nals)
                            /\ sent' \in 0 .. nals[i'].size - 2
<1>1. i \in 1 .. Len(nals) /\ Len(nals) \in Nat
  BY UnitAtHand
<1>2. ASSUME ~is_last_nal PROVE /\ nals' = nals /\ i' \in 1 .. Len(nals)
                                /\ sent' \in 0 .. nals[i'].size - 2
  <2>1. nals' = nals /\ i' = i + 1 /\ sent' = 0 /\ i # Len(nals)
    BY <1>2 DEF NalDone, is_last_nal
  <2>2. i' \in 1 .. Len(nals)
    BY <1>1, <2>1
  <2>3. nals[i'] \in NalsOf({frame})
    BY <2>2, ElementOfSeq DEF StreamInv
  <2>4. nals[i'].size \in Nat /\ nals[i'].size >= 2
    BY <2>3 DEF NalsOf
  <2>5. QED BY <2>1, <2>2, <2>4
<1>3. QED BY <1>2 DEF NalDone

\* What the types need after a packet was sent.
LEMMA SendTypes ==
  ASSUME IInv, nals # <<>>, NEW p, Transmit(p), UNCHANGED receiver,
         i' \in 1 .. Len(nals') \/ (nals' = <<>> /\ i' = 1),
         nals' # <<>> => sent' \in 0 .. nals'[i'].size - 2
  PROVE  TypeOK'
<1>1. UNCHANGED <<frame, damaged>> /\ rtp_seq_number' = (rtp_seq_number + 1) % SeqMod
  BY DEF Transmit
<1>2. rtp_seq_number' \in 0 .. SeqMod - 1
  BY <1>1, RtpAssumption DEF IInv, TypeOK
<1>3. frame \in Nat /\ frame' >= frame /\ frame' <= MaxFrames /\ damaged' \subseteq 1 .. frame'
  BY <1>1, RtpAssumption DEF IInv, TypeOK
<1>4. QED BY <1>1, <1>2, <1>3, SenderAside DEF IInv

\* A unit that fits in a packet.
LEMMA SendSingleInv ==
  ASSUME IInv, SendSingle, UNCHANGED receiver
  PROVE  IInv'
<1> USE DEF IInv
<1> DEFINE p == SinglePacket(rtp_seq_number, is_last_nal, nals[i])
<1>1. nals # <<>> /\ Transmit(p) /\ NalDone
  BY DEF SendSingle
<1>2. p \in Packets(frame)
  <2>1. rtp_seq_number \in 0 .. SeqMod - 1 /\ is_last_nal \in BOOLEAN /\ frame \in Nat
    BY DEF TypeOK, StreamInv, is_last_nal
  <2>2. QED BY <1>1, <2>1, UnitAtHand, SingleType
<1>3. p.seq = rtp_seq_number /\ p.frame = frame /\ (p.marker <=> is_last_nal)
  BY <1>1, UnitAtHand, PacketFields
<1> HIDE DEF p
<1>4. is_last_nal <=> nals' = <<>>
  BY <1>1, NalDoneType
<1>5. StreamInv' /\ PacketsAreNumbered' /\ NumberInv' /\ PictureInv'
  BY <1>1, <1>2, <1>3, <1>4, NalDoneType, TransmitInv
<1>6. TypeOK'
  BY <1>1, NalDoneType, SendTypes
<1>7. QED BY <1>5, <1>6

\* A fragment of a unit that does not fit.
LEMMA SendFragmentInv ==
  ASSUME IInv, SendFragment, UNCHANGED receiver
  PROVE  IInv'
<1> USE DEF IInv
<1> DEFINE mark == is_last_nal /\ is_last_frag
           to == sent + 1 + frag_size
           p == FragmentPacket(rtp_seq_number, mark, nals[i], sent + 2, to)
<1>1. /\ nals # <<>> /\ Transmit(p) /\ nals[i].size > MAX_PAYLOAD_SIZE
      /\ IF is_last_frag THEN NalDone ELSE sent' = sent + frag_size /\ UNCHANGED <<nals, i>>
  BY DEF SendFragment
<1>2. /\ i \in 1 .. Len(nals) /\ sent \in 0 .. nals[i].size - 2 /\ nals[i].size \in Nat
      /\ nals[i].size >= 2
  BY <1>1, UnitAtHand
<1>3. frag_size \in Nat /\ frag_size <= nals[i].size - 1 - sent
  BY <1>2, RtpAssumption DEF frag_size, FragmentSize
<1>4. p \in Packets(frame)
  <2>1. rtp_seq_number \in 0 .. SeqMod - 1 /\ mark \in BOOLEAN /\ frame \in Nat
    BY DEF TypeOK, StreamInv
  <2>2. sent + 2 \in Nat /\ to \in Nat /\ sent + 2 >= 1 /\ sent + 2 <= to + 1
    BY <1>2, <1>3
  <2> HIDE DEF mark, to
  <2>3. QED BY <1>1, <2>1, <2>2, UnitAtHand, FragmentType
<1>5. p.seq = rtp_seq_number /\ p.frame = frame /\ (p.marker <=> is_last_nal /\ is_last_frag)
  <2> HIDE DEF mark, to
  <2>1. p.seq = rtp_seq_number /\ p.frame = nals[i].frame /\ p.marker = mark
    BY PacketFields
  <2>2. nals[i].frame = frame
    BY <1>1, UnitAtHand
  <2>3. QED BY <2>1, <2>2 DEF mark
<1> HIDE DEF p, mark, to
<1>6. CASE is_last_frag
  <2>1. is_last_nal <=> nals' = <<>>
    BY <1>1, <1>6, NalDoneType
  <2>2. StreamInv' /\ PacketsAreNumbered' /\ NumberInv' /\ PictureInv'
    BY <1>1, <1>4, <1>5, <1>6, <2>1, NalDoneType, TransmitInv
  <2>3. TypeOK'
    BY <1>1, <1>6, NalDoneType, SendTypes
  <2>4. QED BY <2>2, <2>3
<1>7. CASE ~is_last_frag
  <2>1. nals' = nals /\ i' = i /\ sent' = sent + frag_size
    BY <1>1, <1>7
  <2>2. StreamInv' /\ PacketsAreNumbered' /\ NumberInv' /\ PictureInv'
    BY <1>1, <1>4, <1>5, <1>7, <2>1, TransmitInv
  <2>3. sent' \in 0 .. nals[i].size - 2
    BY <1>2, <1>3, <1>7, <2>1 DEF is_last_frag
  <2>4. TypeOK'
    BY <1>1, <1>2, <2>1, <2>3, SendTypes
  <2>5. QED BY <2>2, <2>4
<1>8. QED BY <1>6, <1>7

\* sendto fails: the frame counts as damaged.
LEMMA SendFailsInv ==
  ASSUME IInv, SendFails, UNCHANGED receiver
  PROVE  IInv'
<1> USE DEF IInv
<1>1. /\ nals # <<>> /\ nals' = <<>> /\ i' = 1 /\ damaged' = damaged \cup {frame}
      /\ UNCHANGED <<rtp_seq_number, frame, offered, wire>>
  BY DEF SendFails
<1>2. frame \in Nat /\ frame >= 1
  BY <1>1 DEF StreamInv
<1>3. damaged' # {}
  BY <1>1
<1>4. TypeOK'
  <2>1. damaged' \subseteq 1 .. frame'
    BY <1>1, <1>2 DEF TypeOK
  <2>2. rtp_seq_number' \in 0 .. SeqMod - 1 /\ frame' <= MaxFrames /\ frame' >= frame
    BY <1>1, <1>2, RtpAssumption DEF TypeOK
  <2>3. QED BY <1>1, <1>2, <2>1, <2>2, SenderAside
<1>5. StreamInv'
  BY <1>1, EmptySeq DEF StreamInv
<1>6. PacketsAreNumbered' /\ NumberInv'
  BY <1>3 DEF PacketsAreNumbered, NumberInv
<1>7. PictureInv'
  BY DEF PictureInv, receiver
<1>8. QED BY <1>4, <1>5, <1>6, <1>7
-----------------------------------------------------------------------------
(* The link. *)

\* A fault of the link damages frames, and the numbering says nothing more.
LEMMA DamageInv ==
  ASSUME IInv, NEW frames \in SUBSET (1 .. frame), frames # {}, Damage(frames),
         wire' \in Seq(Packets(frame))
  PROVE  IInv'
<1> USE DEF IInv
<1>1. /\ damaged' = damaged \cup frames /\ damaged' # {} /\ damaged' \subseteq 1 .. frame
      /\ UNCHANGED <<sender, receiver>>
  BY DEF Damage, TypeOK
<1>2. UNCHANGED <<rtp_seq_number, frame, nals, i, sent, offered>>
  BY <1>1 DEF sender
<1>3. UNCHANGED <<polling, got_frame, h264_buf, rgb_buffer, shown, headers, ref>>
  BY <1>1 DEF receiver, decoder
<1>4. TypeOK'
  BY <1>1, <1>2, <1>3 DEF TypeOK
<1>5. StreamInv'
  BY <1>2 DEF StreamInv
<1>6. PacketsAreNumbered' /\ NumberInv'
  BY <1>1 DEF PacketsAreNumbered, NumberInv
<1>7. PictureInv'
  BY <1>3 DEF PictureInv
<1>8. QED BY <1>4, <1>5, <1>6, <1>7

\* The packet that arrives next.
LEMMA HeadPacket ==
  ASSUME StreamInv, wire # <<>>
  PROVE  /\ Head(wire) \in Packets(frame) /\ Tail(wire) \in Seq(Packets(frame))
         /\ Head(wire).frame \in 1 .. frame
<1>1. wire \in Seq(Packets(frame)) /\ frame \in Nat
  BY DEF StreamInv
<1>2. Head(wire) \in Packets(frame) /\ Tail(wire) \in Seq(Packets(frame))
  BY <1>1, HeadTailProperties
<1>3. QED BY <1>1, <1>2, PacketParts

LEMMA LinkInv ==
  ASSUME IInv, Link
  PROVE  IInv'
<1> USE DEF IInv
<1>1. CASE Lose
  <2>1. wire # <<>> /\ wire' = Tail(wire) /\ Damage({Head(wire).frame})
    BY <1>1 DEF Lose
  <2>2. QED BY <2>1, HeadPacket, DamageInv
<1>2. ASSUME NEW k \in 1 .. Len(wire) - 1, Overtake(k) PROVE IInv'
  <2>1. /\ wire' = [wire EXCEPT ![k] = wire[k + 1], ![k + 1] = wire[k]]
        /\ Damage({wire[k].frame, wire[k + 1].frame})
    BY <1>2 DEF Overtake
  <2>2. /\ wire \in Seq(Packets(frame)) /\ frame \in Nat /\ Len(wire) \in Nat
        /\ k \in 1 .. Len(wire) /\ k + 1 \in 1 .. Len(wire)
    BY DEF StreamInv
  <2>3. wire[k] \in Packets(frame) /\ wire[k + 1] \in Packets(frame)
    BY <2>2, ElementOfSeq
  <2>4. {wire[k].frame, wire[k + 1].frame} \in SUBSET (1 .. frame)
    BY <2>2, <2>3, PacketParts
  <2>5. wire' \in Seq(Packets(frame))
    <3> DEFINE w == [wire EXCEPT ![k] = wire[k + 1]]
    <3>1. w \in Seq(Packets(frame)) /\ Len(w) = Len(wire)
      BY <2>2, <2>3, ExceptSeq
    <3>2. [w EXCEPT ![k + 1] = wire[k]] \in Seq(Packets(frame))
      BY <2>2, <2>3, <3>1, ExceptSeq
    <3>3. QED BY <2>1, <3>2
  <2>6. QED BY <2>1, <2>4, <2>5, DamageInv
<1>3. CASE Duplicate
  <2>1. wire # <<>> /\ wire' = <<Head(wire)>> \o wire /\ Damage({Head(wire).frame})
    BY <1>3 DEF Duplicate
  <2>2. <<Head(wire)>> \in Seq(Packets(frame)) /\ wire \in Seq(Packets(frame))
    BY <2>1, HeadPacket DEF StreamInv
  <2>3. wire' \in Seq(Packets(frame))
    BY <2>1, <2>2, ConcatProperties
  <2>4. QED BY <2>1, <2>3, HeadPacket, DamageInv
<1>4. QED BY <1>1, <1>2, <1>3 DEF Link

-----------------------------------------------------------------------------
(* The receiver. *)

\* Every unit offered is of a frame encoded.
LEMMA OfferedType ==
  ASSUME StreamInv, NEW nal \in Offered
  PROVE  nal.frame \in 1 .. frame
<1>1. PICK k \in DOMAIN offered : nal = offered[k]
  BY DEF Offered
<1>2. k \in 1 .. Len(offered) /\ offered \in Seq(NalsOf(1 .. frame))
  BY <1>1 DEF StreamInv
<1>3. nal \in NalsOf(1 .. frame)
  BY <1>1, <1>2, ElementOfSeq
<1>4. QED BY <1>3 DEF NalsOf

\* What the receiver shows is of a frame encoded, and is noted as a frame got.
DecodedWell ==
  /\ got_frame' \in BOOLEAN /\ headers' \in BOOLEAN
  /\ ref' \in 0 .. frame /\ rgb_buffer'.frame \in 0 .. frame
  /\ (rgb_buffer' = rgb_buffer /\ got_frame' = got_frame) \/ got_frame'

LEMMA ShowsType ==
  ASSUME TypeOK, frame \in Nat, NEW n \in 1 .. frame, NEW exact, Shows(Picture(n, exact))
  PROVE  got_frame' = TRUE /\ rgb_buffer'.frame \in 0 .. frame
BY DEF Shows, Picture

LEMMA ShowsNothingType ==
  ASSUME TypeOK, ShowsNothing
  PROVE  /\ rgb_buffer' = rgb_buffer /\ got_frame' = got_frame
         /\ got_frame' \in BOOLEAN /\ rgb_buffer'.frame \in 0 .. frame
BY DEF ShowsNothing, TypeOK

LEMMA DecodeType ==
  ASSUME TypeOK, StreamInv, NEW bytes, NEW n \in 1 .. frame, Decode(bytes, n, Offered)
  PROVE  DecodedWell
<1>1. /\ frame \in Nat /\ ref \in 0 .. frame /\ headers \in BOOLEAN
      /\ 0 \in 0 .. frame /\ 1 .. frame \subseteq 0 .. frame
  BY DEF TypeOK, StreamInv
<1>2. ASSUME NEW nal \in Offered, DecodeWhole(nal) PROVE DecodedWell
  <2>1. nal.frame \in 1 .. frame
    BY OfferedType
  <2>2. CASE nal.kind = "param"
    <3>1. headers' = TRUE /\ ShowsNothing /\ ref' = ref
      BY <1>2, <2>2 DEF DecodeWhole
    <3>2. QED BY <1>1, <3>1, ShowsNothingType DEF DecodedWell
  <2>3. CASE nal.kind = "idr"
    <3>1. /\ IF headers THEN Shows(Picture(nal.frame, TRUE)) ELSE ShowsNothing
          /\ ref' = IF headers THEN nal.frame ELSE ref
          /\ headers' = headers
      BY <1>2, <2>3 DEF DecodeWhole
    <3>2. CASE headers
      <4>1. got_frame' = TRUE /\ rgb_buffer'.frame \in 0 .. frame
        BY <1>1, <2>1, <3>1, <3>2, ShowsType
      <4>2. QED BY <1>1, <2>1, <3>1, <3>2, <4>1 DEF DecodedWell
    <3>3. CASE ~headers
      BY <1>1, <3>1, <3>3, ShowsNothingType DEF DecodedWell
    <3>4. QED BY <3>2, <3>3
  <2>4. CASE nal.kind = "delta"
    <3> DEFINE exact == ref # 0 /\ ref = nal.frame - 1
    <3>1. /\ Shows(Picture(nal.frame, exact)) \/ ShowsNothing
          /\ ref' = IF ref = nal.frame - 1 THEN nal.frame ELSE 0
          /\ headers' = headers
      BY <1>2, <2>4 DEF DecodeWhole
    <3> HIDE DEF exact
    <3>2. ref' \in 0 .. frame
      BY <1>1, <2>1, <3>1
    <3>3. CASE Shows(Picture(nal.frame, exact))
      <4>1. got_frame' = TRUE /\ rgb_buffer'.frame \in 0 .. frame
        BY <1>1, <2>1, <3>3, ShowsType
      <4>2. QED BY <1>1, <3>1, <3>2, <4>1 DEF DecodedWell
    <3>4. CASE ShowsNothing
      BY <1>1, <3>1, <3>2, <3>4, ShowsNothingType DEF DecodedWell
    <3>5. QED BY <3>1, <3>3, <3>4
  <2>5. nal.kind \in {"param", "idr", "delta"}
    <3>1. PICK k \in DOMAIN offered : nal = offered[k]
      BY DEF Offered
    <3>2. k \in 1 .. Len(offered) /\ offered \in Seq(NalsOf(1 .. frame))
      BY <3>1 DEF StreamInv
    <3>3. nal \in NalsOf(1 .. frame)
      BY <3>1, <3>2, ElementOfSeq
    <3>4. QED BY <3>3 DEF NalsOf
  <2>6. QED BY <2>2, <2>3, <2>4, <2>5
<1>3. ASSUME DecodeDamaged(n) PROVE DecodedWell
  <2>1. CASE ShowsNothing /\ UNCHANGED <<headers, ref>>
    BY <1>1, <2>1, ShowsNothingType DEF DecodedWell
  <2>2. CASE Shows(Picture(n, FALSE)) /\ ref' = 0 /\ UNCHANGED headers
    <3>1. got_frame' = TRUE /\ rgb_buffer'.frame \in 0 .. frame
      BY <1>1, <2>2, ShowsType
    <3>2. QED BY <1>1, <2>2, <3>1 DEF DecodedWell
  <2>3. QED BY <1>3, <2>1, <2>2 DEF DecodeDamaged
<1>4. QED BY <1>2, <1>3 DEF Decode

\* The buffer holds bytes.
LEMMA AssembledType ==
  ASSUME TypeOK, StreamInv, NEW p \in Packets(frame), p.form = "fragment"
  PROVE  Assembled(p) \in Seq(Triple)
<1>1. p.data \in Seq(Triple) /\ p.header \in Triple /\ h264_buf \in Seq(Triple)
  BY PacketParts DEF StreamInv, TypeOK, Triple
<1>2. StartCode \in Triple
  BY DEF StartCode, Triple
<1>3. <<StartCode, p.header>> \in Seq(Triple)
  BY <1>1, <1>2
<1>4. <<StartCode, p.header>> \o p.data \in Seq(Triple) /\ h264_buf \o p.data \in Seq(Triple)
  BY <1>1, <1>3, ConcatProperties
<1>5. QED BY <1>4 DEF Assembled

\* A packet leaves the wire and may change what was decoded.
LEMMA ReceivesInv ==
  ASSUME IInv, Receives
  PROVE  IInv'
<1> USE DEF IInv
<1> DEFINE p == Head(wire)
<1>1. /\ polling /\ wire # <<>> /\ wire' = Tail(wire) /\ UNCHANGED <<polling, shown>>
      /\ ReceiveSingle(p, Offered) \/ ReceiveFragment(p, Offered)
      /\ UNCHANGED <<rtp_seq_number, frame, nals, i, sent, offered, damaged>>
  BY DEF Receives, Receive, sender
<1>2. /\ p \in Packets(frame) /\ p.frame \in 1 .. frame
      /\ Tail(wire) \in Seq(Packets(frame)) /\ frame \in Nat
  BY <1>1, HeadPacket DEF StreamInv
<1> HIDE DEF p
<1>3. /\ UNCHANGED <<got_frame, rgb_buffer, decoder>> => DecodedWell
  <2> SUFFICES ASSUME UNCHANGED <<got_frame, rgb_buffer, decoder>> PROVE DecodedWell
    OBVIOUS
  <2>1. UNCHANGED <<got_frame, rgb_buffer, headers, ref>>
    BY DEF decoder
  <2>2. QED BY <2>1 DEF DecodedWell, TypeOK
<1>4. DecodedWell /\ h264_buf' \in Seq(Triple)
  <2>1. CASE ReceiveSingle(p, Offered)
    <3>1. DecodedWell
      BY <1>2, <1>3, <2>1, DecodeType DEF ReceiveSingle
    <3>2. h264_buf' = h264_buf
      BY <2>1 DEF ReceiveSingle
    <3>3. QED BY <3>1, <3>2 DEF TypeOK, Triple
  <2>2. CASE ReceiveFragment(p, Offered)
    <3>1. DecodedWell
      BY <1>2, <1>3, <2>2, DecodeType DEF ReceiveFragment
    <3>2. p.form = "fragment" /\ (h264_buf' = <<>> \/ h264_buf' = Assembled(p))
      BY <2>2 DEF ReceiveFragment
    <3>3. QED BY <1>2, <3>1, <3>2, AssembledType, EmptySeq
  <2>3. QED BY <1>1, <2>1, <2>2
<1>5. TypeOK'
  BY <1>1, <1>4 DEF TypeOK, DecodedWell, Triple
<1>6. StreamInv'
  BY <1>1, <1>2 DEF StreamInv
<1>7. /\ wire \in Seq(Packets(frame)) /\ Len(wire) \in Nat /\ Len(wire') = Len(wire) - 1
      /\ \A k \in 1 .. Len(wire') : wire'[k] = wire[k + 1]
  BY <1>1 DEF StreamInv
<1>8. PacketsAreNumbered'
  <2> SUFFICES ASSUME damaged = {}, NEW k \in 1 .. Len(wire') - 1
               PROVE  /\ wire'[k + 1].seq = (wire'[k].seq + 1) % SeqMod
                      /\ wire'[k].marker <=> wire'[k + 1].frame # wire'[k].frame
    BY <1>1 DEF PacketsAreNumbered
  <2>1. /\ k + 1 \in 1 .. Len(wire) - 1 /\ wire'[k] = wire[k + 1]
        /\ wire'[k + 1] = wire[(k + 1) + 1]
    BY <1>7
  <2>2. QED BY <2>1 DEF PacketsAreNumbered
<1>9. NumberInv'
  <2> SUFFICES ASSUME damaged = {}, wire' # <<>>
               PROVE  wire'[Len(wire')] = wire[Len(wire)]
    BY <1>1 DEF NumberInv
  <2>1. wire' \in Seq(Packets(frame))
    BY <1>1, <1>2
  <2>2. Len(wire') \in 1 .. Len(wire') /\ Len(wire') + 1 = Len(wire)
    BY <1>7, <2>1
  <2>3. QED BY <1>7, <2>2
<1>10. PictureInv'
  BY <1>1, <1>4 DEF PictureInv, DecodedWell
<1>11. QED BY <1>5, <1>6, <1>8, <1>9, <1>10

\* A poll begins, or ends and shows what it has decoded.
LEMMA PollsInv ==
  ASSUME IInv, Polls
  PROVE  IInv'
<1> USE DEF IInv
<1>1. /\ UNCHANGED <<rtp_seq_number, frame, nals, i, sent, offered, damaged, wire>>
      /\ UNCHANGED <<h264_buf, rgb_buffer, headers, ref>>
  BY DEF Polls, PollStart, PollEnd, sender, decoder
<1>2. \/ ~polling /\ polling' = TRUE /\ got_frame' = FALSE /\ shown' = shown
      \/ /\ polling /\ polling' = FALSE /\ got_frame' = got_frame
         /\ shown' = IF got_frame THEN rgb_buffer ELSE shown
  BY DEF Polls, PollStart, PollEnd
<1>3. /\ polling' \in BOOLEAN /\ got_frame' \in BOOLEAN
      /\ shown' = shown \/ shown' = rgb_buffer
  BY <1>2 DEF TypeOK
<1>4. TypeOK'
  BY <1>1, <1>3 DEF TypeOK
<1>5. StreamInv' /\ PacketsAreNumbered' /\ NumberInv'
  BY <1>1 DEF StreamInv, PacketsAreNumbered, NumberInv
<1>6. PictureInv'
  BY <1>1, <1>2 DEF PictureInv
<1>7. QED BY <1>4, <1>5, <1>6

-----------------------------------------------------------------------------
(* The theorems. *)

\* The invariant holds at the start.
LEMMA InvInit == Init => IInv
<1> SUFFICES ASSUME Init PROVE IInv
  OBVIOUS
<1> USE DEF Init, DownlinkInit, ReceiverInit
<1>1. NoPicture.frame = 0
  BY DEF NoPicture, Picture
<1>2. TypeOK
  <2>1. polling \in BOOLEAN /\ got_frame \in BOOLEAN /\ headers \in BOOLEAN
    BY Zenon
  <2>2. /\ rtp_seq_number \in 0 .. SeqMod - 1 /\ frame \in 0 .. MaxFrames
        /\ h264_buf \in Seq(Nat \X Nat \X Nat) /\ damaged \subseteq 1 .. frame
        /\ ref \in 0 .. frame
    BY EmptySeq, RtpAssumption
  <2>3. rgb_buffer.frame \in 0 .. frame /\ shown.frame \in 0 .. frame
    BY <1>1
  <2>4. nals = <<>> /\ i = 1
    OBVIOUS
  <2>5. QED BY <2>1, <2>2, <2>3, <2>4, Zenon DEF TypeOK
<1>3. StreamInv
  BY EmptySeq DEF StreamInv
<1>4. PacketsAreNumbered /\ NumberInv
  <2>1. 1 .. Len(wire) - 1 = {}
    BY EmptySeq
  <2>2. QED BY <2>1 DEF PacketsAreNumbered, NumberInv
<1>5. PictureInv
  BY DEF PictureInv
<1>6. QED BY <1>2, <1>3, <1>4, <1>5 DEF IInv

\* The inductive invariant of the video path, whatever goes wrong on it.
THEOREM Invariance == Spec => []IInv
<1>1. IInv /\ [Next]_vars => IInv'
  <2> SUFFICES ASSUME IInv, [Next]_vars PROVE IInv'
    OBVIOUS
  <2>1. CASE Satellite
    <3>1. UNCHANGED receiver
      BY <2>1 DEF Satellite
    <3>2. ASSUME NEW au \in AccessUnits, Encode(au) PROVE IInv'
      BY <3>1, <3>2, EncodeInv
    <3>3. CASE SendSingle
      BY <3>1, <3>3, SendSingleInv
    <3>4. CASE SendFragment
      BY <3>1, <3>4, SendFragmentInv
    <3>5. QED BY <2>1, <3>2, <3>3, <3>4 DEF Satellite, Send
  <2>2. CASE SendError
    BY <2>2, SendFailsInv DEF SendError
  <2>3. CASE Link
    BY <2>3, LinkInv
  <2>4. CASE Polls
    BY <2>4, PollsInv
  <2>5. CASE Receives
    BY <2>5, ReceivesInv
  <2>6. CASE UNCHANGED vars
    <3>1. /\ UNCHANGED <<rtp_seq_number, frame, nals, i, sent, offered, damaged, wire>>
          /\ UNCHANGED <<polling, got_frame, h264_buf, rgb_buffer, shown, headers, ref>>
      BY <2>6 DEF vars, sender, receiver, decoder
    <3>2. QED
      BY <3>1 DEF IInv, TypeOK, StreamInv, PacketsAreNumbered, NumberInv, PictureInv
  <2>7. QED BY <2>1, <2>2, <2>3, <2>4, <2>5, <2>6 DEF Next
<1>2. QED BY <1>1, InvInit, PTL DEF Spec

\* Every variable of the video path keeps its type.
THEOREM TypeCorrect == Spec => []TypeOK
<1>1. IInv => TypeOK
  BY DEF IInv
<1>2. QED BY <1>1, Invariance, PTL

\* Until the first fault the packets on the wire are numbered one after the
\* other, modulo whatever the counter wraps at, and the marker is on the last
\* packet of each frame and on no other.
THEOREM Numbered == Spec => []PacketsAreNumbered
<1>1. IInv => PacketsAreNumbered
  BY DEF IInv
<1>2. QED BY <1>1, Invariance, PTL

\* Between two polls the screen shows the picture decoded last.
THEOREM Current == Spec => []ScreenIsCurrent
<1>1. IInv => ScreenIsCurrent
  BY DEF IInv, PictureInv, ScreenIsCurrent
<1>2. QED BY <1>1, Invariance, PTL
-----------------------------------------------------------------------------
(* The bytes of a unit in the buffer. *)

\* What is known of a unit offered.
LEMMA OfferedNal ==
  ASSUME StreamInv, NEW nal \in Offered
  PROVE  /\ nal.frame \in 1 .. frame /\ nal.frame \in Nat /\ nal.index \in Nat
         /\ nal.size \in Nat /\ nal.size >= 2
<1>1. PICK k \in DOMAIN offered : nal = offered[k]
  BY DEF Offered
<1>2. k \in 1 .. Len(offered) /\ offered \in Seq(NalsOf(1 .. frame)) /\ frame \in Nat
  BY <1>1 DEF StreamInv
<1>3. nal \in NalsOf(1 .. frame)
  BY <1>1, <1>2, ElementOfSeq
<1>4. nal.frame \in 1 .. frame /\ nal.index \in Nat /\ nal.size \in Nat \ {0, 1}
  BY <1>3 DEF NalsOf
<1>5. QED BY <1>2, <1>4

\* Two sequences joined, told by their elements.
LEMMA Glue ==
  ASSUME NEW S, NEW c \in Seq(S), NEW b \in Seq(S), NEW d \in Seq(S),
         Len(d) = Len(c) + Len(b),
         \A k \in 1 .. Len(c) : d[k] = c[k],
         \A k \in 1 .. Len(b) : d[Len(c) + k] = b[k]
  PROVE  c \o b = d
<1>1. /\ c \o b \in Seq(S) /\ Len(c \o b) = Len(c) + Len(b)
      /\ \A k \in 1 .. Len(c) + Len(b) : (c \o b)[k] = IF k <= Len(c) THEN c[k] ELSE b[k - Len(c)]
  BY ConcatProperties
<1>2. Len(c) \in Nat /\ Len(b) \in Nat
  BY LenProperties
<1>3. ASSUME NEW k \in 1 .. Len(c \o b) PROVE (c \o b)[k] = d[k]
  <2>1. CASE k <= Len(c)
    BY <1>1, <1>2, <2>1
  <2>2. CASE k > Len(c)
    <3>1. k - Len(c) \in 1 .. Len(b) /\ Len(c) + (k - Len(c)) = k
      BY <1>1, <1>2, <2>2
    <3>2. d[k] = b[k - Len(c)]
      BY <3>1
    <3>3. QED BY <1>1, <1>2, <2>2, <3>2
  <2>3. QED BY <1>2, <2>1, <2>2
<1>4. QED BY <1>1, <1>3, SeqEqual

\* The bytes one by one.
LEMMA BytesAre ==
  ASSUME NEW nal, nal.frame \in Nat, nal.index \in Nat,
         NEW from \in Nat, NEW to \in Nat, from <= to + 1, from >= 1
  PROVE  /\ Bytes(nal, from, to) \in Seq(Triple)
         /\ Len(Bytes(nal, from, to)) = to - from + 1
         /\ \A k \in 1 .. to - from + 1 :
              Bytes(nal, from, to)[k] = <<nal.frame, nal.index, from + k - 1>>
<1> DEFINE m == to - from + 1
           b == [k \in 1 .. m |-> <<nal.frame, nal.index, from + k - 1>>]
<1>1. m \in Nat
  OBVIOUS
<1>2. Bytes(nal, from, to) = b
  BY DEF Bytes, Byte
<1>3. b \in [1 .. m -> Triple]
  BY DEF Triple
<1>4. b \in Seq(Triple) /\ Len(b) = m
  <2> HIDE DEF b, m
  <2>1. b \in Seq(Triple)
    BY <1>1, <1>3, SeqDef
  <2>2. QED BY <1>1, <1>3, <2>1
<1>5. QED BY <1>2, <1>4

\* The buffer position by position.
LEMMA BegunIs ==
  ASSUME NEW nal, nal.frame \in Nat, nal.index \in Nat, NEW to \in Nat
  PROVE  /\ Begun(nal, to) \in Seq(Triple) /\ Len(Begun(nal, to)) = to + 1
         /\ Begun(nal, to)[1] = StartCode
         /\ \A k \in 1 .. to : Begun(nal, to)[k + 1] = <<nal.frame, nal.index, k>>
<1> DEFINE b == Bytes(nal, 1, to)
           c == <<StartCode>>
<1>1. b \in Seq(Triple) /\ Len(b) = to
  <2>1. 1 \in Nat /\ 1 <= to + 1 /\ 1 >= 1
    OBVIOUS
  <2>2. b \in Seq(Triple) /\ Len(b) = to - 1 + 1
    <3> HIDE DEF b
    <3>1. Bytes(nal, 1, to) \in Seq(Triple) /\ Len(Bytes(nal, 1, to)) = to - 1 + 1
      BY <2>1, BytesAre
    <3>2. QED BY <3>1 DEF b
  <2> HIDE DEF b
  <2>3. QED BY <2>2
<1>2. ASSUME NEW k \in 1 .. to PROVE b[k] = <<nal.frame, nal.index, k>>
  BY DEF Bytes, Byte
<1>3. c \in Seq(Triple) /\ Len(c) = 1 /\ c[1] = StartCode
  BY DEF StartCode, Triple
<1> HIDE DEF b, c
<1>4. /\ c \o b \in Seq(Triple) /\ Len(c \o b) = Len(c) + Len(b)
      /\ \A k \in 1 .. Len(c) + Len(b) : (c \o b)[k] = IF k <= Len(c) THEN c[k] ELSE b[k - Len(c)]
  BY <1>1, <1>3, ConcatProperties
<1>5. Len(c \o b) = to + 1 /\ (c \o b)[1] = StartCode
  BY <1>1, <1>3, <1>4
<1>6. ASSUME NEW k \in 1 .. to PROVE (c \o b)[k + 1] = <<nal.frame, nal.index, k>>
  <2>1. /\ k + 1 \in 1 .. Len(c) + Len(b) /\ ~(k + 1 <= Len(c)) /\ (k + 1) - Len(c) = k
    BY <1>1, <1>3
  <2>2. (c \o b)[k + 1] = b[k]
    BY <1>4, <2>1
  <2>3. QED BY <1>2, <2>2
<1>7. Begun(nal, to) = c \o b
  BY DEF Begun, b, c
<1>8. QED BY <1>4, <1>5, <1>6, <1>7

\* The first fragment of a unit begins it.
LEMMA FirstFragment ==
  ASSUME NEW nal, nal.frame \in Nat, nal.index \in Nat, NEW to \in Nat, to >= 2
  PROVE  <<StartCode, Byte(nal, 1)>> \o Bytes(nal, 2, to) = Begun(nal, to)
<1> DEFINE b == Bytes(nal, 2, to)
           c == <<StartCode, Byte(nal, 1)>>
           d == Begun(nal, to)
<1>1. b \in Seq(Triple) /\ Len(b) = to - 1
  <2>1. 2 \in Nat /\ 2 <= to + 1 /\ 2 >= 1
    OBVIOUS
  <2>2. b \in Seq(Triple) /\ Len(b) = to - 2 + 1
    <3> HIDE DEF b
    <3>1. Bytes(nal, 2, to) \in Seq(Triple) /\ Len(Bytes(nal, 2, to)) = to - 2 + 1
      BY <2>1, BytesAre
    <3>2. QED BY <3>1 DEF b
  <2> HIDE DEF b
  <2>3. QED BY <2>2
<1>2. ASSUME NEW k \in 1 .. to - 1 PROVE b[k] = <<nal.frame, nal.index, k + 1>>
  BY DEF Bytes, Byte
<1>3. /\ c \in Seq(Triple) /\ Len(c) = 2 /\ c[1] = StartCode
      /\ c[2] = <<nal.frame, nal.index, 1>>
  BY DEF StartCode, Triple, Byte
<1>4. /\ d \in Seq(Triple) /\ Len(d) = to + 1 /\ d[1] = StartCode
      /\ \A k \in 1 .. to : d[k + 1] = <<nal.frame, nal.index, k>>
  BY BegunIs
<1> HIDE DEF b, c, d
<1>5. Len(d) = Len(c) + Len(b)
  BY <1>1, <1>3, <1>4
<1>6. ASSUME NEW k \in 1 .. Len(c) PROVE d[k] = c[k]
  <2>1. d[1] = c[1]
    BY <1>3, <1>4
  <2>2. d[2] = c[2]
    <3>1. 1 \in 1 .. to /\ 1 + 1 = 2
      OBVIOUS
    <3>2. QED BY <1>3, <1>4, <3>1
  <2>3. k = 1 \/ k = 2
    BY <1>3
  <2>4. QED BY <2>1, <2>2, <2>3
<1>7. ASSUME NEW k \in 1 .. Len(b) PROVE d[Len(c) + k] = b[k]
  <2>1. k + 1 \in 1 .. to /\ (k + 1) + 1 = Len(c) + k /\ k \in 1 .. to - 1
    BY <1>1, <1>3
  <2>2. d[(k + 1) + 1] = <<nal.frame, nal.index, k + 1>>
    BY <1>4, <2>1
  <2>3. QED BY <1>2, <2>1, <2>2
<1>8. c \o b = d
  BY <1>1, <1>3, <1>4, <1>5, <1>6, <1>7, Glue
<1>9. QED BY <1>8 DEF b, c, d

\* A later fragment goes on with it.
LEMMA LaterFragment ==
  ASSUME NEW nal, nal.frame \in Nat, nal.index \in Nat,
         NEW from \in Nat, NEW to \in Nat, from >= 1, from <= to + 1
  PROVE  Begun(nal, from - 1) \o Bytes(nal, from, to) = Begun(nal, to)
<1> DEFINE b == Bytes(nal, from, to)
           c == Begun(nal, from - 1)
           d == Begun(nal, to)
<1>1. /\ b \in Seq(Triple) /\ Len(b) = to - from + 1
      /\ \A k \in 1 .. to - from + 1 : b[k] = <<nal.frame, nal.index, from + k - 1>>
  BY BytesAre
<1>2. /\ c \in Seq(Triple) /\ Len(c) = (from - 1) + 1 /\ c[1] = StartCode
      /\ \A k \in 1 .. from - 1 : c[k + 1] = <<nal.frame, nal.index, k>>
  <2>1. from - 1 \in Nat
    OBVIOUS
  <2>2. QED BY <2>1, BegunIs
<1>3. /\ d \in Seq(Triple) /\ Len(d) = to + 1 /\ d[1] = StartCode
      /\ \A k \in 1 .. to : d[k + 1] = <<nal.frame, nal.index, k>>
  BY BegunIs
<1> HIDE DEF b, c, d
<1>4. Len(c) = from /\ Len(d) = Len(c) + Len(b)
  BY <1>1, <1>2, <1>3
<1>5. ASSUME NEW k \in 1 .. Len(c) PROVE d[k] = c[k]
  <2>1. CASE k = 1
    BY <1>2, <1>3, <2>1
  <2>2. CASE k # 1
    <3>1. k - 1 \in 1 .. from - 1 /\ k - 1 \in 1 .. to /\ (k - 1) + 1 = k
      BY <1>4, <2>2
    <3>2. QED BY <1>2, <1>3, <3>1
  <2>3. QED BY <2>1, <2>2
<1>6. ASSUME NEW k \in 1 .. Len(b) PROVE d[Len(c) + k] = b[k]
  <2>1. /\ from + k - 1 \in 1 .. to /\ (from + k - 1) + 1 = Len(c) + k
        /\ k \in 1 .. to - from + 1
    BY <1>1, <1>4
  <2>2. d[(from + k - 1) + 1] = <<nal.frame, nal.index, from + k - 1>>
    BY <1>3, <2>1
  <2>3. QED BY <1>1, <2>1, <2>2
<1>7. c \o b = d
  BY <1>1, <1>2, <1>3, <1>4, <1>5, <1>6, Glue
<1>8. QED BY <1>7 DEF b, c, d

\* A fragment shows which bytes of which unit it carries.
LEMMA FragmentTells ==
  ASSUME NEW p, NEW nal, NEW f \in Nat, NEW t \in Nat, f <= t, Carries(p, nal, f, t)
  PROVE  p.data[1] = <<nal.frame, nal.index, f>>
<1>1. 1 \in 1 .. t - f + 1 /\ f + 1 - 1 = f
  OBVIOUS
<1>2. Bytes(nal, f, t)[1] = <<nal.frame, nal.index, f>>
  BY <1>1 DEF Bytes, Byte
<1>3. QED BY <1>2 DEF Carries

LEMMA SameUnit ==
  ASSUME NEW nal, NEW mal, nal.frame = mal.frame, nal.index = mal.index, NEW k
  PROVE  Begun(nal, k) = Begun(mal, k)
BY DEF Begun, Bytes, Byte
-----------------------------------------------------------------------------
(* The fragments on the wire stay in order. *)

\* A packet that moves from place k to place j of the wire stays in order, if
\* what came right before it still does.
LEMMA StaysInOrder ==
  ASSUME StreamInv, NEW k, NEW j, InOrder(wire, h264_buf, k), wire'[j] = wire[k],
         Offered \subseteq Offered', damaged \subseteq damaged',
         \A nal \in Offered : \A n \in 1 .. nal.size - 1 :
           wire[k].frame = nal.frame /\ nal.frame \notin damaged'
             /\ Preceded(wire, h264_buf, k, nal, n) => Preceded(wire', h264_buf', j, nal, n)
  PROVE  InOrder(wire, h264_buf, j)'
<1> SUFFICES ASSUME wire'[j].form = "fragment"
             PROVE  \E nal \in Offered' : \E from \in 2 .. nal.size : \E to \in from .. nal.size :
                      /\ Carries(wire'[j], nal, from, to)
                      /\ from # 2 /\ nal.frame \notin damaged'
                           => Preceded(wire', h264_buf', j, nal, from - 1)
  BY DEF InOrder
<1>0. PICK nal \in Offered : \E from \in 2 .. nal.size : \E to \in from .. nal.size :
        /\ Carries(wire[k], nal, from, to)
        /\ from # 2 /\ nal.frame \notin damaged => Preceded(wire, h264_buf, k, nal, from - 1)
  BY DEF InOrder
<1>1. PICK from \in 2 .. nal.size : \E to \in from .. nal.size :
        /\ Carries(wire[k], nal, from, to)
        /\ from # 2 /\ nal.frame \notin damaged => Preceded(wire, h264_buf, k, nal, from - 1)
  BY <1>0
<1>2. wire[k].frame = nal.frame
  BY <1>1 DEF Carries
<1>3. ASSUME from # 2, nal.frame \notin damaged'
      PROVE  Preceded(wire', h264_buf', j, nal, from - 1)
  <2>1. from - 1 \in 1 .. nal.size - 1
    BY <1>3, OfferedNal
  <2>2. Preceded(wire, h264_buf, k, nal, from - 1)
    BY <1>1, <1>3
  <2>3. QED BY <1>2, <1>3, <2>1, <2>2
<1>4. nal \in Offered'
  OBVIOUS
<1>5. QED BY <1>1, <1>3, <1>4

\* What comes right before place k of one wire comes right before place j of
\* another, when the packet is the same.
LEMMA SamePredecessor ==
  ASSUME NEW w, NEW v, NEW b, NEW k \in Nat, NEW j \in Nat, k # 1, j # 1,
         v[j - 1] = w[k - 1], NEW nal, NEW n, Preceded(w, b, k, nal, n), NEW c
  PROVE  Preceded(v, c, j, nal, n)
BY DEF Preceded

\* The packet right before a fragment is of the fragment's frame.
LEMMA PredecessorFrame ==
  ASSUME NEW w, NEW b, NEW k \in Nat, k # 1, NEW nal, NEW n, Preceded(w, b, k, nal, n)
  PROVE  w[k - 1].frame = nal.frame
BY DEF Preceded, Carries

\* The sender's part, when it neither encodes nor sends.
LEMMA SenderStays ==
  ASSUME TypeOK, StreamInv, SenderInv, UNCHANGED <<frame, nals, i, sent, offered>>,
         damaged \subseteq damaged',
         \A nal \in Offered : \A n \in 1 .. nal.size - 1 :
           nal.frame \notin damaged' /\ Preceded(wire, h264_buf, Len(wire) + 1, nal, n)
             => Preceded(wire', h264_buf', Len(wire') + 1, nal, n)
  PROVE  SenderInv'
<1>1. Offered' = Offered
  BY DEF Offered
<1>2. \A k \in DOMAIN nals' : nals'[k] \in Offered'
  BY <1>1 DEF SenderInv
<1>3. ASSUME nals' # <<>>, sent' > 0, frame' \notin damaged'
      PROVE  Preceded(wire', h264_buf', Len(wire') + 1, nals'[i'], sent' + 1)
  <2>1. nals # <<>> /\ sent > 0 /\ frame \notin damaged
    BY <1>3
  <2>2. Preceded(wire, h264_buf, Len(wire) + 1, nals[i], sent + 1)
    BY <2>1 DEF SenderInv
  <2>3. /\ i \in DOMAIN nals /\ nals[i].frame = frame /\ sent \in 0 .. nals[i].size - 2
        /\ nals[i].size \in Nat
    BY <2>1, UnitAtHand DEF StreamInv
  <2>4. nals[i] \in Offered /\ sent + 1 \in 1 .. nals[i].size - 1
    BY <2>3 DEF SenderInv
  <2>5. QED BY <1>3, <2>2, <2>3, <2>4
<1>4. QED BY <1>2, <1>3 DEF SenderInv

\* With the buffer as it was and no unit or fault taken back, nothing is left
\* over that was not before.
LEMMA BufferStays ==
  ASSUME NothingLeftOver, h264_buf' = h264_buf, Offered \subseteq Offered',
         damaged \subseteq damaged'
  PROVE  NothingLeftOver'
BY Zenon DEF NothingLeftOver

\* A packet sent is last on the wire.
LEMMA TransmitOrder ==
  ASSUME StreamInv, FragmentsInv, NEW p, Transmit(p), h264_buf' = h264_buf,
         \A k : k = Len(wire) + 1 => InOrder(wire, h264_buf, k)'
  PROVE  FragmentsInv'
<1>1. /\ wire' = Append(wire, p) /\ Offered' = Offered /\ damaged' = damaged
      /\ wire \in Seq(Packets(frame)) /\ Len(wire) \in Nat
  BY DEF Transmit, Offered, StreamInv
<1>2. Len(wire') = Len(wire) + 1 /\ \A k \in 1 .. Len(wire) : wire'[k] = wire[k]
  BY <1>1
<1>3. ASSUME NEW k \in 1 .. Len(wire) PROVE InOrder(wire, h264_buf, k)'
  <2>1. InOrder(wire, h264_buf, k) /\ wire'[k] = wire[k] /\ k \in Nat
    BY <1>2 DEF FragmentsInv
  <2>2. ASSUME NEW nal \in Offered, NEW n, Preceded(wire, h264_buf, k, nal, n)
        PROVE  Preceded(wire', h264_buf', k, nal, n)
    <3>1. CASE k = 1
      BY <2>2, <3>1 DEF Preceded
    <3>2. CASE k # 1
      <4>1. wire'[k - 1] = wire[k - 1]
        BY <1>1, <1>2, <3>2
      <4>2. QED BY <2>1, <2>2, <3>2, <4>1, SamePredecessor
    <3>3. QED BY <3>1, <3>2
  <2>3. QED BY <1>1, <2>1, <2>2, StaysInOrder
<1>4. ASSUME NEW k \in 1 .. Len(wire') PROVE InOrder(wire, h264_buf, k)'
  <2>1. k \in 1 .. Len(wire) \/ k = Len(wire) + 1
    BY <1>1, <1>2
  <2>2. QED BY <1>3, <2>1
<1>5. QED BY <1>4 DEF FragmentsInv
\* A unit that fits in a packet is in no fragment.
LEMMA SendSingleLeft ==
  ASSUME IInv, LeftInv, SendSingle, UNCHANGED receiver
  PROVE  LeftInv'
<1> USE DEF IInv, LeftInv
<1> DEFINE p == SinglePacket(rtp_seq_number, is_last_nal, nals[i])
<1>1. nals # <<>> /\ Transmit(p) /\ NalDone /\ h264_buf' = h264_buf
  BY DEF SendSingle, receiver
<1>2. p.form = "single"
  BY DEF SinglePacket
<1> HIDE DEF p
<1>3. /\ wire' = Append(wire, p) /\ wire \in Seq(Packets(frame)) /\ Offered' = Offered
      /\ UNCHANGED <<frame, offered, damaged>>
  BY <1>1 DEF Transmit, StreamInv, Offered
<1>4. ASSUME NEW k, k = Len(wire) + 1 PROVE InOrder(wire, h264_buf, k)'
  <2>1. wire'[k] = p
    BY <1>3, <1>4
  <2>2. QED BY <1>2, <2>1 DEF InOrder
<1>5. FragmentsInv'
  BY <1>1, <1>4, TransmitOrder
<1>6. NothingLeftOver'
  BY <1>1, <1>3, BufferStays
<1>7. sent' = 0 /\ (nals' = nals \/ nals' = <<>>)
  BY <1>1 DEF NalDone
<1>8. SenderInv'
  BY <1>3, <1>7 DEF SenderInv
<1>9. QED BY <1>5, <1>6, <1>8

\* A fragment goes out right after the fragment before it.
LEMMA SendFragmentLeft ==
  ASSUME IInv, LeftInv, SendFragment, UNCHANGED receiver
  PROVE  LeftInv'
<1> USE DEF IInv, LeftInv
<1> DEFINE mark == is_last_nal /\ is_last_frag
           nal == nals[i]
           to == sent + 1 + frag_size
           p == FragmentPacket(rtp_seq_number, mark, nal, sent + 2, to)
<1>1. /\ nals # <<>> /\ Transmit(p) /\ nal.size > MAX_PAYLOAD_SIZE
      /\ IF is_last_frag THEN NalDone ELSE sent' = sent + frag_size /\ UNCHANGED <<nals, i>>
      /\ h264_buf' = h264_buf
  BY DEF SendFragment, receiver
<1>2. /\ i \in 1 .. Len(nals) /\ sent \in 0 .. nal.size - 2 /\ nal.size \in Nat
      /\ nal.size >= 2 /\ nal.frame = frame
  BY <1>1, UnitAtHand
<1>3. frag_size \in Nat /\ frag_size >= 1 /\ frag_size <= nal.size - 1 - sent
  BY <1>2, RtpAssumption DEF frag_size, FragmentSize
<1>4. Carries(p, nal, sent + 2, to)
  <2> HIDE DEF to, mark
  <2>1. QED BY DEF Carries, FragmentPacket
<1>5. sent + 2 \in 2 .. nal.size /\ to \in sent + 2 .. nal.size /\ sent + 2 \in 2 .. to
  BY <1>2, <1>3
<1>6. nal \in Offered
  BY <1>1, <1>2 DEF SenderInv, StreamInv
<1> HIDE DEF p, nal, mark
<1>7. /\ wire' = Append(wire, p) /\ wire \in Seq(Packets(frame)) /\ Offered' = Offered
      /\ UNCHANGED <<frame, offered, damaged>>
  BY <1>1 DEF Transmit, StreamInv, Offered
<1>8. /\ Len(wire) \in Nat /\ Len(wire') = Len(wire) + 1 /\ wire'[Len(wire) + 1] = p
      /\ \A k \in 1 .. Len(wire) : wire'[k] = wire[k]
  BY <1>7
<1>9. ASSUME NEW k, k = Len(wire) + 1 PROVE InOrder(wire, h264_buf, k)'
  <2>1. wire'[k] = p
    BY <1>8, <1>9
  <2>2. ASSUME sent + 2 # 2, nal.frame \notin damaged
        PROVE  Preceded(wire', h264_buf', k, nal, (sent + 2) - 1)
    <3>1. sent > 0 /\ (sent + 2) - 1 = sent + 1
      BY <1>2, <2>2
    <3>2. Preceded(wire, h264_buf, k, nal, sent + 1)
      BY <1>1, <1>2, <1>9, <2>2, <3>1 DEF SenderInv, nal
    <3>3. CASE k = 1
      BY <1>1, <3>1, <3>2, <3>3 DEF Preceded
    <3>4. CASE k # 1
      <4>1. wire'[k - 1] = wire[k - 1] /\ k \in Nat
        BY <1>8, <1>9, <3>4
      <4>2. QED BY <3>1, <3>2, <3>4, <4>1, SamePredecessor
    <3>5. QED BY <3>3, <3>4
  <2> HIDE DEF to
  <2>3. QED BY <1>4, <1>5, <1>6, <1>7, <2>1, <2>2 DEF InOrder
<1>10. FragmentsInv'
  BY <1>1, <1>9, TransmitOrder
<1>11. NothingLeftOver'
  BY <1>1, <1>7, BufferStays
<1>12. SenderInv'
  <2>1. CASE is_last_frag
    <3>1. sent' = 0 /\ (nals' = nals \/ nals' = <<>>)
      BY <1>1, <2>1 DEF NalDone
    <3>2. QED BY <1>7, <3>1 DEF SenderInv
  <2>2. CASE ~is_last_frag
    <3>1. sent' + 1 = to /\ nals' = nals /\ i' = i
      BY <1>1, <1>2, <1>3, <2>2
    <3>2. Len(wire') + 1 # 1 /\ (Len(wire') + 1) - 1 = Len(wire) + 1
      BY <1>8
    <3> HIDE DEF to
    <3>3. Carries(wire'[(Len(wire') + 1) - 1], nal, sent + 2, to)
      BY <1>4, <1>8, <3>2
    <3>4. Preceded(wire', h264_buf', Len(wire') + 1, nal, to)
      BY <1>5, <3>2, <3>3 DEF Preceded
    <3>5. nals'[i'] = nal
      BY <3>1 DEF nal
    <3>6. Preceded(wire', h264_buf', Len(wire') + 1, nals'[i'], sent' + 1)
      BY <3>1, <3>4, <3>5
    <3>7. \A k \in DOMAIN nals' : nals'[k] \in Offered'
      BY <1>7, <3>1 DEF SenderInv
    <3>8. QED BY <3>6, <3>7 DEF SenderInv
  <2>3. QED BY <2>1, <2>2
<1>13. QED BY <1>10, <1>11, <1>12

\* A frame that fails ends what was being sent.
LEMMA SendFailsLeft ==
  ASSUME IInv, LeftInv, SendFails, UNCHANGED receiver
  PROVE  LeftInv'
<1> USE DEF IInv, LeftInv
<1>1. /\ nals' = <<>> /\ damaged \subseteq damaged' /\ Offered' = Offered
      /\ wire' = wire /\ h264_buf' = h264_buf
  BY DEF SendFails, receiver, Offered
<1>2. NothingLeftOver'
  BY <1>1, BufferStays
<1>3. SenderInv'
  BY <1>1 DEF SenderInv
<1>4. ASSUME NEW k \in 1 .. Len(wire) PROVE InOrder(wire, h264_buf, k)'
  <2>1. InOrder(wire, h264_buf, k) /\ wire'[k] = wire[k]
    BY <1>1 DEF FragmentsInv
  <2>2. QED BY <1>1, <2>1, StaysInOrder
<1>5. FragmentsInv'
  BY <1>1, <1>4 DEF FragmentsInv
<1>6. QED BY <1>2, <1>3, <1>5

\* A frame is encoded: there are more units, and none is begun.
LEMMA EncodeLeft ==
  ASSUME IInv, LeftInv, NEW au \in AccessUnits, Encode(au), UNCHANGED receiver
  PROVE  LeftInv'
<1> USE DEF IInv, LeftInv
<1>1. /\ sent' = 0 /\ offered' = offered \o nals' /\ damaged' = damaged
      /\ wire' = wire /\ h264_buf' = h264_buf
      /\ nals' = [k \in DOMAIN au |-> Nal(frame + 1, k, au[k])]
  BY DEF Encode, receiver
<1>2. /\ offered \in Seq(Range(offered)) /\ nals' \in Seq(Range(nals'))
      /\ Len(offered) \in Nat /\ Len(nals') \in Nat
  <2>1. au \in Seq(Unit)
    BY RtpAssumption
  <2>2. DOMAIN nals' = 1 .. Len(au) /\ Len(au) \in Nat
    BY <1>1, <2>1
  <2>3. nals' \in [1 .. Len(au) -> Range(nals')]
    BY <1>1, <2>2 DEF Range
  <2>4. nals' \in Seq(Range(nals'))
    BY <2>2, <2>3, SeqDef
  <2>5. offered \in Seq(Range(offered))
    BY SeqOfRange DEF StreamInv
  <2>6. QED BY <2>4, <2>5
<1>3. /\ Len(offered') = Len(offered) + Len(nals')
      /\ \A k \in 1 .. Len(offered) : offered'[k] = offered[k]
      /\ \A k \in 1 .. Len(nals') : offered'[Len(offered) + k] = nals'[k]
      /\ offered' \in Seq(Range(offered) \cup Range(nals'))
  <2> DEFINE S == Range(offered) \cup Range(nals')
  <2>1. offered \in Seq(S) /\ nals' \in Seq(S)
    BY <1>2, SeqMonotonic
  <2> HIDE DEF S
  <2>2. /\ offered' \in Seq(S) /\ Len(offered') = Len(offered) + Len(nals')
        /\ \A k \in 1 .. Len(offered) + Len(nals') :
             offered'[k] = IF k <= Len(offered) THEN offered[k] ELSE nals'[k - Len(offered)]
    BY <1>1, <2>1, ConcatProperties
  <2>3. QED BY <1>2, <2>2 DEF S
<1>4. Offered \subseteq Offered'
  <2> SUFFICES ASSUME NEW k \in DOMAIN offered PROVE \E m \in DOMAIN offered' : offered'[m] = offered[k]
    BY DEF Offered
  <2>1. k \in 1 .. Len(offered) /\ k \in 1 .. Len(offered') /\ DOMAIN offered' = 1 .. Len(offered')
    BY <1>2, <1>3
  <2>2. QED BY <1>3, <2>1
<1>5. ASSUME NEW k \in DOMAIN nals' PROVE nals'[k] \in Offered'
  <2>1. /\ k \in 1 .. Len(nals') /\ Len(offered) + k \in 1 .. Len(offered')
        /\ DOMAIN offered' = 1 .. Len(offered')
    BY <1>2, <1>3
  <2>2. QED BY <1>3, <2>1 DEF Offered
<1>6. SenderInv'
  BY <1>1, <1>5 DEF SenderInv
<1>7. NothingLeftOver'
  BY <1>1, <1>4, BufferStays
<1>8. ASSUME NEW k \in 1 .. Len(wire) PROVE InOrder(wire, h264_buf, k)'
  <2>1. InOrder(wire, h264_buf, k) /\ wire'[k] = wire[k]
    BY <1>1 DEF FragmentsInv
  <2>2. QED BY <1>1, <1>4, <2>1, StaysInOrder
<1>9. FragmentsInv'
  BY <1>1, <1>8 DEF FragmentsInv
<1>10. QED BY <1>6, <1>7, <1>9
-----------------------------------------------------------------------------
(* The link. *)

\* A fault leaves the sender and the buffer alone.
LEMMA DamageLeft ==
  ASSUME IInv, LeftInv, NEW frames, Damage(frames),
         \A k \in 1 .. Len(wire') : InOrder(wire, h264_buf, k)',
         \A nal \in Offered : \A n \in 1 .. nal.size - 1 :
           nal.frame \notin damaged' /\ Preceded(wire, h264_buf, Len(wire) + 1, nal, n)
             => Preceded(wire', h264_buf', Len(wire') + 1, nal, n)
  PROVE  LeftInv'
<1> USE DEF IInv, LeftInv
<1>1. /\ UNCHANGED <<frame, nals, i, sent, offered>> /\ h264_buf' = h264_buf
      /\ damaged \subseteq damaged' /\ Offered' = Offered
  BY DEF Damage, sender, receiver, Offered
<1>2. NothingLeftOver'
  BY <1>1, BufferStays
<1>3. FragmentsInv'
  BY DEF FragmentsInv
<1>4. SenderInv'
  BY <1>1, SenderStays
<1>5. QED BY <1>2, <1>3, <1>4

\* The packets behind a lost one are of its own frame, which is damaged, or
\* need nothing of it.
LEMMA LoseLeft ==
  ASSUME IInv, LeftInv, Lose
  PROVE  LeftInv'
<1> USE DEF IInv, LeftInv
<1>1. /\ wire # <<>> /\ wire' = Tail(wire) /\ Damage({Head(wire).frame})
      /\ damaged' = damaged \cup {wire[1].frame} /\ Offered' = Offered
      /\ wire \in Seq(Packets(frame)) /\ h264_buf' = h264_buf
  BY DEF Lose, Damage, StreamInv, sender, receiver, Offered
<1>2. /\ Len(wire) \in Nat /\ Len(wire) >= 1 /\ Len(wire') = Len(wire) - 1
      /\ \A k \in 1 .. Len(wire') : wire'[k] = wire[k + 1]
  BY <1>1
<1>3. ASSUME NEW k \in 1 .. Len(wire') + 1, NEW nal, nal.frame \notin damaged', NEW n,
             Preceded(wire, h264_buf, k + 1, nal, n)
      PROVE  Preceded(wire', h264_buf', k, nal, n)
  <2>1. k \in Nat /\ k + 1 \in Nat /\ k + 1 # 1 /\ (k + 1) - 1 = k
    BY <1>2
  <2>2. CASE k = 1
    <3>1. wire[k].frame = nal.frame
      BY <1>3, <2>1, PredecessorFrame
    <3>2. QED BY <1>1, <1>3, <2>2, <3>1
  <2>3. CASE k # 1
    <3>1. k - 1 \in 1 .. Len(wire') /\ (k - 1) + 1 = k
      BY <1>2, <2>3
    <3>2. wire'[k - 1] = wire[(k + 1) - 1]
      BY <1>2, <2>1, <3>1
    <3>3. QED BY <1>3, <2>1, <2>3, <3>2, SamePredecessor
  <2>4. QED BY <2>2, <2>3
<1>4. ASSUME NEW k \in 1 .. Len(wire') PROVE InOrder(wire, h264_buf, k)'
  <2>1. k + 1 \in 1 .. Len(wire) /\ wire'[k] = wire[k + 1] /\ k \in 1 .. Len(wire') + 1
    BY <1>2
  <2>2. InOrder(wire, h264_buf, k + 1)
    BY <2>1 DEF FragmentsInv
  <2>3. QED BY <1>1, <1>3, <2>1, <2>2, StaysInOrder
<1>5. ASSUME NEW nal, nal.frame \notin damaged', NEW n,
             Preceded(wire, h264_buf, Len(wire) + 1, nal, n)
      PROVE  Preceded(wire', h264_buf', Len(wire') + 1, nal, n)
  <2>1. (Len(wire') + 1) + 1 = Len(wire) + 1 /\ Len(wire') + 1 \in 1 .. Len(wire') + 1
    BY <1>2
  <2>2. QED BY <1>3, <1>5, <2>1
<1>6. QED BY <1>1, <1>4, <1>5, DamageLeft

\* The two copies are of a frame that is damaged now.
LEMMA DuplicateLeft ==
  ASSUME IInv, LeftInv, Duplicate
  PROVE  LeftInv'
<1> USE DEF IInv, LeftInv
<1>1. /\ wire # <<>> /\ wire' = <<Head(wire)>> \o wire /\ Damage({Head(wire).frame})
      /\ Head(wire) = wire[1]
      /\ damaged' = damaged \cup {wire[1].frame} /\ Offered' = Offered
      /\ wire \in Seq(Packets(frame)) /\ h264_buf' = h264_buf
  BY DEF Duplicate, Damage, StreamInv, sender, receiver, Offered
<1>2. /\ Len(wire) \in Nat /\ Len(wire) >= 1 /\ Len(wire') = Len(wire) + 1
      /\ wire'[1] = wire[1] /\ \A k \in 1 .. Len(wire) : wire'[k + 1] = wire[k]
  <2>1. <<Head(wire)>> \in Seq(Packets(frame)) /\ Len(<<Head(wire)>>) = 1 /\ <<Head(wire)>>[1] = wire[1]
    BY <1>1, HeadPacket
  <2> DEFINE c == <<Head(wire)>>
  <2> HIDE DEF c
  <2>2. /\ Len(c \o wire) = 1 + Len(wire) /\ Len(wire) \in Nat
        /\ \A k \in 1 .. 1 + Len(wire) : (c \o wire)[k] = IF k <= 1 THEN c[k] ELSE wire[k - 1]
    BY <1>1, <2>1, ConcatProperties DEF c
  <2>3. wire' = c \o wire /\ c[1] = wire[1]
    BY <1>1, <2>1 DEF c
  <2>4. ASSUME NEW k \in 1 .. Len(wire) PROVE wire'[k + 1] = wire[k]
    <3>1. k + 1 \in 1 .. 1 + Len(wire) /\ ~(k + 1 <= 1) /\ (k + 1) - 1 = k
      BY <2>2
    <3>2. (c \o wire)[k + 1] = wire[(k + 1) - 1]
      BY <2>2, <3>1
    <3>3. QED BY <2>3, <3>1, <3>2
  <2>5. Len(wire) >= 1
    BY <1>1
  <2>6. QED BY <2>2, <2>3, <2>4, <2>5
<1>3. ASSUME NEW k \in 1 .. Len(wire) + 1, NEW nal, nal.frame \notin damaged', NEW n,
             k = 1 => wire[1].frame = nal.frame, Preceded(wire, h264_buf, k, nal, n)
      PROVE  Preceded(wire', h264_buf', k + 1, nal, n)
  <2>1. k # 1 /\ k \in Nat /\ k + 1 \in Nat /\ k + 1 # 1 /\ (k + 1) - 1 = k
    BY <1>1, <1>3
  <2>2. k - 1 \in 1 .. Len(wire) /\ (k - 1) + 1 = k
    BY <1>2, <2>1
  <2>3. wire'[(k + 1) - 1] = wire[k - 1]
    BY <1>2, <2>1, <2>2
  <2>4. QED BY <1>3, <2>1, <2>3, SamePredecessor
<1>4. ASSUME NEW k \in 1 .. Len(wire') PROVE InOrder(wire, h264_buf, k)'
  <2>1. CASE k = 1
    <3>1. InOrder(wire, h264_buf, 1) /\ wire'[k] = wire[1]
      BY <1>2, <2>1 DEF FragmentsInv
    <3>2. ASSUME NEW nal, wire[1].frame = nal.frame, nal.frame \notin damaged' PROVE FALSE
      BY <1>1, <3>2
    <3>3. QED BY <1>1, <3>1, <3>2, StaysInOrder
  <2>2. CASE k # 1
    <3>1. /\ k - 1 \in 1 .. Len(wire) /\ k - 1 \in 1 .. Len(wire) + 1 /\ (k - 1) + 1 = k
          /\ wire'[k] = wire[k - 1]
      <4>1. k - 1 \in 1 .. Len(wire) /\ k - 1 \in 1 .. Len(wire) + 1 /\ (k - 1) + 1 = k
        BY <1>2, <2>2
      <4>2. QED BY <1>2, <4>1
    <3>2. InOrder(wire, h264_buf, k - 1)
      BY <3>1 DEF FragmentsInv
    <3>3. ASSUME NEW nal, NEW n, wire[k - 1].frame = nal.frame, nal.frame \notin damaged',
                 Preceded(wire, h264_buf, k - 1, nal, n)
          PROVE  Preceded(wire', h264_buf', k, nal, n)
      <4>1. k - 1 = 1 => wire[1].frame = nal.frame
        BY <3>3
      <4>2. Preceded(wire', h264_buf', (k - 1) + 1, nal, n)
        BY <1>3, <3>1, <3>3, <4>1
      <4>3. QED BY <3>1, <4>2
    <3>4. QED BY <1>1, <3>1, <3>2, <3>3, StaysInOrder
  <2>3. QED BY <2>1, <2>2
<1>5. ASSUME NEW nal, nal.frame \notin damaged', NEW n,
             Preceded(wire, h264_buf, Len(wire) + 1, nal, n)
      PROVE  Preceded(wire', h264_buf', Len(wire') + 1, nal, n)
  <2>1. Len(wire) + 1 # 1 /\ Len(wire') + 1 = (Len(wire) + 1) + 1
        /\ Len(wire) + 1 \in 1 .. Len(wire) + 1
    BY <1>2
  <2>2. QED BY <1>3, <1>5, <2>1
<1>6. QED BY <1>1, <1>4, <1>5, DamageLeft

\* Both packets of an overtaking are of damaged frames, and so is what needs
\* one of them.
LEMMA OvertakeLeft ==
  ASSUME IInv, LeftInv, NEW m \in 1 .. Len(wire) - 1, Overtake(m)
  PROVE  LeftInv'
<1> USE DEF IInv, LeftInv
<1>1. /\ wire' = [wire EXCEPT ![m] = wire[m + 1], ![m + 1] = wire[m]]
      /\ Damage({wire[m].frame, wire[m + 1].frame})
      /\ damaged' = damaged \cup {wire[m].frame, wire[m + 1].frame}
      /\ Offered' = Offered /\ h264_buf' = h264_buf
      /\ wire \in Seq(Packets(frame)) /\ Len(wire) \in Nat /\ m \in Nat
  BY DEF Overtake, Damage, StreamInv, sender, receiver, Offered
<1>2. /\ Len(wire') = Len(wire) /\ wire'[m] = wire[m + 1] /\ wire'[m + 1] = wire[m]
      /\ \A k \in 1 .. Len(wire) \ {m, m + 1} : wire'[k] = wire[k]
  BY <1>1
<1>3. ASSUME NEW k \in 1 .. Len(wire) + 1, k # m, k # m + 1,
             NEW nal, nal.frame \notin damaged', NEW n, Preceded(wire, h264_buf, k, nal, n)
      PROVE  Preceded(wire', h264_buf', k, nal, n)
  <2>1. k \in Nat
    BY <1>1
  <2>2. CASE k = 1
    BY <1>1, <1>3, <2>2 DEF Preceded
  <2>3. CASE k # 1 /\ k = m + 2
    <3>1. k - 1 = m + 1 /\ wire[k - 1].frame = nal.frame
      BY <1>1, <1>3, <2>1, <2>3, PredecessorFrame
    <3>2. QED BY <1>1, <1>3, <3>1
  <2>4. CASE k # 1 /\ k # m + 2
    <3>1. k - 1 \in 1 .. Len(wire) \ {m, m + 1}
      BY <1>1, <1>3, <2>4
    <3>2. wire'[k - 1] = wire[k - 1]
      BY <1>2, <3>1
    <3>3. QED BY <1>3, <2>1, <2>4, <3>2, SamePredecessor
  <2>5. QED BY <2>2, <2>3, <2>4
<1>4. ASSUME NEW k \in 1 .. Len(wire), NEW j \in {m, m + 1}, wire'[k] = wire[j]
      PROVE  InOrder(wire, h264_buf, k)'
  <2>1. InOrder(wire, h264_buf, j)
    BY <1>1 DEF FragmentsInv
  <2>2. ASSUME NEW nal, wire[j].frame = nal.frame, nal.frame \notin damaged' PROVE FALSE
    BY <1>1, <2>2
  <2>3. QED BY <1>1, <1>4, <2>1, <2>2, StaysInOrder
<1>5. ASSUME NEW k \in 1 .. Len(wire) PROVE InOrder(wire, h264_buf, k)'
  <2>1. CASE k \in {m, m + 1}
    <3>1. \E j \in {m, m + 1} : wire'[k] = wire[j]
      BY <1>2, <2>1
    <3>2. QED BY <1>4, <3>1
  <2>2. CASE k \notin {m, m + 1}
    <3>1. /\ k \in 1 .. Len(wire) + 1 /\ k # m /\ k # m + 1 /\ wire'[k] = wire[k]
          /\ InOrder(wire, h264_buf, k)
      BY <1>1, <1>2, <2>2 DEF FragmentsInv
    <3>2. QED BY <1>1, <1>3, <3>1, StaysInOrder
  <2>3. QED BY <2>1, <2>2
<1>6. ASSUME NEW nal, nal.frame \notin damaged', NEW n,
             Preceded(wire, h264_buf, Len(wire) + 1, nal, n)
      PROVE  Preceded(wire', h264_buf', Len(wire') + 1, nal, n)
  <2>1. Len(wire) + 1 \in 1 .. Len(wire) + 1 /\ Len(wire) + 1 # m /\ Len(wire) + 1 # m + 1
    BY <1>1
  <2>2. QED BY <1>2, <1>3, <1>6, <2>1
<1>7. QED BY <1>1, <1>2, <1>5, <1>6, DamageLeft
-----------------------------------------------------------------------------
(* The receiver. *)

\* What a packet does to the buffer.
LEMMA BufferAfter ==
  ASSUME StreamInv, wire # <<>>, Receives
  PROVE  /\ \/ wire[1].form = "single" /\ h264_buf' = h264_buf
            \/ wire[1].form = "fragment" /\ wire[1].end /\ h264_buf' = <<>>
            \/ wire[1].form = "fragment" /\ ~wire[1].end /\ h264_buf' = Assembled(wire[1])
         /\ wire' = Tail(wire) /\ damaged' = damaged /\ Offered' = Offered
         /\ UNCHANGED <<frame, nals, i, sent, offered>>
<1>1. Head(wire) = wire[1]
  BY DEF StreamInv
<1>2. ReceiveSingle(wire[1], Offered) \/ ReceiveFragment(wire[1], Offered)
  BY <1>1 DEF Receives, Receive
<1>3. /\ wire' = Tail(wire) /\ damaged' = damaged /\ Offered' = Offered
      /\ UNCHANGED <<frame, nals, i, sent, offered>>
  BY DEF Receives, Receive, sender, Offered
<1>4. QED BY <1>2, <1>3 DEF ReceiveSingle, ReceiveFragment

\* With a fragment of a sound frame added, the buffer holds the unit up to the
\* last byte of the fragment.
LEMMA HeadAssembles ==
  ASSUME IInv, LeftInv, wire # <<>>, NEW nal \in Offered, nal.frame \notin damaged,
         NEW n \in 2 .. nal.size, NEW from \in 2 .. n, Carries(wire[1], nal, from, n)
  PROVE  Assembled(wire[1]) = Begun(nal, n)
<1> USE DEF IInv, LeftInv
<1> DEFINE p == wire[1]
<1>1. /\ nal.frame \in Nat /\ nal.index \in Nat /\ nal.size \in Nat /\ from \in Nat /\ n \in Nat
      /\ from >= 2 /\ from <= n
  BY OfferedNal
<1>2. /\ p.form = "fragment" /\ p.frame = nal.frame /\ p.header = Byte(nal, 1)
      /\ p.data = Bytes(nal, from, n) /\ (p.start <=> from = 2)
  BY <1>1 DEF Carries
<1>4. CASE from = 2
  <2>1. Assembled(p) = <<StartCode, Byte(nal, 1)>> \o Bytes(nal, 2, n)
    BY <1>2, <1>4 DEF Assembled
  <2>2. n >= 2
    BY <1>1
  <2>3. QED BY <1>1, <2>1, <2>2, FirstFragment
<1>5. CASE from # 2
  <2>1. InOrder(wire, h264_buf, 1)
    <3>1. 1 \in 1 .. Len(wire)
      BY DEF StreamInv
    <3>2. QED BY <3>1 DEF FragmentsInv
  <2>2. PICK mal \in Offered : \E f \in 2 .. mal.size : \E t \in f .. mal.size :
          /\ Carries(p, mal, f, t)
          /\ f # 2 /\ mal.frame \notin damaged => Preceded(wire, h264_buf, 1, mal, f - 1)
    BY <1>2, <2>1 DEF InOrder
  <2>3. PICK f \in 2 .. mal.size : \E t \in f .. mal.size :
          /\ Carries(p, mal, f, t)
          /\ f # 2 /\ mal.frame \notin damaged => Preceded(wire, h264_buf, 1, mal, f - 1)
    BY <2>2
  <2>4. PICK t \in f .. mal.size :
          /\ Carries(p, mal, f, t)
          /\ f # 2 /\ mal.frame \notin damaged => Preceded(wire, h264_buf, 1, mal, f - 1)
    BY <2>3
  <2>5. f \in Nat /\ t \in Nat /\ f <= t
    BY OfferedNal
  <2>6. p.data[1] = <<nal.frame, nal.index, from>> /\ p.data[1] = <<mal.frame, mal.index, f>>
    <3>1. p.data[1] = <<nal.frame, nal.index, from>>
      BY <1>1, FragmentTells
    <3>2. p.data[1] = <<mal.frame, mal.index, f>>
      BY <2>4, <2>5, FragmentTells
    <3>3. QED BY <3>1, <3>2
  <2> HIDE DEF p
  <2>7. nal.frame = mal.frame /\ nal.index = mal.index /\ from = f
    BY <2>6
  <2>8. h264_buf = Begun(nal, from - 1)
    BY <1>5, <2>4, <2>7, SameUnit DEF Preceded
  <2>9. Assembled(p) = Begun(nal, from - 1) \o Bytes(nal, from, n)
    BY <1>1, <1>2, <1>5, <2>8 DEF Assembled
  <2>10. from >= 1 /\ from <= n + 1
    BY <1>1
  <2>11. Assembled(p) = Begun(nal, n)
    BY <1>1, <2>9, <2>10, LaterFragment
  <2>12. QED BY <2>11 DEF p
<1>6. QED BY <1>4, <1>5

\* A fragment that is not the last of its unit leaves the unit begun up to
\* its own last byte.
LEMMA HeadFills ==
  ASSUME IInv, LeftInv, Receives, wire # <<>>, NEW nal \in Offered, nal.frame \notin damaged,
         NEW n \in 1 .. nal.size - 1, NEW from \in 2 .. n, Carries(wire[1], nal, from, n)
  PROVE  h264_buf' = Begun(nal, n)
<1>1. nal.size \in Nat /\ n # nal.size /\ n \in 2 .. nal.size
  BY OfferedNal DEF IInv
<1>2. wire[1].form = "fragment" /\ ~wire[1].end
  BY <1>1 DEF Carries
<1>3. h264_buf' = Assembled(wire[1])
  BY <1>2, BufferAfter DEF IInv
<1>4. QED BY <1>1, <1>3, HeadAssembles

\* The last byte of the buffer is of the frame of the fragment added last.
LEMMA LastByte ==
  ASSUME TypeOK, StreamInv, NEW p \in Packets(frame), p.form = "fragment", NEW nal,
         nal.frame \in Nat, nal.index \in Nat, NEW f \in Nat, NEW t \in Nat,
         f >= 2, f <= t, Carries(p, nal, f, t)
  PROVE  Assembled(p)[Len(Assembled(p))][1] = nal.frame
<1>1. /\ p.data \in Seq(Triple) /\ Len(p.data) = t - f + 1
      /\ \A k \in 1 .. t - f + 1 : p.data[k] = <<nal.frame, nal.index, f + k - 1>>
  <2>1. f >= 1 /\ f <= t + 1
    OBVIOUS
  <2> DEFINE d == Bytes(nal, f, t)
  <2>2. p.data = d
    BY DEF Carries
  <2>3. /\ d \in Seq(Triple) /\ Len(d) = t - f + 1
        /\ \A k \in 1 .. t - f + 1 : d[k] = <<nal.frame, nal.index, f + k - 1>>
    <3> HIDE DEF d
    <3>1. /\ Bytes(nal, f, t) \in Seq(Triple) /\ Len(Bytes(nal, f, t)) = t - f + 1
          /\ \A k \in 1 .. t - f + 1 : Bytes(nal, f, t)[k] = <<nal.frame, nal.index, f + k - 1>>
      BY <2>1, BytesAre
    <3>2. QED BY <3>1 DEF d
  <2> HIDE DEF d
  <2>4. QED BY <2>2, <2>3
<1> DEFINE c == IF p.start THEN <<StartCode, p.header>> ELSE h264_buf
           d == p.data
<1>2. c \in Seq(Triple) /\ d \in Seq(Triple) /\ Len(d) = t - f + 1
  <2>1. p.header \in Triple /\ h264_buf \in Seq(Triple) /\ StartCode \in Triple
    BY PacketParts DEF StreamInv, TypeOK, Triple, StartCode
  <2>2. <<StartCode, p.header>> \in Seq(Triple)
    BY <2>1
  <2>3. QED BY <1>1, <2>1, <2>2
<1>3. Assembled(p) = c \o d
  BY DEF Assembled
<1>4. d[t - f + 1] = <<nal.frame, nal.index, t>>
  <2>1. t - f + 1 \in 1 .. t - f + 1 /\ f + (t - f + 1) - 1 = t
    OBVIOUS
  <2>2. QED BY <1>1, <2>1
<1> HIDE DEF c, d
<1>5. /\ Len(c \o d) = Len(c) + Len(d) /\ Len(c) \in Nat
      /\ \A k \in 1 .. Len(c) + Len(d) : (c \o d)[k] = IF k <= Len(c) THEN c[k] ELSE d[k - Len(c)]
  BY <1>2, ConcatProperties, LenProperties
<1>6. /\ Len(c) + Len(d) \in 1 .. Len(c) + Len(d) /\ ~(Len(c) + Len(d) <= Len(c))
      /\ (Len(c) + Len(d)) - Len(c) = t - f + 1
  BY <1>2, <1>5
<1>7. (c \o d)[Len(c \o d)] = d[t - f + 1]
  BY <1>5, <1>6
<1>8. (c \o d)[Len(c \o d)] = <<nal.frame, nal.index, t>>
  BY <1>4, <1>7
<1>9. QED BY <1>3, <1>8

\* A packet is received: the packet behind it finds its unit begun, or goes
\* on where it did.
LEMMA ReceivesLeft ==
  ASSUME IInv, LeftInv, Receives
  PROVE  LeftInv'
<1> USE DEF IInv, LeftInv
<1>1. /\ wire # <<>> /\ wire' = Tail(wire) /\ damaged' = damaged /\ Offered' = Offered
      /\ UNCHANGED <<frame, nals, i, sent, offered>>
      /\ wire \in Seq(Packets(frame)) /\ frame \in Nat
  <2>1. wire # <<>>
    BY DEF Receives, Receive
  <2>2. QED BY <2>1, BufferAfter DEF StreamInv
<1>2. /\ Len(wire) \in Nat /\ Len(wire) >= 1 /\ Len(wire') = Len(wire) - 1
      /\ \A k \in 1 .. Len(wire') : wire'[k] = wire[k + 1]
  BY <1>1
<1>3. ASSUME NEW k \in 1 .. Len(wire') + 1, NEW nal \in Offered, nal.frame \notin damaged,
             NEW n \in 1 .. nal.size - 1, Preceded(wire, h264_buf, k + 1, nal, n)
      PROVE  Preceded(wire', h264_buf', k, nal, n)
  <2>1. k \in Nat /\ k + 1 \in Nat /\ k + 1 # 1 /\ (k + 1) - 1 = k
    BY <1>2
  <2>2. CASE k = 1
    <3>1. PICK from \in 2 .. n : Carries(wire[1], nal, from, n)
      BY <1>3, <2>1, <2>2 DEF Preceded
    <3>2. h264_buf' = Begun(nal, n)
      BY <1>1, <1>3, <3>1, HeadFills
    <3>3. QED BY <2>2, <3>2 DEF Preceded
  <2>3. CASE k # 1
    <3>1. k - 1 \in 1 .. Len(wire') /\ (k - 1) + 1 = k
      BY <1>2, <2>3
    <3>2. wire'[k - 1] = wire[(k + 1) - 1]
      BY <1>2, <2>1, <3>1
    <3>3. QED BY <1>3, <2>1, <2>3, <3>2, SamePredecessor
  <2>4. QED BY <2>2, <2>3
<1>4. ASSUME NEW k \in 1 .. Len(wire') PROVE InOrder(wire, h264_buf, k)'
  <2>1. k + 1 \in 1 .. Len(wire) /\ wire'[k] = wire[k + 1] /\ k \in 1 .. Len(wire') + 1
    BY <1>2
  <2>2. InOrder(wire, h264_buf, k + 1)
    BY <2>1 DEF FragmentsInv
  <2>3. QED BY <1>1, <1>3, <2>1, <2>2, StaysInOrder
<1>5. FragmentsInv'
  BY <1>4 DEF FragmentsInv
<1>6. SenderInv'
  <2>1. ASSUME NEW nal \in Offered, NEW n \in 1 .. nal.size - 1, nal.frame \notin damaged',
               Preceded(wire, h264_buf, Len(wire) + 1, nal, n)
        PROVE  Preceded(wire', h264_buf', Len(wire') + 1, nal, n)
    <3>1. (Len(wire') + 1) + 1 = Len(wire) + 1 /\ Len(wire') + 1 \in 1 .. Len(wire') + 1
      BY <1>2
    <3>2. QED BY <1>1, <1>3, <2>1, <3>1
  <2>2. QED BY <1>1, <2>1, SenderStays
<1>7. NothingLeftOver'
  <2>1. CASE h264_buf' = h264_buf
    BY <1>1, <2>1, BufferStays
  <2>2. CASE h264_buf' = <<>>
    BY <2>2 DEF NothingLeftOver
  <2>3. CASE /\ wire[1].form = "fragment" /\ ~wire[1].end /\ h264_buf' = Assembled(wire[1])
    <3> DEFINE p == wire[1]
    <3>1. 1 \in 1 .. Len(wire) /\ p \in Packets(frame)
      BY <1>1, <1>2, ElementOfSeq
    <3>2. InOrder(wire, h264_buf, 1)
      BY <3>1 DEF FragmentsInv
    <3>3. PICK nal \in Offered : \E f \in 2 .. nal.size : \E t \in f .. nal.size :
            Carries(p, nal, f, t)
      BY <2>3, <3>2 DEF InOrder
    <3>4. PICK f \in 2 .. nal.size : \E t \in f .. nal.size : Carries(p, nal, f, t)
      BY <3>3
    <3>5. PICK t \in f .. nal.size : Carries(p, nal, f, t)
      BY <3>4
    <3>6. /\ nal.frame \in Nat /\ nal.index \in Nat /\ nal.size \in Nat
          /\ f \in Nat /\ t \in Nat /\ f >= 2 /\ f <= t /\ t # nal.size
      <4>1. p.end <=> t = nal.size
        BY <3>5 DEF Carries
      <4>2. QED BY <2>3, <4>1, OfferedNal
    <3>7. h264_buf'[Len(h264_buf')][1] = nal.frame
      BY <2>3, <3>1, <3>5, <3>6, LastByte
    <3>8. t \in 1 .. nal.size - 1 /\ f \in 2 .. t
      BY <3>6
    <3>9. ASSUME nal.frame \notin damaged PROVE h264_buf' = Begun(nal, t)
      BY <1>1, <3>5, <3>8, <3>9, HeadFills
    <3>10. QED BY <1>1, <3>7, <3>8, <3>9 DEF NothingLeftOver, Begun
  <2>4. QED BY <1>1, <2>1, <2>2, <2>3, BufferAfter
<1>8. QED BY <1>5, <1>6, <1>7

-----------------------------------------------------------------------------
(* The theorem on what is left over. *)

\* At the start nothing is sent.
LEMMA LeftInit == Init => LeftInv
<1> SUFFICES ASSUME Init PROVE LeftInv
  OBVIOUS
<1>1. wire = <<>> /\ h264_buf = <<>> /\ nals = <<>>
  BY DEF Init, DownlinkInit, ReceiverInit
<1>2. DOMAIN nals = {} /\ 1 .. Len(wire) = {}
  BY <1>1
<1>3. QED BY <1>1, <1>2 DEF LeftInv, NothingLeftOver, FragmentsInv, SenderInv

\* The invariant behind it holds in every state.
LEMMA LeftInvariance == Spec => []LeftInv
<1>1. LeftInv /\ IInv /\ [Next]_vars => LeftInv'
  <2> SUFFICES ASSUME IInv, LeftInv, [Next]_vars PROVE LeftInv'
    OBVIOUS
  <2>1. CASE Satellite
    <3>1. UNCHANGED receiver
      BY <2>1 DEF Satellite
    <3>2. ASSUME NEW au \in AccessUnits, Encode(au) PROVE LeftInv'
      BY <3>1, <3>2, EncodeLeft
    <3>3. CASE SendSingle
      BY <3>1, <3>3, SendSingleLeft
    <3>4. CASE SendFragment
      BY <3>1, <3>4, SendFragmentLeft
    <3>5. QED BY <2>1, <3>2, <3>3, <3>4 DEF Satellite, Send
  <2>2. CASE SendError
    BY <2>2, SendFailsLeft DEF SendError
  <2>3. CASE Link
    BY <2>3, LoseLeft, OvertakeLeft, DuplicateLeft DEF Link
  <2>4. CASE Receives
    BY <2>4, ReceivesLeft
  <2>5. CASE Polls \/ UNCHANGED vars
    <3>1. UNCHANGED <<frame, nals, i, sent, offered, damaged, wire, h264_buf>>
      BY <2>5 DEF Polls, PollStart, PollEnd, vars, sender, receiver
    <3>2. QED
      BY <3>1 DEF LeftInv, NothingLeftOver, FragmentsInv, SenderInv, InOrder, Offered
  <2>6. QED BY <2>1, <2>2, <2>3, <2>4, <2>5 DEF Next
<1>2. QED BY <1>1, LeftInit, Invariance, PTL DEF Spec

\* Neither lost nor doubled nor reordered packets nor a failing sendto ever
\* leave bytes of one unit in the reassembly buffer in front of another: when
\* the last byte of the buffer is of a frame no fault has touched, the buffer
\* is the beginning of one unit.
THEOREM NothingLeft == Spec => []NothingLeftOver
<1>1. LeftInv => NothingLeftOver
  BY DEF LeftInv
<1>2. QED BY <1>1, LeftInvariance, PTL
=============================================================================
