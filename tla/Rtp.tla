-------------------------------- MODULE Rtp --------------------------------
(***************************************************************************)
(* What the two ends of the video link share: the NAL units that x264      *)
(* hands to the satellite and the packets that carry them to the ground.   *)
(* A byte is known by where it comes from, so that a packet or a buffer    *)
(* shows which NAL units it is made of.                                    *)
(***************************************************************************)
EXTENDS Integers, Sequences

CONSTANTS
  MAX_PAYLOAD_SIZE,  \* bytes of payload that fit in a packet
  SeqMod,            \* rtp_seq_number is a uint16_t: it counts modulo this
  AccessUnits,       \* what the encoder may make of a frame
  MaxFrames,         \* bound: frames encoded
  MaxInFlight,       \* bound: packets on the wire when a frame is encoded
  Faults             \* what may go wrong, from the set below

\* Two bytes of a fragment are the FU indicator and the FU header.
FragmentSize == MAX_PAYLOAD_SIZE - 2

\* With b_annexb the NAL units begin with a start code.  x264 writes the
\* long one (00 00 00 01) for the first unit of a frame and for parameter
\* sets, the short one (00 00 01) for the others: no unit is a single byte.
Unit == [kind : {"param", "idr", "delta"}, size : Nat \ {0, 1},
         startcode : {"long", "short"}]

IsPicture(unit) == unit.kind # "param"

\* The encoder makes one slice of a picture (i_threads is 1, no sliced threads)
\* and repeats the parameter sets before each key picture (b_repeat_headers).
OnePicture(au) ==
  /\ \E k \in DOMAIN au : IsPicture(au[k])
  /\ \A j, k \in DOMAIN au : IsPicture(au[j]) /\ IsPicture(au[k]) => j = k
  /\ \A k \in DOMAIN au : au[k].kind = "idr" => \E j \in 1 .. k - 1 : au[j].kind = "param"

ASSUME RtpAssumption ==
  /\ MAX_PAYLOAD_SIZE \in Nat /\ FragmentSize > 0
  /\ SeqMod \in Nat \ {0}
  /\ \A au \in AccessUnits : au \in Seq(Unit) /\ au # <<>> /\ OnePicture(au)
  /\ MaxFrames \in Nat /\ MaxInFlight \in Nat
  /\ Faults \subseteq {"loss", "reorder", "duplicate", "sendto"}

\* Unit i of the given frame as a NAL unit of the stream, and its bytes.
Nal(frame, i, unit) ==
  [frame |-> frame, index |-> i, kind |-> unit.kind, size |-> unit.size,
   startcode |-> unit.startcode]
Byte(nal, at) == <<nal.frame, nal.index, at>>
Bytes(nal, from, to) == [k \in 1 .. to - from + 1 |-> Byte(nal, from + k - 1)]
Whole(nal) == Bytes(nal, 1, nal.size)

StartCode == <<0, 0, 0>>  \* the start code that the receiver puts in front

IsKey(au) == \E i \in DOMAIN au : au[i].kind = "idr"

\* A packet holds a whole NAL unit, or a fragment: start and end are the S
\* and E bits, header is the unit's first byte, rebuilt from the FU bytes.
SinglePacket(seq, marker, nal) ==
  [form |-> "single", seq |-> seq, marker |-> marker, frame |-> nal.frame,
   startcode |-> nal.startcode, data |-> Whole(nal)]
FragmentPacket(seq, marker, nal, from, to) ==
  [form |-> "fragment", seq |-> seq, marker |-> marker, frame |-> nal.frame,
   start |-> from = 2, end |-> to = nal.size, header |-> Byte(nal, 1),
   data |-> Bytes(nal, from, to)]

VARIABLES
  wire,    \* packets sent and not yet received, oldest first
  damaged  \* history: frames that a fault has touched on the way
=============================================================================
