-------------------------- MODULE VideoChainProofs --------------------------
(***************************************************************************)
(* More proofs about VideoLink, for every packet size, all access units    *)
(* and any set of faults: until the first fault the decoder is given every *)
(* NAL unit whole, once and in order, so that the video path is a pipe of  *)
(* units; and no fault harms a picture beyond the next key frame.  All of  *)
(* them rest on one invariant, that each packet on the wire goes on where  *)
(* the one before it, or the receiver, left off.                           *)
(***************************************************************************)
EXTENDS VideoLinkProofs, FiniteSetTheorems

-----------------------------------------------------------------------------
(* Counting the units that reach the decoder. *)

\* One unit more counts one more if it reaches the decoder.
LEMMA RankCounts ==
  ASSUME NEW s, NEW k \in Nat
  PROVE  /\ IsFiniteSet(Reaching(s, k)) /\ Rank(s, k) \in Nat
         /\ Rank(s, k + 1) = IF Reaches(s[k + 1]) THEN Rank(s, k) + 1 ELSE Rank(s, k)
<1>1. IsFiniteSet(1 .. k)
  BY FS_Interval
<1>2. Reaching(s, k) \in SUBSET (1 .. k)
  BY DEF Reaching
<1>3. IsFiniteSet(Reaching(s, k)) /\ Rank(s, k) \in Nat
  BY <1>1, <1>2, FS_Subset, FS_CardinalityType DEF Rank
<1>4. CASE Reaches(s[k + 1])
  <2>1. Reaching(s, k + 1) = Reaching(s, k) \cup {k + 1} /\ k + 1 \notin Reaching(s, k)
    BY <1>4 DEF Reaching
  <2>2. QED BY <1>3, <1>4, <2>1, FS_AddElement DEF Rank
<1>5. CASE ~Reaches(s[k + 1])
  <2>1. Reaching(s, k + 1) = Reaching(s, k)
    BY <1>5 DEF Reaching
  <2>2. QED BY <1>3, <1>5, <2>1 DEF Rank
<1>6. QED BY <1>3, <1>4, <1>5

LEMMA RankOfNone ==
  ASSUME NEW s
  PROVE  Rank(s, 0) = 0
<1>1. Reaching(s, 0) = {}
  BY DEF Reaching
<1>2. QED BY <1>1, FS_EmptySet DEF Rank

\* Later places have no lower rank, and a higher one if they reach.
LEMMA RankGrows ==
  ASSUME NEW s, NEW j \in Nat, NEW k \in Nat, j <= k
  PROVE  /\ Rank(s, j) <= Rank(s, k)
         /\ j # k /\ Reaches(s[k]) => Rank(s, j) < Rank(s, k)
<1>1. ASSUME NEW l \in Nat, j <= l PROVE Rank(s, j) <= Rank(s, l)
  <2>1. Reaching(s, j) \in SUBSET Reaching(s, l)
    BY <1>1 DEF Reaching
  <2>2. QED BY <2>1, RankCounts, FS_Subset DEF Rank
<1>2. ASSUME j # k, Reaches(s[k]) PROVE Rank(s, j) < Rank(s, k)
  <2>1. k - 1 \in Nat /\ j <= k - 1 /\ (k - 1) + 1 = k
    BY <1>2
  <2>2. Rank(s, k) = Rank(s, k - 1) + 1 /\ Rank(s, k - 1) \in Nat /\ Rank(s, j) \in Nat
    BY <1>2, <2>1, RankCounts
  <2>3. QED BY <1>1, <2>1, <2>2
<1>3. QED BY <1>1, <1>2

\* A unit that reaches the decoder is the only one of its rank.
LEMMA RankTells ==
  ASSUME NEW s, NEW n \in Nat, NEW j \in Reaching(s, n), NEW k \in Reaching(s, n), Rank(s, j) = Rank(s, k)
  PROVE  j = k
<1>1. j \in Nat /\ k \in Nat /\ Reaches(s[j]) /\ Reaches(s[k])
  BY DEF Reaching
<1>2. Rank(s, j) \in Nat /\ Rank(s, k) \in Nat
  BY <1>1, RankCounts
<1>3. QED BY <1>1, <1>2, RankGrows

\* The rank of a unit among n units.
LEMMA RankRange ==
  ASSUME NEW s, NEW n \in Nat, NEW k \in Reaching(s, n)
  PROVE  Rank(s, k) \in 1 .. Rank(s, n)
<1>1. k \in Nat /\ 0 <= k /\ k # 0 /\ k <= n /\ Reaches(s[k])
  BY DEF Reaching
<1>2. Rank(s, k) \in Nat /\ Rank(s, n) \in Nat
  BY <1>1, RankCounts
<1>3. Rank(s, 0) < Rank(s, k)
  BY <1>1, RankGrows
<1>4. Rank(s, k) <= Rank(s, n)
  BY <1>1, RankGrows
<1>5. QED BY <1>2, <1>3, <1>4, RankOfNone

\* Every rank up to the highest is the rank of a unit: the ranks are as many.
LEMMA RankOnto ==
  ASSUME NEW s, NEW n \in Nat, NEW r \in 1 .. Rank(s, n)
  PROVE  \E k \in Reaching(s, n) : Rank(s, k) = r
<1> DEFINE S == Reaching(s, n)
           T == 1 .. Rank(s, n)
           f == [k \in S |-> Rank(s, k)]
<1>1. IsFiniteSet(S) /\ Rank(s, n) \in Nat /\ Cardinality(S) = Rank(s, n)
  BY RankCounts DEF Rank
<1>2. IsFiniteSet(T) /\ Cardinality(T) = Rank(s, n)
  BY <1>1, FS_Interval
<1>3. f \in [S -> T]
  BY RankRange
<1>4. \A j, k \in S : f[j] = f[k] => j = k
  BY RankTells
<1>5. f \in Injection(S, T)
  BY <1>3, <1>4 DEF Injection, IsInjective
<1>6. f \in Surjection(S, T)
  <2> HIDE DEF f, S, T
  <2>1. QED BY <1>1, <1>2, <1>5, FS_Injection
<1>7. \E k \in S : f[k] = r
  BY <1>6 DEF Surjection
<1>8. QED BY <1>7

\* Passing lists the units that reach the decoder, each at its rank.
LEMMA PassingIs ==
  ASSUME NEW S, NEW s \in Seq(S)
  PROVE  /\ Passing(s) \in Seq(S) /\ Len(Passing(s)) = Rank(s, Len(s))
         /\ \A k \in Reaching(s, Len(s)) : Passing(s)[Rank(s, k)] = s[k]
         /\ \A n \in 1 .. Len(Passing(s)) :
              \E k \in Reaching(s, Len(s)) : Rank(s, k) = n /\ Passing(s)[n] = s[k]
<1> DEFINE l == Len(s)
           Place(n) == CHOOSE k \in Reaching(s, l) : Rank(s, k) = n
<1>1. l \in Nat /\ Rank(s, l) \in Nat
  BY RankCounts
<1>2. ASSUME NEW n \in 1 .. Rank(s, l)
      PROVE  Place(n) \in Reaching(s, l) /\ Rank(s, Place(n)) = n
  <2>1. \E k \in Reaching(s, l) : Rank(s, k) = n
    BY <1>1, RankOnto
  <2>2. QED BY <2>1
<1>3. ASSUME NEW k \in Reaching(s, l) PROVE s[k] \in S
  BY <1>1, ElementOfSeq DEF Reaching
<1>4. Passing(s) = [n \in 1 .. Rank(s, l) |-> s[Place(n)]]
  BY DEF Passing, Rank
<1> HIDE DEF Place, l
<1>5. Passing(s) \in [1 .. Rank(s, l) -> S]
  BY <1>2, <1>3, <1>4
<1>6. Passing(s) \in Seq(S) /\ Len(Passing(s)) = Rank(s, l)
  BY <1>1, <1>5, SeqDef
<1>7. ASSUME NEW k \in Reaching(s, l) PROVE Passing(s)[Rank(s, k)] = s[k]
  <2>1. Rank(s, k) \in 1 .. Rank(s, l)
    BY <1>1, RankRange
  <2>2. Place(Rank(s, k)) = k
    BY <1>1, <1>2, <2>1, RankTells
  <2>3. QED BY <1>4, <2>1, <2>2
<1>8. ASSUME NEW n \in 1 .. Len(Passing(s))
      PROVE  \E k \in Reaching(s, l) : Rank(s, k) = n /\ Passing(s)[n] = s[k]
  <2>1. n \in 1 .. Rank(s, l)
    BY <1>6
  <2>2. QED BY <1>2, <1>4, <2>1
<1>9. QED BY <1>6, <1>7, <1>8 DEF l

-----------------------------------------------------------------------------
(* The stream of units, and the places of the packets in it. *)

\* The frame of the unit at this place; the next unit will be of a new frame.
FrameAt(u) == IF u \in DOMAIN offered THEN offered[u].frame ELSE frame + 1

Places == 1 .. Len(offered) + 1

\* Units are offered frame by frame, in order; the last ones are being sent.
OrderInv ==
  /\ \A u, v \in DOMAIN offered : u < v =>
       \/ offered[u].frame < offered[v].frame
       \/ offered[u].frame = offered[v].frame /\ offered[u].index < offered[v].index
  /\ \A u \in DOMAIN offered : FrameAt(u + 1) \in {FrameAt(u), FrameAt(u) + 1}
  /\ Len(nals) <= Len(offered)
  /\ \A j \in DOMAIN nals : offered[Len(offered) - Len(nals) + j] = nals[j]

\* Each frame has one picture, a key picture after its parameter sets.
PicturesInv ==
  /\ \A n \in 1 .. frame : \E u \in DOMAIN offered : offered[u].frame = n /\ IsPicture(offered[u])
  /\ \A u, v \in DOMAIN offered :
       offered[u].frame = offered[v].frame /\ IsPicture(offered[u]) /\ IsPicture(offered[v])
         => u = v
  /\ \A u \in DOMAIN offered : offered[u].kind = "idr" =>
       \E v \in 1 .. u - 1 : offered[v].frame = offered[u].frame /\ offered[v].kind = "param"

\* Packet p is (part of) the unit at place u.
PartOf(p, u) ==
  /\ u \in DOMAIN offered /\ p.frame = offered[u].frame
  /\ \/ /\ p.form = "single" /\ offered[u].size <= MAX_PAYLOAD_SIZE
        /\ p.startcode = offered[u].startcode /\ p.data = Whole(offered[u])
     \/ /\ offered[u].size > MAX_PAYLOAD_SIZE
        /\ \E from \in 2 .. offered[u].size : \E to \in from .. offered[u].size :
             Carries(p, offered[u], from, to)

\* The place of what comes after a packet of place u, and the sender's place.
Onward(p, u) == IF p.form = "fragment" /\ ~p.end THEN u ELSE u + 1
SenderPlace == Len(offered) - Len(nals) + i

\* No fault has touched the unit's frame, nor the frame of the unit before.
Clean(u) == FrameAt(u) \notin damaged /\ (u > 1 => FrameAt(u - 1) \notin damaged)

-----------------------------------------------------------------------------
(* The receiver when it has dealt with all packets of the units before u. *)

\* The decoder was given those of them that reach it.
GivenAt(u) ==
  damaged = {} =>
    /\ Len(fed) = Rank(offered, u - 1)
    /\ \A k \in 1 .. Len(fed) : Stripped(fed[k]) = Whole(Expected[k])

\* The decoder knows the parameter sets of the unit's frame that it was given.
HeadersAt(u) ==
  \A v \in 1 .. u - 1 :
    offered[v].frame = FrameAt(u) /\ offered[v].kind = "param" /\ Reaches(offered[v]) => headers

PictureBefore(u) == \E v \in 1 .. u - 1 : offered[v].frame = FrameAt(u) /\ IsPicture(offered[v])

\* The decoder holds the picture of the unit's frame, or, before it comes, the
\* picture of the frame before, if that can be decoded.
RefAt(u) ==
  /\ PictureBefore(u) /\ Recoverable(FrameAt(u)) => ref = FrameAt(u)
  /\ ~PictureBefore(u) /\ Recoverable(FrameAt(u) - 1) => ref = FrameAt(u) - 1

At(u) == GivenAt(u) /\ HeadersAt(u) /\ RefAt(u)

-----------------------------------------------------------------------------
(* The inductive invariant.  Behind the last packet is the sender. *)

Here(k, u) == IF k = Len(wire) + 1 THEN u = SenderPlace ELSE PartOf(wire[k], u)

\* What comes before place k of the wire leads to place u.
Follows(k, u) ==
  IF k = 1 THEN At(u)
  ELSE \E v \in DOMAIN offered : PartOf(wire[k - 1], v) /\ u = Onward(wire[k - 1], v)

Chained(k) == \A u \in Places : Here(k, u) /\ Clean(u) => Follows(k, u)

ChainInv ==
  /\ fed \in Seq(Seq(Triple))
  /\ \A k \in 1 .. Len(wire) : \E u \in DOMAIN offered : PartOf(wire[k], u)
  /\ \A k \in 1 .. Len(wire) + 1 : Chained(k)

\* Losing packets harms no picture that can be decoded: VideoLink's property,
\* here as a part of the invariant.
PathInv == OrderInv /\ PicturesInv /\ ChainInv /\ LossEndsAtKeyFrame

-----------------------------------------------------------------------------
(* Facts about places. *)

\* What is known of the unit at a place.
LEMMA PlaceType ==
  ASSUME StreamInv, NEW u \in DOMAIN offered
  PROVE  /\ u \in 1 .. Len(offered) /\ u \in Nat /\ Len(offered) \in Nat
         /\ offered[u] \in NalsOf(1 .. frame) /\ offered[u] \in Offered
         /\ offered[u].frame \in 1 .. frame /\ offered[u].frame \in Nat /\ frame \in Nat
         /\ offered[u].index \in Nat /\ offered[u].size \in Nat /\ offered[u].size >= 2
         /\ FrameAt(u) = offered[u].frame
<1>1. u \in 1 .. Len(offered) /\ u \in Nat /\ Len(offered) \in Nat /\ frame \in Nat
  BY DEF StreamInv
<1>2. offered[u] \in NalsOf(1 .. frame)
  BY <1>1, ElementOfSeq DEF StreamInv
<1>3. offered[u] \in Offered
  BY DEF Offered
<1>4. QED BY <1>1, <1>2, <1>3, OfferedNal DEF FrameAt

\* The frames of places do not fall.
LEMMA FramesGrow ==
  ASSUME StreamInv, OrderInv, NEW u \in Places, NEW v \in Places, u <= v
  PROVE  FrameAt(u) \in Nat /\ FrameAt(u) >= 1 /\ FrameAt(v) \in Nat /\ FrameAt(u) <= FrameAt(v)
<1>1. Len(offered) \in Nat /\ DOMAIN offered = 1 .. Len(offered) /\ frame \in Nat
  BY DEF StreamInv
<1>2. ASSUME NEW w \in Places
      PROVE  FrameAt(w) \in 1 .. frame + 1 /\ (w \in DOMAIN offered => FrameAt(w) <= frame)
  <2>1. CASE w \in DOMAIN offered
    <3>1. FrameAt(w) \in 1 .. frame
      BY <2>1, PlaceType
    <3>2. QED BY <1>1, <3>1
  <2>2. CASE w \notin DOMAIN offered
    BY <1>1, <2>2 DEF FrameAt
  <2>3. QED BY <2>1, <2>2
<1>3. FrameAt(u) \in 1 .. frame + 1 /\ FrameAt(v) \in 1 .. frame + 1
  BY <1>2
<1>4. CASE u = v
  BY <1>1, <1>3, <1>4
<1>5. CASE u < v /\ v \in DOMAIN offered
  <2>1. u \in DOMAIN offered
    BY <1>1, <1>5 DEF Places
  <2>2. FrameAt(u) = offered[u].frame /\ FrameAt(v) = offered[v].frame
    BY <1>5, <2>1, PlaceType
  <2>3. offered[u].frame <= offered[v].frame
    BY <1>1, <1>3, <1>5, <2>1, <2>2 DEF OrderInv
  <2>4. QED BY <1>1, <1>3, <2>2, <2>3
<1>6. CASE v \notin DOMAIN offered
  BY <1>1, <1>3, <1>6 DEF FrameAt
<1>7. u < v \/ u = v
  BY <1>1 DEF Places
<1>8. QED BY <1>4, <1>5, <1>6, <1>7

\* A unit is told by the frame and its index in it.
LEMMA UnitTells ==
  ASSUME StreamInv, OrderInv, NEW u \in DOMAIN offered, NEW v \in DOMAIN offered,
         offered[u].frame = offered[v].frame, offered[u].index = offered[v].index
  PROVE  u = v
<1>1. u \in Nat /\ v \in Nat /\ offered[u].frame \in Nat /\ offered[u].index \in Nat
  BY PlaceType
<1>2. ASSUME u < v PROVE FALSE
  BY <1>1, <1>2 DEF OrderInv
<1>3. ASSUME v < u PROVE FALSE
  BY <1>1, <1>3 DEF OrderInv
<1>4. QED BY <1>1, <1>2, <1>3

\* The first byte of a packet tells its unit.
LEMMA PartTells ==
  ASSUME StreamInv, NEW p, NEW u \in DOMAIN offered, PartOf(p, u)
  PROVE  \E f \in Nat : p.data[1] = <<offered[u].frame, offered[u].index, f>>
<1>1. offered[u].size \in Nat /\ offered[u].size >= 2
  BY PlaceType
<1>2. CASE p.data = Whole(offered[u])
  <2>1. 1 \in 1 .. offered[u].size - 1 + 1 /\ 1 + 1 - 1 = 1
    BY <1>1
  <2>2. Whole(offered[u])[1] = <<offered[u].frame, offered[u].index, 1>>
    BY <2>1 DEF Whole, Bytes, Byte
  <2>3. QED BY <1>2, <2>2
<1>3. CASE \E from \in 2 .. offered[u].size : \E to \in from .. offered[u].size :
             Carries(p, offered[u], from, to)
  <2>1. PICK from \in 2 .. offered[u].size : \E to \in from .. offered[u].size :
             Carries(p, offered[u], from, to)
    BY <1>3
  <2>2. PICK to \in from .. offered[u].size : Carries(p, offered[u], from, to)
    BY <2>1
  <2>3. from \in Nat /\ to \in Nat /\ from <= to
    BY <1>1
  <2>4. p.data[1] = <<offered[u].frame, offered[u].index, from>>
    BY <2>2, <2>3, FragmentTells
  <2>5. QED BY <2>3, <2>4
<1>4. QED BY <1>2, <1>3 DEF PartOf

LEMMA OnePlace ==
  ASSUME StreamInv, OrderInv, NEW p, NEW u, NEW v, PartOf(p, u), PartOf(p, v)
  PROVE  u = v
<1>1. u \in DOMAIN offered /\ v \in DOMAIN offered
  BY DEF PartOf
<1>2. PICK f \in Nat : p.data[1] = <<offered[u].frame, offered[u].index, f>>
  BY <1>1, PartTells
<1>3. PICK g \in Nat : p.data[1] = <<offered[v].frame, offered[v].index, g>>
  BY <1>1, PartTells
<1>4. offered[u].frame = offered[v].frame /\ offered[u].index = offered[v].index
  BY <1>2, <1>3
<1>5. QED BY <1>1, <1>4, UnitTells

\* What comes after a packet of a damaged frame is not at a clean place.
LEMMA NotCleanAfter ==
  ASSUME StreamInv, NEW p, NEW v \in DOMAIN offered, PartOf(p, v),
         NEW faults, p.frame \in faults,
         NEW u, u = Onward(p, v)
  PROVE  ~(FrameAt(u) \notin faults /\ (u > 1 => FrameAt(u - 1) \notin faults))
<1>1. FrameAt(v) \in faults /\ v \in Nat /\ v >= 1
  BY PlaceType DEF PartOf
<1>2. u = v \/ (u = v + 1 /\ u > 1 /\ u - 1 = v)
  BY <1>1 DEF Onward
<1>3. QED BY <1>1, <1>2

\* After a damaged frame nothing is asked of the receiver until it has dealt
\* with a unit of the next frame.
LEMMA AtFirst ==
  ASSUME StreamInv, OrderInv, damaged \subseteq 1 .. frame,
         NEW u \in Places, u > 1, FrameAt(u) \notin damaged, FrameAt(u - 1) \in damaged
  PROVE  At(u)
<1>1. Len(offered) \in Nat /\ DOMAIN offered = 1 .. Len(offered) /\ frame \in Nat
  BY DEF StreamInv
<1>2. u - 1 \in DOMAIN offered /\ u - 1 \in Places /\ (u - 1) + 1 = u /\ u \in Nat
  BY <1>1 DEF Places
<1>3. FrameAt(u) \in {FrameAt(u - 1), FrameAt(u - 1) + 1}
  <2>1. FrameAt((u - 1) + 1) \in {FrameAt(u - 1), FrameAt(u - 1) + 1}
    BY <1>2 DEF OrderInv
  <2>2. QED BY <1>2, <2>1
<1>4. FrameAt(u) = FrameAt(u - 1) + 1 /\ FrameAt(u - 1) \in Nat /\ FrameAt(u - 1) >= 1
  BY <1>2, <1>3, FramesGrow
<1>5. ASSUME NEW v \in 1 .. u - 1 PROVE offered[v].frame # FrameAt(u)
  <2>1. v \in DOMAIN offered /\ v \in Places /\ v <= u - 1
    BY <1>1, <1>2 DEF Places
  <2>2. FrameAt(v) <= FrameAt(u - 1) /\ FrameAt(v) \in Nat /\ FrameAt(v) = offered[v].frame
    BY <1>2, <2>1, FramesGrow, PlaceType
  <2>3. QED BY <1>4, <2>2
<1>6. GivenAt(u)
  BY DEF GivenAt
<1>7. HeadersAt(u)
  BY <1>5 DEF HeadersAt
<1>8. RefAt(u)
  <2>1. ~PictureBefore(u)
    BY <1>5 DEF PictureBefore
  <2>2. FrameAt(u) - 1 = FrameAt(u - 1)
    BY <1>4
  <2>3. ~Recoverable(FrameAt(u - 1))
    <3>1. \A k \in 1 .. FrameAt(u - 1) : FrameAt(u - 1) \in k .. FrameAt(u - 1)
      BY <1>4
    <3>2. QED BY <3>1 DEF Recoverable
  <2>4. QED BY <2>1, <2>2, <2>3 DEF RefAt
<1>9. QED BY <1>6, <1>7, <1>8 DEF At
-----------------------------------------------------------------------------
(* What stays when no unit is encoded. *)

\* A frame that can still be decoded could be decoded before the fault.
LEMMA RecoverableBefore ==
  ASSUME offered' = offered, damaged \subseteq damaged', NEW n, Recoverable(n)'
  PROVE  Recoverable(n)
<1>1. Offered' = Offered
  BY DEF Offered
<1>2. PICK k \in 1 .. n :
        /\ k .. n \cap damaged' = {}
        /\ \E nal \in Offered : nal.frame = k /\ nal.kind = "idr"
        /\ \A nal \in Offered : nal.frame \in k .. n => Reaches(nal)
  BY <1>1 DEF Recoverable
<1>3. k .. n \cap damaged = {}
  BY <1>2
<1>4. QED BY <1>2, <1>3 DEF Recoverable

\* The stream's places and what the decoder is to be given.
LEMMA StreamStays ==
  ASSUME UNCHANGED <<frame, offered>>
  PROVE  /\ Offered' = Offered /\ Expected' = Expected /\ Places' = Places
         /\ \A u : FrameAt(u)' = FrameAt(u)
         /\ \A p, u : PartOf(p, u)' = PartOf(p, u)
         /\ \A u : PictureBefore(u)' = PictureBefore(u)
<1>1. Offered' = Offered /\ Places' = Places
  BY DEF Offered, Places
<1>4. Expected' = Expected
  BY DEF Expected
<1>5. \A u : FrameAt(u)' = FrameAt(u)
  BY DEF FrameAt
<1>6. \A p, u : PartOf(p, u)' = PartOf(p, u)
  BY DEF PartOf
<1>7. \A u : PictureBefore(u)' = PictureBefore(u)
  BY <1>5 DEF PictureBefore
<1>8. QED BY <1>1, <1>4, <1>5, <1>6, <1>7

LEMMA AtStays ==
  ASSUME UNCHANGED <<frame, offered, headers, ref, fed>>, damaged \subseteq damaged',
         NEW u, At(u)
  PROVE  At(u)'
<1>1. GivenAt(u)'
  BY StreamStays DEF At, GivenAt
<1>2. HeadersAt(u)'
  BY StreamStays DEF At, HeadersAt
<1>3. RefAt(u)'
  BY StreamStays, RecoverableBefore DEF At, RefAt
<1>4. QED BY <1>1, <1>2, <1>3 DEF At

LEMMA CleanBefore ==
  ASSUME UNCHANGED <<frame, offered>>, damaged \subseteq damaged', NEW u, Clean(u)'
  PROVE  Clean(u)
BY StreamStays DEF Clean

\* Place j of the wire is chained if it was chained as place k.
LEMMA ChainedFrom ==
  ASSUME UNCHANGED <<frame, offered>>, damaged \subseteq damaged', NEW k, NEW j, Chained(k),
         \A u \in Places : Here(j, u)' => Here(k, u),
         \A u \in Places : Clean(u)' /\ Follows(k, u) => Follows(j, u)'
  PROVE  Chained(j)'
<1> SUFFICES ASSUME NEW u \in Places', Here(j, u)', Clean(u)' PROVE Follows(j, u)'
  BY DEF Chained
<1>1. u \in Places /\ Clean(u) /\ Here(k, u)
  BY StreamStays, CleanBefore
<1>2. Follows(k, u)
  BY <1>1 DEF Chained
<1>3. QED BY <1>1, <1>2

\* Nothing is asked of a packet of a damaged frame.
LEMMA ChainedDamaged ==
  ASSUME StreamInv', NEW j, j # Len(wire') + 1, wire'[j].frame \in damaged'
  PROVE  Chained(j)'
<1> SUFFICES ASSUME NEW u \in Places', Here(j, u)', Clean(u)' PROVE FALSE
  BY DEF Chained
<1>1. PartOf(wire[j], u)'
  BY DEF Here
<1>2. u \in DOMAIN offered' /\ wire'[j].frame = offered'[u].frame
  BY <1>1 DEF PartOf
<1>3. FrameAt(u)' = offered'[u].frame
  BY <1>2 DEF FrameAt
<1>4. QED BY <1>2, <1>3 DEF Clean

\* Nor of a packet that came after one.
LEMMA NoFollower ==
  ASSUME StreamInv, UNCHANGED <<frame, offered>>, NEW k, k # 1,
         wire[k - 1].frame \in damaged', NEW u, Clean(u)', Follows(k, u)
  PROVE  FALSE
<1>1. PICK v \in DOMAIN offered : PartOf(wire[k - 1], v) /\ u = Onward(wire[k - 1], v)
  BY DEF Follows
<1>2. ~(FrameAt(u) \notin damaged' /\ (u > 1 => FrameAt(u - 1) \notin damaged'))
  BY <1>1, NotCleanAfter
<1>3. FrameAt(u)' = FrameAt(u) /\ FrameAt(u - 1)' = FrameAt(u - 1)
  BY StreamStays
<1>4. QED BY <1>2, <1>3 DEF Clean

\* A packet with the same packet before it.
LEMMA SameFollows ==
  ASSUME UNCHANGED <<frame, offered>>, NEW k, NEW j, k # 1, j # 1,
         wire'[j - 1] = wire[k - 1], NEW u, Follows(k, u)
  PROVE  Follows(j, u)'
<1>1. PICK v \in DOMAIN offered : PartOf(wire[k - 1], v) /\ u = Onward(wire[k - 1], v)
  BY DEF Follows
<1>2. PartOf(wire[j - 1], v)'
  BY <1>1 DEF PartOf
<1>3. u = Onward(wire[j - 1], v)'
  BY <1>1 DEF Onward
<1>4. v \in DOMAIN offered'
  OBVIOUS
<1>5. QED BY <1>2, <1>3, <1>4 DEF Follows

\* A packet that is as it was, and the sender behind the last packet.
LEMMA SameHere ==
  ASSUME UNCHANGED <<frame, offered, nals, i>>, NEW k, NEW j, NEW u, Here(j, u)',
         k = Len(wire) + 1 <=> j = Len(wire') + 1,
         j # Len(wire') + 1 => wire'[j] = wire[k]
  PROVE  Here(k, u)
<1>1. CASE j = Len(wire') + 1
  <2>1. u = SenderPlace'
    BY <1>1 DEF Here
  <2>2. SenderPlace' = SenderPlace
    BY DEF SenderPlace
  <2>3. QED BY <1>1, <2>1, <2>2 DEF Here
<1>2. CASE j # Len(wire') + 1
  <2>1. PartOf(wire[j], u)'
    BY <1>2 DEF Here
  <2>2. PartOf(wire[k], u)
    BY <1>2, <2>1 DEF PartOf
  <2>3. QED BY <1>2, <2>2 DEF Here
<1>3. QED BY <1>1, <1>2

\* What is left to show of a step that moves packets and decodes none.
LEMMA PathStays ==
  ASSUME PathInv, UNCHANGED <<frame, offered, headers, ref, fed, rgb_buffer>>,
         damaged \subseteq damaged', nals' = nals \/ nals' = <<>>,
         \A k \in 1 .. Len(wire') : \E u \in DOMAIN offered : PartOf(wire'[k], u),
         \A k \in 1 .. Len(wire') + 1 : Chained(k)'
  PROVE  PathInv'
<1>1. OrderInv'
  <2>1. \A u \in DOMAIN offered : FrameAt(u + 1)' = FrameAt(u + 1) /\ FrameAt(u)' = FrameAt(u)
    BY StreamStays
  <2>2. Len(nals') <= Len(offered') /\
        \A j \in DOMAIN nals' : offered'[Len(offered') - Len(nals') + j] = nals'[j]
    <3>1. CASE nals' = nals
      BY <3>1 DEF PathInv, OrderInv
    <3>2. CASE nals' = <<>>
      <4>1. Len(nals') = 0 /\ DOMAIN nals' = {} /\ Len(nals) \in Nat /\ Len(offered) \in Nat
        BY <3>2
      <4>2. QED BY <4>1
    <3>3. QED BY <3>1, <3>2
  <2>3. QED BY <2>1, <2>2 DEF PathInv, OrderInv
<1>2. PicturesInv'
  BY DEF PathInv, PicturesInv
<1>3. ChainInv'
  BY StreamStays DEF PathInv, ChainInv
<1>4. LossEndsAtKeyFrame'
  <2>1. \A n : Recoverable(n)' => Recoverable(n)
    BY RecoverableBefore
  <2>2. QED BY <2>1 DEF PathInv, LossEndsAtKeyFrame, Recoverable
<1>5. QED BY <1>1, <1>2, <1>3, <1>4 DEF PathInv
-----------------------------------------------------------------------------
(* The link. *)

\* Place j of the wire holds the packet that was at place k, and the packet
\* before it, if no fault has touched its frame, is also the one before.
LEMMA ChainedMoved ==
  ASSUME StreamInv, UNCHANGED <<frame, offered, nals, i, headers, ref, fed>>,
         damaged \subseteq damaged', NEW k, NEW j, Chained(k),
         k = Len(wire) + 1 <=> j = Len(wire') + 1,
         j # Len(wire') + 1 => wire'[j] = wire[k],
         \/ k = 1 /\ j = 1
         \/ k # 1 /\ wire[k - 1].frame \in damaged'
         \/ k # 1 /\ j # 1 /\ wire'[j - 1] = wire[k - 1]
  PROVE  Chained(j)'
<1>1. ASSUME NEW u, Here(j, u)' PROVE Here(k, u)
  BY <1>1, SameHere
<1>2. ASSUME NEW u, Clean(u)', Follows(k, u) PROVE Follows(j, u)'
  <2>1. CASE k = 1 /\ j = 1
    <3>1. At(u)
      BY <1>2, <2>1 DEF Follows
    <3>2. At(u)'
      BY <3>1, AtStays
    <3>3. QED BY <2>1, <3>2 DEF Follows
  <2>2. CASE k # 1 /\ wire[k - 1].frame \in damaged'
    BY <1>2, <2>2, NoFollower
  <2>3. CASE k # 1 /\ j # 1 /\ wire'[j - 1] = wire[k - 1]
    BY <1>2, <2>3, SameFollows
  <2>4. QED BY <2>1, <2>2, <2>3
<1>3. QED BY <1>1, <1>2, ChainedFrom

\* Whatever the link does, the packets on the wire are those it held before.
LEMMA LinkPath ==
  ASSUME PathInv, UNCHANGED <<sender, receiver>>, damaged \subseteq damaged',
         \A k \in 1 .. Len(wire') : \E j \in 1 .. Len(wire) : wire'[k] = wire[j],
         \A k \in 1 .. Len(wire') + 1 : Chained(k)'
  PROVE  PathInv'
<1>1. UNCHANGED <<frame, offered, nals, headers, ref, fed, rgb_buffer>>
  BY DEF sender, receiver, decoder
<1>2. \A k \in 1 .. Len(wire') : \E u \in DOMAIN offered : PartOf(wire'[k], u)
  BY DEF PathInv, ChainInv
<1>3. QED BY <1>1, <1>2, PathStays

LEMMA LosePath ==
  ASSUME IInv, PathInv, Lose
  PROVE  PathInv'
<1>1. /\ wire # <<>> /\ wire' = Tail(wire) /\ UNCHANGED <<sender, receiver>>
      /\ UNCHANGED <<frame, offered, nals, i, headers, ref, fed>>
      /\ damaged' = damaged \cup {Head(wire).frame} /\ StreamInv
  BY DEF Lose, Damage, IInv, sender, receiver, decoder
<1>2. /\ Len(wire) \in Nat /\ Len(wire) >= 1 /\ Len(wire') = Len(wire) - 1 /\ Head(wire) = wire[1]
      /\ \A k \in 1 .. Len(wire') : wire'[k] = wire[k + 1]
  BY <1>1 DEF StreamInv
<1>3. ASSUME NEW j \in 1 .. Len(wire') + 1 PROVE Chained(j)'
  <2>1. /\ j + 1 \in 1 .. Len(wire) + 1 /\ j + 1 # 1 /\ (j + 1) - 1 = j
        /\ (j + 1 = Len(wire) + 1 <=> j = Len(wire') + 1)
        /\ (j # Len(wire') + 1 => wire'[j] = wire[j + 1])
    BY <1>2
  <2>2. Chained(j + 1)
    BY <2>1 DEF PathInv, ChainInv
  <2>3. CASE j = 1
    <3>1. wire[(j + 1) - 1].frame \in damaged'
      BY <1>1, <1>2, <2>1, <2>3
    <3>2. QED BY <1>1, <2>1, <2>2, <3>1, ChainedMoved
  <2>4. CASE j # 1
    <3>1. wire'[j - 1] = wire[(j + 1) - 1]
      <4>1. j - 1 \in 1 .. Len(wire') /\ (j - 1) + 1 = (j + 1) - 1
        BY <1>2, <2>4
      <4>2. QED BY <1>2, <4>1
    <3>2. QED BY <1>1, <2>1, <2>2, <2>4, <3>1, ChainedMoved
  <2>5. QED BY <2>3, <2>4
<1>4. ASSUME NEW k \in 1 .. Len(wire') PROVE \E j \in 1 .. Len(wire) : wire'[k] = wire[j]
  <2>1. k + 1 \in 1 .. Len(wire) /\ wire'[k] = wire[k + 1]
    BY <1>2
  <2>2. QED BY <2>1
<1>5. QED BY <1>1, <1>3, <1>4, LinkPath

LEMMA DuplicatePath ==
  ASSUME IInv, PathInv, Duplicate
  PROVE  PathInv'
<1>1. /\ wire # <<>> /\ wire' = <<Head(wire)>> \o wire /\ UNCHANGED <<sender, receiver>>
      /\ UNCHANGED <<frame, offered, nals, i, headers, ref, fed>>
      /\ damaged' = damaged \cup {Head(wire).frame} /\ StreamInv
      /\ wire \in Seq(Packets(frame))
  BY DEF Duplicate, Damage, IInv, StreamInv, sender, receiver, decoder
<1>2. /\ Len(wire) \in Nat /\ Len(wire) >= 1 /\ Len(wire') = Len(wire) + 1 /\ Head(wire) = wire[1]
      /\ wire'[1] = wire[1] /\ \A k \in 1 .. Len(wire) : wire'[k + 1] = wire[k]
  BY <1>1
<1>3. StreamInv'
  <2>1. wire' \in Seq(Packets(frame))
    BY <1>1, <1>2
  <2>2. QED BY <1>1, <2>1 DEF StreamInv
<1>4. ASSUME NEW j \in 1 .. Len(wire') + 1 PROVE Chained(j)'
  <2>1. CASE j = 1
    BY <1>1, <1>2, <1>3, <2>1, ChainedDamaged
  <2>2. CASE j = 2
    <3>1. wire'[j] = wire[1] /\ j # Len(wire') + 1
      BY <1>2, <2>2
    <3>2. QED BY <1>1, <1>2, <1>3, <3>1, ChainedDamaged
  <2>3. CASE j > 2
    <3> DEFINE k == j - 1
    <3>1. /\ k \in 1 .. Len(wire) + 1 /\ k # 1 /\ j # 1
          /\ (k = Len(wire) + 1 <=> j = Len(wire') + 1)
      BY <1>2, <2>3
    <3>2. j # Len(wire') + 1 => wire'[j] = wire[k]
      <4>1. j # Len(wire') + 1 => k \in 1 .. Len(wire) /\ k + 1 = j
        BY <1>2, <2>3
      <4>2. QED BY <1>2, <4>1
    <3>3. wire'[j - 1] = wire[k - 1]
      <4>1. k - 1 \in 1 .. Len(wire) /\ (k - 1) + 1 = j - 1
        BY <1>2, <2>3
      <4>2. QED BY <1>2, <4>1
    <3>4. Chained(k)
      BY <3>1 DEF PathInv, ChainInv
    <3> HIDE DEF k
    <3>5. QED BY <1>1, <3>1, <3>2, <3>3, <3>4, ChainedMoved
  <2>4. QED BY <1>2, <2>1, <2>2, <2>3
<1>5. ASSUME NEW k \in 1 .. Len(wire') PROVE \E j \in 1 .. Len(wire) : wire'[k] = wire[j]
  <2>1. CASE k = 1
    BY <1>2, <2>1
  <2>2. CASE k # 1
    <3>1. k - 1 \in 1 .. Len(wire) /\ (k - 1) + 1 = k
      BY <1>2, <2>2
    <3>2. QED BY <1>2, <3>1
  <2>3. QED BY <2>1, <2>2
<1>6. QED BY <1>1, <1>4, <1>5, LinkPath

LEMMA OvertakePath ==
  ASSUME IInv, PathInv, NEW m \in 1 .. Len(wire) - 1, Overtake(m)
  PROVE  PathInv'
<1>1. /\ wire' = [wire EXCEPT ![m] = wire[m + 1], ![m + 1] = wire[m]]
      /\ UNCHANGED <<sender, receiver>>
      /\ UNCHANGED <<frame, offered, nals, i, headers, ref, fed>>
      /\ damaged' = damaged \cup {wire[m].frame, wire[m + 1].frame} /\ StreamInv
      /\ wire \in Seq(Packets(frame)) /\ Len(wire) \in Nat /\ m \in Nat
  BY DEF Overtake, Damage, IInv, StreamInv, sender, receiver, decoder
<1>2. /\ Len(wire') = Len(wire) /\ wire'[m] = wire[m + 1] /\ wire'[m + 1] = wire[m]
      /\ \A k \in 1 .. Len(wire) \ {m, m + 1} : wire'[k] = wire[k]
      /\ wire' \in Seq(Packets(frame))
  BY <1>1
<1>3. StreamInv'
  BY <1>1, <1>2 DEF StreamInv
<1>4. ASSUME NEW j \in 1 .. Len(wire') + 1 PROVE Chained(j)'
  <2>1. CASE j = m \/ j = m + 1
    <3>1. wire'[j].frame \in damaged' /\ j # Len(wire') + 1
      BY <1>1, <1>2, <2>1
    <3>2. QED BY <1>3, <3>1, ChainedDamaged
  <2>2. CASE j # m /\ j # m + 1
    <3>1. /\ Chained(j) /\ (j = Len(wire) + 1 <=> j = Len(wire') + 1)
          /\ j # Len(wire') + 1 => wire'[j] = wire[j]
      BY <1>1, <1>2, <2>2 DEF PathInv, ChainInv
    <3>2. CASE j = 1
      BY <1>1, <3>1, <3>2, ChainedMoved
    <3>3. CASE j = m + 2
      <4>1. j # 1 /\ wire[j - 1].frame \in damaged'
        BY <1>1, <3>3
      <4>2. QED BY <1>1, <3>1, <4>1, ChainedMoved
    <3>4. CASE j # 1 /\ j # m + 2
      <4>1. j - 1 \in 1 .. Len(wire) \ {m, m + 1}
        BY <1>1, <1>2, <2>2, <3>4
      <4>2. wire'[j - 1] = wire[j - 1]
        BY <1>2, <4>1
      <4>3. QED BY <1>1, <3>1, <3>4, <4>2, ChainedMoved
    <3>5. QED BY <3>2, <3>3, <3>4
  <2>3. QED BY <2>1, <2>2
<1>5. ASSUME NEW k \in 1 .. Len(wire') PROVE \E j \in 1 .. Len(wire) : wire'[k] = wire[j]
  <2>1. CASE k = m \/ k = m + 1
    BY <1>1, <1>2, <2>1
  <2>2. CASE k # m /\ k # m + 1
    BY <1>1, <1>2, <2>2
  <2>3. QED BY <2>1, <2>2
<1>6. QED BY <1>1, <1>4, <1>5, LinkPath

\* The rest of a frame that sendto cut short is sent by nobody: what follows
\* is the next frame, behind a damaged one.
LEMMA SendFailsPath ==
  ASSUME IInv, PathInv, SendFails, UNCHANGED receiver
  PROVE  PathInv'
<1>1. /\ nals # <<>> /\ nals' = <<>> /\ i' = 1 /\ damaged' = damaged \cup {frame}
      /\ UNCHANGED <<frame, offered, wire, headers, ref, fed, rgb_buffer>>
      /\ StreamInv /\ frame \in Nat /\ Len(wire) \in Nat
  BY DEF SendFails, IInv, StreamInv, receiver, decoder
<1>2. Len(offered) \in Nat /\ DOMAIN offered = 1 .. Len(offered)
  BY DEF IInv, StreamInv
<1>3. ASSUME NEW j, j = Len(wire) + 1, NEW u, Here(j, u)', Clean(u)' PROVE FALSE
  <2>1. u = Len(offered) + 1
    <3>1. u = SenderPlace'
      BY <1>1, <1>3 DEF Here
    <3>2. SenderPlace' = Len(offered) - 0 + 1
      BY <1>1 DEF SenderPlace
    <3>3. QED BY <1>2, <3>1, <3>2
  <2>2. Len(offered) >= 1
    <3>1. Len(nals) \in Nat /\ Len(nals) # 0
      BY <1>1 DEF IInv, StreamInv
    <3>2. QED BY <1>2, <3>1 DEF PathInv, OrderInv
  <2>3. Len(offered) \in DOMAIN offered /\ u > 1 /\ u - 1 = Len(offered)
    BY <1>2, <2>1, <2>2
  <2>4. FrameAt(u) \in {FrameAt(Len(offered)), FrameAt(Len(offered)) + 1}
    BY <2>1, <2>3 DEF PathInv, OrderInv
  <2>5. FrameAt(u) = frame + 1
    BY <1>2, <2>1 DEF FrameAt
  <2>6. FrameAt(Len(offered)) \in 1 .. frame
    BY <1>1, <2>3, PlaceType
  <2>7. FrameAt(u - 1) = frame
    BY <1>1, <2>3, <2>4, <2>5, <2>6
  <2>8. FrameAt(u - 1)' = FrameAt(u - 1)
    BY <1>1, StreamStays
  <2>9. QED BY <1>1, <1>3, <2>3, <2>7, <2>8 DEF Clean
<1>4. ASSUME NEW j \in 1 .. Len(wire') + 1 PROVE Chained(j)'
  <2>1. CASE j = Len(wire) + 1
    BY <1>3, <2>1 DEF Chained
  <2>2. CASE j # Len(wire) + 1
    <3>1. Chained(j)
      BY <1>1 DEF PathInv, ChainInv
    <3>2. ASSUME NEW u, Here(j, u)' PROVE Here(j, u)
      BY <1>1, <2>2, <3>2 DEF Here, PartOf
    <3>3. ASSUME NEW u, Follows(j, u) PROVE Follows(j, u)'
      <4>1. CASE j = 1
        <5>1. At(u)
          BY <3>3, <4>1 DEF Follows
        <5>2. At(u)'
          BY <1>1, <5>1, AtStays
        <5>3. QED BY <4>1, <5>2 DEF Follows
      <4>2. CASE j # 1
        BY <1>1, <3>3, <4>2, SameFollows
      <4>3. QED BY <4>1, <4>2
    <3>4. QED BY <1>1, <3>1, <3>2, <3>3, ChainedFrom
  <2>3. QED BY <2>1, <2>2
<1>5. \A k \in 1 .. Len(wire') : \E u \in DOMAIN offered : PartOf(wire'[k], u)
  BY <1>1 DEF PathInv, ChainInv
<1>6. QED BY <1>1, <1>4, <1>5, PathStays

\* The beginning and the end of a poll decode nothing.
LEMMA PollsPath ==
  ASSUME IInv, PathInv,
         UNCHANGED <<frame, offered, nals, i, headers, ref, fed, rgb_buffer, wire, damaged>>
  PROVE  PathInv'
<1>1. StreamInv
  BY DEF IInv
<1>2. ASSUME NEW j \in 1 .. Len(wire') + 1 PROVE Chained(j)'
  <2>1. Chained(j) /\ (j = Len(wire) + 1 <=> j = Len(wire') + 1) /\ wire'[j] = wire[j]
    BY DEF PathInv, ChainInv
  <2>2. (j = 1 /\ j = 1) \/ (j # 1 /\ j # 1 /\ wire'[j - 1] = wire[j - 1])
    OBVIOUS
  <2>3. QED BY <1>1, <2>1, <2>2, ChainedMoved
<1>3. \A k \in 1 .. Len(wire') : \E u \in DOMAIN offered : PartOf(wire'[k], u)
  BY DEF PathInv, ChainInv
<1>4. QED BY <1>2, <1>3, PathStays
-----------------------------------------------------------------------------
(* The satellite sends. *)

\* The unit at hand is the one at the sender's place.
LEMMA SenderAt ==
  ASSUME TypeOK, StreamInv, OrderInv, nals # <<>>
  PROVE  /\ SenderPlace \in DOMAIN offered /\ SenderPlace \in Nat /\ Len(offered) \in Nat
         /\ offered[SenderPlace] = nals[i]
         /\ i = Len(nals) => SenderPlace = Len(offered)
<1>1. i \in 1 .. Len(nals) /\ Len(nals) \in Nat /\ Len(offered) \in Nat
      /\ DOMAIN offered = 1 .. Len(offered) /\ DOMAIN nals = 1 .. Len(nals)
  BY DEF TypeOK, StreamInv
<1>2. Len(nals) <= Len(offered)
  BY DEF OrderInv
<1> DEFINE u == Len(offered) - Len(nals) + i
<1>3. offered[u] = nals[i]
  BY <1>1 DEF OrderInv
<1>4. u \in 1 .. Len(offered) /\ u \in Nat /\ (i = Len(nals) => u = Len(offered))
  <2>1. \A l, n \in Nat : \A k \in 1 .. n : n <= l =>
          l - n + k \in 1 .. l /\ l - n + k \in Nat /\ (k = n => l - n + k = l)
    OBVIOUS
  <2>2. QED BY <1>1, <1>2, <2>1
<1>5. SenderPlace = u
  BY DEF SenderPlace
<1> HIDE DEF u
<1>6. QED BY <1>1, <1>3, <1>4, <1>5

\* A packet of the unit at the sender's place joins the others.
LEMMA SendPath ==
  ASSUME IInv, PathInv, nals # <<>>, NEW p, Transmit(p), PartOf(p, SenderPlace),
         SenderPlace' = Onward(p, SenderPlace), UNCHANGED receiver,
         nals' = nals \/ nals' = <<>>
  PROVE  PathInv'
<1>1. /\ wire' = Append(wire, p) /\ wire \in Seq(Packets(frame)) /\ Len(wire) \in Nat
      /\ UNCHANGED <<frame, offered, damaged, headers, ref, fed, rgb_buffer>>
      /\ StreamInv /\ OrderInv
  BY DEF Transmit, IInv, PathInv, StreamInv, receiver, decoder
<1>2. /\ Len(wire') = Len(wire) + 1 /\ wire'[Len(wire) + 1] = p
      /\ \A k \in 1 .. Len(wire) : wire'[k] = wire[k]
  BY <1>1
<1>3. SenderPlace \in DOMAIN offered /\ SenderPlace \in Nat
  BY <1>1, SenderAt DEF IInv
<1>4. ASSUME NEW j \in 1 .. Len(wire) + 1 PROVE Chained(j)'
  <2>1. Chained(j) /\ j # Len(wire') + 1
    BY <1>1, <1>2 DEF PathInv, ChainInv
  <2>2. ASSUME NEW u \in Places, Here(j, u)' PROVE Here(j, u)
    <3>1. PartOf(wire'[j], u)
      BY <1>1, <2>1, <2>2 DEF Here, PartOf
    <3>2. CASE j = Len(wire) + 1
      <4>1. u = SenderPlace
        BY <1>1, <1>2, <3>1, <3>2, OnePlace
      <4>2. QED BY <3>2, <4>1 DEF Here
    <3>3. CASE j # Len(wire) + 1
      <4>1. wire'[j] = wire[j]
        BY <1>1, <1>2, <3>3
      <4>2. QED BY <3>1, <3>3, <4>1 DEF Here
    <3>4. QED BY <3>2, <3>3
  <2>3. ASSUME NEW u, Follows(j, u) PROVE Follows(j, u)'
    <3>1. CASE j = 1
      <4>1. At(u)
        BY <2>3, <3>1 DEF Follows
      <4>2. At(u)'
        BY <1>1, <4>1, AtStays
      <4>3. QED BY <3>1, <4>2 DEF Follows
    <3>2. CASE j # 1
      <4>1. j - 1 \in 1 .. Len(wire)
        BY <1>1, <3>2
      <4>2. wire'[j - 1] = wire[j - 1]
        BY <1>2, <4>1
      <4>3. QED BY <1>1, <2>3, <3>2, <4>2, SameFollows
    <3>3. QED BY <3>1, <3>2
  <2>4. QED BY <1>1, <2>1, <2>2, <2>3, ChainedFrom
<1>5. ASSUME NEW j, j = Len(wire') + 1 PROVE Chained(j)'
  <2> SUFFICES ASSUME NEW u \in Places', Here(j, u)' PROVE Follows(j, u)'
    BY DEF Chained
  <2>1. u = Onward(p, SenderPlace)
    BY <1>5 DEF Here
  <2>2. PICK v \in DOMAIN offered : v = SenderPlace
    BY <1>3
  <2>3. j # 1 /\ wire'[j - 1] = p
    BY <1>1, <1>2, <1>5
  <2>4. PartOf(wire[j - 1], v)'
    BY <1>1, <2>2, <2>3 DEF PartOf
  <2>5. u = Onward(wire[j - 1], v)'
    BY <2>1, <2>2, <2>3 DEF Onward
  <2>6. v \in DOMAIN offered'
    BY <1>1
  <2>7. QED BY <2>3, <2>4, <2>5, <2>6 DEF Follows
<1>6. \A k \in 1 .. Len(wire') : \E u \in DOMAIN offered : PartOf(wire'[k], u)
  <2>1. ASSUME NEW k \in 1 .. Len(wire') PROVE \E u \in DOMAIN offered : PartOf(wire'[k], u)
    <3>1. CASE k = Len(wire) + 1
      BY <1>2, <1>3, <3>1
    <3>2. CASE k # Len(wire) + 1
      <4>1. k \in 1 .. Len(wire) /\ wire'[k] = wire[k]
        BY <1>1, <1>2, <3>2
      <4>2. QED BY <4>1 DEF PathInv, ChainInv
    <3>3. QED BY <3>1, <3>2
  <2>2. QED BY <2>1
<1>7. \A k \in 1 .. Len(wire') + 1 : Chained(k)'
  <2>1. \A k \in 1 .. Len(wire') + 1 : k \in 1 .. Len(wire) + 1 \/ k = Len(wire') + 1
    BY <1>1, <1>2
  <2>2. QED BY <1>4, <1>5, <2>1
<1>8. QED BY <1>1, <1>6, <1>7, PathStays

\* The sender's place once it is done with a unit.
LEMMA PlaceDone ==
  ASSUME TypeOK, StreamInv, OrderInv, nals # <<>>, NalDone, offered' = offered
  PROVE  SenderPlace' = SenderPlace + 1 /\ (nals' = nals \/ nals' = <<>>)
<1>1. i \in 1 .. Len(nals) /\ Len(nals) \in Nat /\ Len(offered) \in Nat /\ i \in Nat
  BY DEF TypeOK, StreamInv
<1>2. CASE i = Len(nals)
  <2>1. nals' = <<>> /\ i' = 1 /\ Len(nals') = 0
    BY <1>2 DEF NalDone, is_last_nal
  <2>2. SenderPlace' = Len(offered) - 0 + 1
    BY <2>1 DEF SenderPlace
  <2>3. QED BY <1>1, <1>2, <2>1, <2>2 DEF SenderPlace
<1>3. CASE i # Len(nals)
  <2>1. nals' = nals /\ i' = i + 1
    BY <1>3 DEF NalDone, is_last_nal
  <2>2. QED BY <1>1, <2>1 DEF SenderPlace
<1>4. QED BY <1>2, <1>3

LEMMA SendSinglePath ==
  ASSUME IInv, PathInv, SendSingle, UNCHANGED receiver
  PROVE  PathInv'
<1> DEFINE p == SinglePacket(rtp_seq_number, is_last_nal, nals[i])
<1>1. /\ nals # <<>> /\ nals[i].size <= MAX_PAYLOAD_SIZE /\ Transmit(p) /\ NalDone
      /\ offered' = offered /\ TypeOK /\ StreamInv /\ OrderInv
  BY DEF SendSingle, Transmit, IInv, PathInv
<1>2. SenderPlace \in DOMAIN offered /\ offered[SenderPlace] = nals[i]
  BY <1>1, SenderAt
<1>3. /\ p.form = "single" /\ p.frame = nals[i].frame /\ p.startcode = nals[i].startcode
      /\ p.data = Whole(nals[i])
  BY DEF SinglePacket
<1> HIDE DEF p
<1>4. PartOf(p, SenderPlace)
  BY <1>1, <1>2, <1>3 DEF PartOf
<1>5. Onward(p, SenderPlace) = SenderPlace + 1
  BY <1>3 DEF Onward
<1>6. QED BY <1>1, <1>4, <1>5, PlaceDone, SendPath

LEMMA SendFragmentPath ==
  ASSUME IInv, PathInv, SendFragment, UNCHANGED receiver
  PROVE  PathInv'
<1> DEFINE p == FragmentPacket(rtp_seq_number, is_last_nal /\ is_last_frag,
                               nals[i], sent + 2, sent + 1 + frag_size)
<1>1. /\ nals # <<>> /\ nals[i].size > MAX_PAYLOAD_SIZE /\ Transmit(p)
      /\ (is_last_frag => NalDone)
      /\ ~is_last_frag => UNCHANGED <<nals, i>>
      /\ offered' = offered /\ TypeOK /\ StreamInv /\ OrderInv
  BY DEF SendFragment, Transmit, IInv, PathInv
<1>2. /\ SenderPlace \in DOMAIN offered /\ offered[SenderPlace] = nals[i]
      /\ Len(nals) \in Nat /\ Len(offered) \in Nat
      /\ nals[i].size \in Nat /\ nals[i].size >= 2 /\ sent \in 0 .. nals[i].size - 2
  BY <1>1, SenderAt, UnitAtHand
<1> HIDE DEF p
<1>3. frag_size \in Nat /\ frag_size >= 1 /\ frag_size <= nals[i].size - 1 - sent
  BY <1>2, RtpAssumption DEF frag_size, FragmentSize
<1>4. /\ sent + 2 \in 2 .. nals[i].size
      /\ sent + 1 + frag_size \in sent + 2 .. nals[i].size
  BY <1>2, <1>3
<1>5. sent + 1 + frag_size = nals[i].size <=> is_last_frag
  <2>1. \A a, b, c \in Nat : a + 1 + b = c <=> a + b = c - 1
    OBVIOUS
  <2>2. sent \in Nat
    BY <1>2
  <2>3. nals[i].size \in Nat /\ frag_size \in Nat
    BY <1>2, <1>3
  <2>4. sent + 1 + frag_size = nals[i].size <=> sent + frag_size = nals[i].size - 1
    BY <2>1, <2>2, <2>3
  <2>5. QED BY <2>4, Zenon DEF is_last_frag
<1>6. /\ p.form = "fragment" /\ (p.end <=> is_last_frag)
      /\ p.frame = nals[i].frame /\ Carries(p, nals[i], sent + 2, sent + 1 + frag_size)
  <2>1. (p.end <=> sent + 1 + frag_size = nals[i].size) /\ (p.start <=> sent + 2 = 2)
        /\ p.form = "fragment" /\ p.frame = nals[i].frame /\ p.header = Byte(nals[i], 1)
        /\ p.data = Bytes(nals[i], sent + 2, sent + 1 + frag_size)
    BY DEF FragmentPacket, p
  <2>2. QED BY <1>5, <2>1 DEF Carries
<1>7. PartOf(p, SenderPlace)
  BY <1>1, <1>2, <1>4, <1>6 DEF PartOf
<1>8. SenderPlace' = Onward(p, SenderPlace) /\ (nals' = nals \/ nals' = <<>>)
  <2>1. CASE is_last_frag
    BY <1>1, <1>6, <2>1, PlaceDone DEF Onward
  <2>2. CASE ~is_last_frag
    <3>1. SenderPlace' = SenderPlace
      BY <1>1, <2>2 DEF SenderPlace
    <3>2. QED BY <1>1, <1>6, <2>2, <3>1 DEF Onward
  <2>3. QED BY <2>1, <2>2
<1>9. QED BY <1>1, <1>7, <1>8, SendPath
-----------------------------------------------------------------------------
(* The satellite encodes. *)

\* Units offered later change nothing about those that reach the decoder.
LEMMA PassingGrows ==
  ASSUME NEW S, NEW s \in Seq(S), NEW t \in Seq(S), Len(s) <= Len(t),
         \A k \in 1 .. Len(s) : t[k] = s[k]
  PROVE  /\ \A u \in 0 .. Len(s) : Rank(t, u) = Rank(s, u)
         /\ Len(Passing(s)) <= Len(Passing(t))
         /\ \A n \in 1 .. Len(Passing(s)) : Passing(t)[n] = Passing(s)[n]
<1>1. Len(s) \in Nat /\ Len(t) \in Nat
  OBVIOUS
<1>2. ASSUME NEW u \in 0 .. Len(s) PROVE Rank(t, u) = Rank(s, u)
  <2>1. Reaching(t, u) = Reaching(s, u)
    BY <1>1 DEF Reaching
  <2>2. QED BY <2>1 DEF Rank
<1>3. Len(Passing(s)) <= Len(Passing(t))
  <2>1. Rank(s, Len(s)) = Rank(t, Len(s))
    BY <1>1, <1>2
  <2>2. Rank(t, Len(s)) <= Rank(t, Len(t))
    BY <1>1, RankGrows
  <2>3. QED BY <2>1, <2>2, PassingIs
<1>4. ASSUME NEW n \in 1 .. Len(Passing(s)) PROVE Passing(t)[n] = Passing(s)[n]
  <2>1. PICK k \in Reaching(s, Len(s)) : Rank(s, k) = n /\ Passing(s)[n] = s[k]
    BY PassingIs
  <2>2. k \in 1 .. Len(s) /\ k \in 0 .. Len(s) /\ Reaches(s[k])
    BY <1>1 DEF Reaching
  <2>3. k \in Reaching(t, Len(t)) /\ t[k] = s[k]
    BY <1>1, <2>2 DEF Reaching
  <2>4. Rank(t, k) = n
    BY <1>2, <2>1, <2>2
  <2>5. QED BY <2>1, <2>3, <2>4, PassingIs
<1>5. QED BY <1>2, <1>3, <1>4

\* The units of the new frame come behind the others.
LEMMA EncodeOffers ==
  ASSUME IInv, NEW au \in AccessUnits, Encode(au)
  PROVE  /\ frame' = frame + 1 /\ frame \in Nat /\ nals = <<>> /\ i = 1 /\ i' = 1
         /\ au \in Seq(Unit) /\ OnePicture(au) /\ DOMAIN au = 1 .. Len(au)
         /\ Len(au) \in Nat /\ Len(au) >= 1 /\ Len(nals') = Len(au) /\ Len(offered) \in Nat
         /\ DOMAIN nals' = 1 .. Len(au)
         /\ offered' \in Seq(NalsOf(1 .. frame')) /\ Len(offered') = Len(offered) + Len(au)
         /\ DOMAIN offered = 1 .. Len(offered) /\ DOMAIN offered' = 1 .. Len(offered')
         /\ \A u \in 1 .. Len(offered) : offered'[u] = offered[u] /\ offered[u].frame \in 1 .. frame
         /\ \A j \in 1 .. Len(au) : /\ nals'[j] = Nal(frame + 1, j, au[j])
                                    /\ offered'[Len(offered) + j] = nals'[j]
<1>1. /\ nals = <<>> /\ frame' = frame + 1
      /\ nals' = [k \in DOMAIN au |-> Nal(frame + 1, k, au[k])]
      /\ i' = 1 /\ offered' = offered \o nals'
  BY DEF Encode
<1>2. au \in Seq(Unit) /\ au # <<>> /\ OnePicture(au)
  BY RtpAssumption
<1>3. Len(au) \in Nat /\ DOMAIN au = 1 .. Len(au) /\ Len(au) >= 1
  BY <1>2
<1>4. frame \in Nat /\ offered \in Seq(NalsOf(1 .. frame)) /\ i = 1
  BY <1>1 DEF IInv, StreamInv, TypeOK
<1>5. ASSUME NEW k \in 1 .. Len(au) PROVE Nal(frame + 1, k, au[k]) \in NalsOf(1 .. frame')
  <2>1. au[k] \in Unit
    BY <1>2, <1>3, ElementOfSeq
  <2>2. /\ au[k].kind \in {"param", "idr", "delta"} /\ au[k].size \in Nat \ {0, 1}
        /\ au[k].startcode \in {"long", "short"}
    BY <2>1 DEF Unit
  <2>3. k \in Nat /\ frame + 1 \in 1 .. frame'
    BY <1>1, <1>3, <1>4
  <2>4. QED BY <2>2, <2>3, Zenon DEF Nal, NalsOf
<1>6. nals' \in [1 .. Len(au) -> NalsOf(1 .. frame')]
  BY <1>1, <1>3, <1>5
<1>7. nals' \in Seq(NalsOf(1 .. frame')) /\ Len(nals') = Len(au)
  BY <1>3, <1>6, SeqDef
<1>8. offered \in Seq(NalsOf(1 .. frame'))
  <2>1. NalsOf(1 .. frame) \subseteq NalsOf(1 .. frame')
    BY <1>1, <1>4, NalsGrow
  <2>2. QED BY <1>4, <2>1, SeqMonotonic
<1> DEFINE o == offered \o nals'
<1>9. /\ o \in Seq(NalsOf(1 .. frame')) /\ Len(o) = Len(offered) + Len(nals')
      /\ \A k \in 1 .. Len(offered) + Len(nals') :
           o[k] = IF k <= Len(offered) THEN offered[k] ELSE nals'[k - Len(offered)]
  BY <1>7, <1>8, ConcatProperties
<1>10. Len(offered) \in Nat /\ DOMAIN offered = 1 .. Len(offered)
  BY <1>4
<1>11. offered' = o
  BY <1>1
<1> HIDE DEF o
<1>12. DOMAIN offered' = 1 .. Len(offered')
  BY <1>9, <1>11
<1>13. ASSUME NEW u \in 1 .. Len(offered)
       PROVE  offered'[u] = offered[u] /\ offered[u].frame \in 1 .. frame
  <2>1. u \in 1 .. Len(offered) + Len(nals') /\ u <= Len(offered)
    BY <1>3, <1>7, <1>10
  <2>2. offered'[u] = offered[u]
    BY <1>9, <1>11, <2>1
  <2>3. offered[u].frame \in 1 .. frame
    BY <1>10, PlaceType DEF IInv
  <2>4. QED BY <2>2, <2>3
<1>14. ASSUME NEW j \in 1 .. Len(au)
       PROVE  nals'[j] = Nal(frame + 1, j, au[j]) /\ offered'[Len(offered) + j] = nals'[j]
  <2>1. /\ Len(offered) + j \in 1 .. Len(offered) + Len(nals')
        /\ ~(Len(offered) + j <= Len(offered)) /\ (Len(offered) + j) - Len(offered) = j
    BY <1>3, <1>7, <1>10
  <2>2. offered'[Len(offered) + j] = nals'[j]
    BY <1>9, <1>11, <2>1
  <2>3. QED BY <1>1, <1>3, <2>2
<1>15. QED BY <1>1, <1>2, <1>3, <1>4, <1>7, <1>9, <1>10, <1>11, <1>12, <1>13, <1>14

\* The units after the old ones are of the new frame, in the order of au.
LEMMA NewUnits ==
  ASSUME IInv, NEW au \in AccessUnits, Encode(au), NEW u \in DOMAIN offered'
  PROVE  \/ u \in 1 .. Len(offered) /\ offered'[u] = offered[u] /\ offered[u].frame \in 1 .. frame
         \/ /\ u \notin 1 .. Len(offered) /\ u - Len(offered) \in 1 .. Len(au)
            /\ offered'[u].frame = frame + 1 /\ offered'[u].index = u - Len(offered)
            /\ offered'[u].kind = au[u - Len(offered)].kind
            /\ IsPicture(offered'[u]) <=> IsPicture(au[u - Len(offered)])
<1> DEFINE j == u - Len(offered)
<1>1. /\ Len(offered) \in Nat /\ Len(au) \in Nat /\ u \in 1 .. Len(offered) + Len(au)
  BY EncodeOffers
<1>2. CASE u \in 1 .. Len(offered)
  BY <1>2, EncodeOffers
<1>3. CASE u \notin 1 .. Len(offered)
  <2>1. j \in 1 .. Len(au) /\ Len(offered) + j = u
    BY <1>1, <1>3
  <2> HIDE DEF j
  <2>2. offered'[u] = Nal(frame + 1, j, au[j])
    BY <2>1, EncodeOffers
  <2>3. /\ offered'[u].frame = frame + 1 /\ offered'[u].index = j
        /\ offered'[u].kind = au[j].kind
    BY <2>2 DEF Nal
  <2>4. QED BY <1>3, <2>1, <2>3 DEF IsPicture, j
<1>4. QED BY <1>2, <1>3
\* The frames of the places there were.
LEMMA OldPlaces ==
  ASSUME IInv, NEW au \in AccessUnits, Encode(au)
  PROVE  /\ \A u \in Places : FrameAt(u)' = FrameAt(u)
         /\ \A u \in DOMAIN offered' \ DOMAIN offered : FrameAt(u)' = frame + 1
         /\ \A u : u = Len(offered') + 1 => FrameAt(u)' = frame + 2
<1>1. /\ frame' = frame + 1 /\ frame \in Nat /\ Len(offered) \in Nat /\ Len(au) \in Nat
      /\ Len(au) >= 1 /\ DOMAIN offered = 1 .. Len(offered)
      /\ DOMAIN offered' = 1 .. Len(offered') /\ Len(offered') = Len(offered) + Len(au)
  BY EncodeOffers
<1>2. ASSUME NEW u \in DOMAIN offered' \ DOMAIN offered PROVE FrameAt(u)' = frame + 1
  <2>1. offered'[u].frame = frame + 1
    BY <1>1, NewUnits
  <2>2. QED BY <2>1 DEF FrameAt
<1>3. ASSUME NEW u \in Places PROVE FrameAt(u)' = FrameAt(u)
  <2>1. CASE u \in DOMAIN offered
    <3>1. u \in DOMAIN offered' /\ offered'[u] = offered[u]
      BY <1>1, <2>1, EncodeOffers
    <3>2. QED BY <2>1, <3>1 DEF FrameAt
  <2>2. CASE u \notin DOMAIN offered
    <3>1. u \in DOMAIN offered' \ DOMAIN offered
      BY <1>1, <2>2 DEF Places
    <3>2. QED BY <1>2, <2>2, <3>1 DEF FrameAt
  <2>3. QED BY <2>1, <2>2
<1>4. ASSUME NEW u, u = Len(offered') + 1 PROVE FrameAt(u)' = frame + 2
  <2>1. u \notin DOMAIN offered'
    BY <1>1, <1>4
  <2>2. FrameAt(u)' = frame' + 1
    BY <2>1 DEF FrameAt
  <2>3. QED BY <1>1, <2>2
<1>5. QED BY <1>2, <1>3, <1>4

LEMMA EncodeOrder ==
  ASSUME IInv, PathInv, NEW au \in AccessUnits, Encode(au)
  PROVE  OrderInv'
<1>1. /\ frame' = frame + 1 /\ frame \in Nat /\ Len(offered) \in Nat /\ Len(au) \in Nat
      /\ Len(au) >= 1 /\ DOMAIN offered = 1 .. Len(offered)
      /\ DOMAIN offered' = 1 .. Len(offered') /\ Len(offered') = Len(offered) + Len(au)
      /\ Len(nals') = Len(au) /\ DOMAIN nals' = 1 .. Len(au)
  BY EncodeOffers
<1>2. ASSUME NEW u \in DOMAIN offered', NEW v \in DOMAIN offered', u < v
      PROVE  \/ offered'[u].frame < offered'[v].frame
             \/ offered'[u].frame = offered'[v].frame /\ offered'[u].index < offered'[v].index
  <2>1. u \in Nat /\ v \in Nat
    BY <1>1
  <2>2. CASE u \in 1 .. Len(offered) /\ v \in 1 .. Len(offered)
    <3>1. offered'[u] = offered[u] /\ offered'[v] = offered[v]
      BY <2>2, NewUnits
    <3>2. QED BY <1>1, <1>2, <2>2, <3>1 DEF PathInv, OrderInv
  <2>3. CASE u \in 1 .. Len(offered) /\ v \notin 1 .. Len(offered)
    <3>1. offered'[u].frame \in 1 .. frame /\ offered'[v].frame = frame + 1
      BY <2>3, NewUnits
    <3>2. QED BY <1>1, <3>1
  <2>4. CASE u \notin 1 .. Len(offered) /\ v \notin 1 .. Len(offered)
    <3>1. /\ offered'[u].frame = frame + 1 /\ offered'[u].index = u - Len(offered)
          /\ offered'[v].frame = frame + 1 /\ offered'[v].index = v - Len(offered)
      BY <2>4, NewUnits
    <3>2. u - Len(offered) < v - Len(offered)
      BY <1>1, <1>2, <2>1
    <3>3. QED BY <3>1, <3>2
  <2>5. CASE u \notin 1 .. Len(offered) /\ v \in 1 .. Len(offered)
    BY <1>1, <1>2, <2>1, <2>5
  <2>6. QED BY <2>2, <2>3, <2>4, <2>5
<1>3. ASSUME NEW u \in DOMAIN offered'
      PROVE  FrameAt(u + 1)' \in {FrameAt(u)', FrameAt(u)' + 1}
  <2>1. CASE u \in DOMAIN offered
    <3>1. u \in Places /\ u + 1 \in Places
      BY <1>1, <2>1 DEF Places
    <3>2. FrameAt(u + 1) \in {FrameAt(u), FrameAt(u) + 1}
      BY <2>1 DEF PathInv, OrderInv
    <3>3. QED BY <3>1, <3>2, OldPlaces
  <2>2. CASE u \notin DOMAIN offered /\ u # Len(offered')
    <3>1. u + 1 \in DOMAIN offered' \ DOMAIN offered
      BY <1>1, <2>2
    <3>2. QED BY <2>2, <3>1, OldPlaces
  <2>3. CASE u \notin DOMAIN offered /\ u = Len(offered')
    <3>1. FrameAt(u)' = frame + 1
      BY <2>3, OldPlaces
    <3>2. FrameAt(u + 1)' = frame + 2
      BY <2>3, OldPlaces
    <3>3. QED BY <1>1, <3>1, <3>2
  <2>4. QED BY <2>1, <2>2, <2>3
<1>4. Len(nals') <= Len(offered')
  BY <1>1
<1>5. ASSUME NEW j \in DOMAIN nals'
      PROVE  offered'[Len(offered') - Len(nals') + j] = nals'[j]
  <2>1. Len(offered') - Len(nals') + j = Len(offered) + j
    BY <1>1
  <2>2. QED BY <1>1, <2>1, EncodeOffers
<1>6. \A u \in DOMAIN offered' : FrameAt(u + 1)' \in {FrameAt(u)', FrameAt(u)' + 1}
  BY <1>3
<1>7. QED BY <1>2, <1>4, <1>5, <1>6 DEF OrderInv

LEMMA EncodePictures ==
  ASSUME IInv, PathInv, NEW au \in AccessUnits, Encode(au)
  PROVE  PicturesInv'
<1>1. /\ frame' = frame + 1 /\ frame \in Nat /\ Len(offered) \in Nat /\ Len(au) \in Nat
      /\ DOMAIN offered = 1 .. Len(offered) /\ DOMAIN au = 1 .. Len(au)
      /\ DOMAIN offered' = 1 .. Len(offered') /\ Len(offered') = Len(offered) + Len(au)
      /\ OnePicture(au)
  BY EncodeOffers
<1>2. ASSUME NEW n \in 1 .. frame'
      PROVE  \E u \in DOMAIN offered' : offered'[u].frame = n /\ IsPicture(offered'[u])
  <2>1. CASE n \in 1 .. frame
    <3>1. PICK u \in DOMAIN offered : offered[u].frame = n /\ IsPicture(offered[u])
      BY <2>1 DEF PathInv, PicturesInv
    <3>2. u \in DOMAIN offered' /\ offered'[u] = offered[u]
      BY <1>1, <3>1, EncodeOffers
    <3>3. QED BY <3>1, <3>2
  <2>2. CASE n = frame + 1
    <3>1. PICK k \in DOMAIN au : IsPicture(au[k])
      BY <1>1 DEF OnePicture
    <3>2. /\ Len(offered) + k \in DOMAIN offered' /\ Len(offered) + k \notin 1 .. Len(offered)
          /\ (Len(offered) + k) - Len(offered) = k
      BY <1>1, <3>1
    <3>3. offered'[Len(offered) + k].frame = frame + 1 /\ IsPicture(offered'[Len(offered) + k])
      BY <3>1, <3>2, NewUnits
    <3>4. QED BY <2>2, <3>2, <3>3
  <2>3. QED BY <1>1, <2>1, <2>2
<1>3. ASSUME NEW u \in DOMAIN offered', NEW v \in DOMAIN offered',
             offered'[u].frame = offered'[v].frame, IsPicture(offered'[u]), IsPicture(offered'[v])
      PROVE  u = v
  <2>1. CASE u \in 1 .. Len(offered) /\ v \in 1 .. Len(offered)
    <3>1. offered'[u] = offered[u] /\ offered'[v] = offered[v]
      BY <2>1, NewUnits
    <3>2. QED BY <1>1, <1>3, <2>1, <3>1 DEF PathInv, PicturesInv
  <2>2. CASE u \notin 1 .. Len(offered) /\ v \notin 1 .. Len(offered)
    <3>1. /\ u - Len(offered) \in DOMAIN au /\ v - Len(offered) \in DOMAIN au
          /\ IsPicture(au[u - Len(offered)]) /\ IsPicture(au[v - Len(offered)])
      BY <1>1, <1>3, <2>2, NewUnits
    <3>2. u - Len(offered) = v - Len(offered)
      BY <1>1, <3>1 DEF OnePicture
    <3>3. QED BY <1>1, <3>2
  <2>3. CASE (u \in 1 .. Len(offered)) # (v \in 1 .. Len(offered))
    <3>1. \/ offered'[u].frame \in 1 .. frame /\ offered'[v].frame = frame + 1
          \/ offered'[v].frame \in 1 .. frame /\ offered'[u].frame = frame + 1
      BY <2>3, NewUnits
    <3>2. QED BY <1>1, <1>3, <3>1
  <2>4. QED BY <2>1, <2>2, <2>3
<1>4. ASSUME NEW u \in DOMAIN offered', offered'[u].kind = "idr"
      PROVE  \E v \in 1 .. u - 1 : offered'[v].frame = offered'[u].frame /\ offered'[v].kind = "param"
  <2>1. CASE u \in 1 .. Len(offered)
    <3>1. offered'[u] = offered[u]
      BY <2>1, NewUnits
    <3>2. PICK v \in 1 .. u - 1 : offered[v].frame = offered[u].frame /\ offered[v].kind = "param"
      BY <1>1, <1>4, <2>1, <3>1 DEF PathInv, PicturesInv
    <3>3. v \in 1 .. Len(offered)
      BY <1>1, <2>1
    <3>4. offered'[v] = offered[v]
      BY <3>3, EncodeOffers
    <3>5. QED BY <3>1, <3>2, <3>4
  <2>2. CASE u \notin 1 .. Len(offered)
    <3>1. /\ u - Len(offered) \in DOMAIN au /\ offered'[u].frame = frame + 1
          /\ au[u - Len(offered)].kind = "idr"
      BY <1>1, <1>4, <2>2, NewUnits
    <3>2. PICK j \in 1 .. (u - Len(offered)) - 1 : au[j].kind = "param"
      BY <1>1, <3>1 DEF OnePicture
    <3>3. /\ Len(offered) + j \in DOMAIN offered' /\ Len(offered) + j \notin 1 .. Len(offered)
          /\ (Len(offered) + j) - Len(offered) = j /\ Len(offered) + j \in 1 .. u - 1
      BY <1>1, <3>1, <3>2
    <3>4. /\ offered'[Len(offered) + j].frame = frame + 1
          /\ offered'[Len(offered) + j].kind = "param"
      BY <3>2, <3>3, NewUnits
    <3>5. QED BY <3>1, <3>3, <3>4
  <2>3. QED BY <2>1, <2>2
<1>5. QED BY <1>2, <1>3, <1>4 DEF PicturesInv
\* A frame there was can be decoded if it could be decoded before.
LEMMA RecoverableEncode ==
  ASSUME IInv, NEW au \in AccessUnits, Encode(au), NEW n \in 0 .. frame, Recoverable(n)'
  PROVE  Recoverable(n)
<1>1. /\ frame \in Nat /\ damaged' = damaged /\ Len(offered) \in Nat
      /\ DOMAIN offered = 1 .. Len(offered) /\ DOMAIN offered' = 1 .. Len(offered')
      /\ Len(offered') = Len(offered) + Len(au) /\ Len(au) \in Nat
  BY EncodeOffers DEF Encode
<1>2. PICK k \in 1 .. n :
        /\ k .. n \cap damaged' = {}
        /\ \E nal \in Offered' : nal.frame = k /\ nal.kind = "idr"
        /\ \A nal \in Offered' : nal.frame \in k .. n => Reaches(nal)
  BY DEF Recoverable
<1>3. PICK u \in DOMAIN offered' : offered'[u].frame = k /\ offered'[u].kind = "idr"
  BY <1>2 DEF Offered
<1>4. u \in DOMAIN offered /\ offered'[u] = offered[u]
  <2>1. k # frame + 1
    BY <1>1
  <2>2. QED BY <1>1, <1>3, <2>1, NewUnits
<1>5. offered[u] \in Offered
  BY <1>4 DEF Offered
<1>6. Offered \subseteq Offered'
  <2>1. \A v \in DOMAIN offered : v \in DOMAIN offered' /\ offered'[v] = offered[v]
    BY <1>1, EncodeOffers
  <2>2. QED BY <2>1 DEF Offered
<1>7. QED BY <1>1, <1>2, <1>3, <1>4, <1>5, <1>6 DEF Recoverable

\* The decoder goes on holding the picture it should.
LEMMA RefStays ==
  ASSUME NEW u, NEW m, FrameAt(u) = m, FrameAt(u)' = m, ref' = ref,
         PictureBefore(u)' = PictureBefore(u), RefAt(u),
         PictureBefore(u) /\ Recoverable(m)' => Recoverable(m),
         Recoverable(m - 1)' => Recoverable(m - 1)
  PROVE  RefAt(u)'
BY DEF RefAt, Recoverable

\* The receiver is where it was.
LEMMA EncodeAt ==
  ASSUME IInv, PathInv, NEW au \in AccessUnits, Encode(au), UNCHANGED receiver,
         NEW u \in Places, At(u)
  PROVE  At(u)'
<1>1. /\ frame \in Nat /\ damaged' = damaged /\ Len(offered) \in Nat
      /\ DOMAIN offered = 1 .. Len(offered) /\ DOMAIN offered' = 1 .. Len(offered')
      /\ Len(offered') = Len(offered) + Len(au) /\ Len(au) \in Nat
      /\ UNCHANGED <<headers, ref, fed>> /\ fed \in Seq(Seq(Triple)) /\ Len(fed) \in Nat
      /\ offered \in Seq(NalsOf(1 .. frame')) /\ offered' \in Seq(NalsOf(1 .. frame'))
      /\ u - 1 \in 0 .. Len(offered) /\ 1 .. u - 1 \subseteq DOMAIN offered
  <2>1. frame \in Nat /\ frame' \in Nat /\ frame <= frame'
    BY EncodeOffers
  <2>2. offered \in Seq(NalsOf(1 .. frame'))
    <3>1. NalsOf(1 .. frame) \subseteq NalsOf(1 .. frame')
      BY <2>1, NalsGrow
    <3>2. QED BY <3>1, SeqMonotonic DEF IInv, StreamInv
  <2>3. u - 1 \in 0 .. Len(offered) /\ 1 .. u - 1 \subseteq DOMAIN offered
    BY EncodeOffers DEF Places
  <2>4. UNCHANGED <<headers, ref, fed>> /\ fed \in Seq(Seq(Triple)) /\ Len(fed) \in Nat
    BY DEF receiver, decoder, PathInv, ChainInv
  <2>5. damaged' = damaged
    BY DEF Encode
  <2>6. QED BY <2>2, <2>3, <2>4, <2>5, EncodeOffers
<1>2. /\ \A k \in 0 .. Len(offered) : Rank(offered', k) = Rank(offered, k)
      /\ \A n \in 1 .. Len(Expected) : Expected'[n] = Expected[n]
      /\ Len(Expected) = Rank(offered, Len(offered))
  <2>1. Len(offered) <= Len(offered') /\ \A k \in 1 .. Len(offered) : offered'[k] = offered[k]
    BY <1>1, EncodeOffers
  <2> DEFINE S == NalsOf(1 .. frame')
  <2>2. offered \in Seq(S) /\ offered' \in Seq(S)
    BY <1>1
  <2> HIDE DEF S
  <2>3. /\ \A k \in 0 .. Len(offered) : Rank(offered', k) = Rank(offered, k)
        /\ \A n \in 1 .. Len(Passing(offered)) : Passing(offered')[n] = Passing(offered)[n]
    BY <2>1, <2>2, PassingGrows
  <2>4. Len(Passing(offered)) = Rank(offered, Len(offered))
    BY <2>2, PassingIs
  <2>5. QED BY <2>3, <2>4 DEF Expected
<1>3. GivenAt(u)'
  <2> SUFFICES ASSUME damaged = {}
               PROVE  /\ Len(fed) = Rank(offered', u - 1)
                      /\ \A k \in 1 .. Len(fed) : Stripped(fed[k]) = Whole(Expected'[k])
    BY <1>1 DEF GivenAt
  <2>1. /\ Len(fed) = Rank(offered, u - 1)
        /\ \A k \in 1 .. Len(fed) : Stripped(fed[k]) = Whole(Expected[k])
    BY DEF At, GivenAt
  <2>2. Rank(offered, u - 1) <= Rank(offered, Len(offered)) /\ Rank(offered, Len(offered)) \in Nat
    BY <1>1, RankGrows, RankCounts
  <2>3. \A k \in 1 .. Len(fed) : k \in 1 .. Len(Expected)
    BY <1>1, <1>2, <2>1, <2>2
  <2>4. QED BY <1>1, <1>2, <2>1, <2>3
<1>4. FrameAt(u)' = FrameAt(u) /\ \A v \in 1 .. u - 1 : offered'[v] = offered[v]
  BY <1>1, OldPlaces, EncodeOffers
<1>5. HeadersAt(u)'
  BY <1>1, <1>4 DEF At, HeadersAt
<1>6. PictureBefore(u)' = PictureBefore(u)
  BY <1>4 DEF PictureBefore
<1>7. RefAt(u)'
  <2>1. PICK m \in Nat : m = FrameAt(u) /\ m >= 1 /\ m <= frame + 1
    <3>1. CASE u \in DOMAIN offered
      BY <1>1, <3>1, PlaceType DEF IInv
    <3>2. CASE u \notin DOMAIN offered
      BY <1>1, <3>2 DEF FrameAt
    <3>3. QED BY <3>1, <3>2
  <2>2. Recoverable(m - 1)' => Recoverable(m - 1)
    <3>1. m - 1 \in 0 .. frame
      BY <1>1, <2>1
    <3>2. QED BY <3>1, RecoverableEncode
  <2>3. PictureBefore(u) /\ Recoverable(m)' => Recoverable(m)
    <3>1. CASE m = frame + 1
      <4>1. \A v \in 1 .. u - 1 : offered[v].frame \in 1 .. frame
        BY <1>1, EncodeOffers
      <4>2. QED BY <1>1, <2>1, <3>1, <4>1 DEF PictureBefore
    <3>2. CASE m # frame + 1
      <4>1. m \in 0 .. frame
        BY <1>1, <2>1, <3>2
      <4>2. QED BY <4>1, RecoverableEncode
    <3>3. QED BY <3>1, <3>2
  <2>4. RefAt(u) /\ FrameAt(u)' = m /\ ref' = ref
    BY <1>1, <1>4, <2>1 DEF At
  <2>5. QED BY <1>6, <2>1, <2>2, <2>3, <2>4, RefStays
<1>8. QED BY <1>3, <1>5, <1>7 DEF At
LEMMA EncodePath ==
  ASSUME IInv, PathInv, NEW au \in AccessUnits, Encode(au), UNCHANGED receiver
  PROVE  PathInv'
<1>1. /\ frame' = frame + 1 /\ frame \in Nat /\ damaged' = damaged /\ wire' = wire
      /\ Len(offered) \in Nat /\ Len(au) \in Nat /\ Len(au) >= 1 /\ nals = <<>> /\ i = 1 /\ i' = 1
      /\ DOMAIN offered = 1 .. Len(offered) /\ DOMAIN offered' = 1 .. Len(offered')
      /\ Len(offered') = Len(offered) + Len(au) /\ Len(nals') = Len(au)
      /\ wire \in Seq(Packets(frame)) /\ Len(wire) \in Nat /\ StreamInv /\ OrderInv
  <2>1. damaged' = damaged /\ wire' = wire
    BY DEF Encode
  <2>2. wire \in Seq(Packets(frame)) /\ Len(wire) \in Nat /\ StreamInv /\ OrderInv
    BY DEF IInv, StreamInv, PathInv
  <2>3. QED BY <2>1, <2>2, EncodeOffers
<1>2. SenderPlace = Len(offered) + 1 /\ SenderPlace' = Len(offered) + 1
  <2>1. Len(nals) = 0
    BY <1>1
  <2>2. SenderPlace' = Len(offered') - Len(nals') + i'
    BY DEF SenderPlace
  <2>3. QED BY <1>1, <2>1, <2>2 DEF SenderPlace
<1>3. ASSUME NEW p, NEW u \in DOMAIN offered, PartOf(p, u) PROVE PartOf(p, u)'
  <2>1. u \in DOMAIN offered' /\ offered'[u] = offered[u]
    BY <1>1, EncodeOffers
  <2>2. QED BY <1>3, <2>1 DEF PartOf
<1>4. ASSUME NEW k \in 1 .. Len(wire), NEW u, PartOf(wire[k], u)'
      PROVE  u \in DOMAIN offered /\ PartOf(wire[k], u)
  <2>1. wire[k].frame \in 1 .. frame
    BY <1>1, ElementOfSeq, PacketParts
  <2>2. u \in DOMAIN offered' /\ offered'[u].frame = wire[k].frame
    BY <1>1, <1>4 DEF PartOf
  <2>3. offered'[u].frame # frame + 1
    BY <1>1, <2>1, <2>2
  <2>4. u \in DOMAIN offered /\ offered'[u] = offered[u]
    BY <1>1, <2>2, <2>3, NewUnits
  <2>5. QED BY <1>1, <1>4, <2>4 DEF PartOf
<1>5. ASSUME NEW j \in 1 .. Len(wire) + 1 PROVE Chained(j)'
  <2> SUFFICES ASSUME NEW u \in Places', Here(j, u)', Clean(u)' PROVE Follows(j, u)'
    BY DEF Chained
  <2>1. u \in Places /\ Here(j, u)
    <3>1. CASE j = Len(wire) + 1
      <4>1. u = SenderPlace'
        BY <1>1, <3>1 DEF Here
      <4>2. u = SenderPlace /\ u \in Places
        BY <1>1, <1>2, <4>1 DEF Places
      <4>3. QED BY <3>1, <4>2 DEF Here
    <3>2. CASE j # Len(wire) + 1
      <4>1. j \in 1 .. Len(wire) /\ PartOf(wire[j], u)'
        BY <1>1, <3>2 DEF Here
      <4>2. u \in DOMAIN offered /\ PartOf(wire[j], u)
        BY <1>4, <4>1
      <4>3. QED BY <1>1, <3>2, <4>2 DEF Here, Places
    <3>3. QED BY <3>1, <3>2
  <2>2. Clean(u)
    <3>1. FrameAt(u)' = FrameAt(u)
      BY <2>1, OldPlaces
    <3>2. u > 1 => FrameAt(u - 1)' = FrameAt(u - 1)
      <4>1. u > 1 => u - 1 \in Places
        BY <1>1, <2>1 DEF Places
      <4>2. QED BY <4>1, OldPlaces
    <3>3. QED BY <1>1, <3>1, <3>2 DEF Clean
  <2>3. Follows(j, u)
    BY <1>5, <2>1, <2>2 DEF PathInv, ChainInv, Chained
  <2>4. CASE j = 1
    <3>1. At(u)
      BY <2>3, <2>4 DEF Follows
    <3>2. At(u)'
      BY <2>1, <3>1, EncodeAt
    <3>3. QED BY <2>4, <3>2 DEF Follows
  <2>5. CASE j # 1
    <3>1. PICK v \in DOMAIN offered : PartOf(wire[j - 1], v) /\ u = Onward(wire[j - 1], v)
      BY <2>3, <2>5 DEF Follows
    <3>2. PICK p : p = wire[j - 1]
      OBVIOUS
    <3>3. PartOf(p, v)' /\ u = Onward(p, v) /\ v \in DOMAIN offered'
      BY <1>1, <1>3, <3>1, <3>2
    <3>4. PartOf(wire[j - 1], v)' /\ u = Onward(wire[j - 1], v)'
      BY <1>1, <3>2, <3>3 DEF PartOf, Onward
    <3>5. QED BY <2>5, <3>3, <3>4 DEF Follows
  <2>6. QED BY <2>4, <2>5
<1>6. ASSUME NEW k \in 1 .. Len(wire) PROVE \E u \in DOMAIN offered' : PartOf(wire[k], u)'
  <2>1. PICK u \in DOMAIN offered : PartOf(wire[k], u)
    BY DEF PathInv, ChainInv
  <2>2. PICK p : p = wire[k]
    OBVIOUS
  <2>3. PartOf(p, u)' /\ u \in DOMAIN offered'
    BY <1>1, <1>3, <2>1, <2>2
  <2>4. PartOf(wire[k], u)'
    BY <1>1, <2>2, <2>3 DEF PartOf
  <2>5. QED BY <2>3, <2>4
<1>7. ChainInv'
  <2>1. fed' \in Seq(Seq(Triple))
    BY DEF receiver, decoder, PathInv, ChainInv
  <2>2. QED BY <1>1, <1>5, <1>6, <2>1 DEF ChainInv
<1>8. LossEndsAtKeyFrame'
  <2>1. rgb_buffer' = rgb_buffer
    BY DEF receiver
  <2>2. PICK n \in 0 .. frame : n = rgb_buffer.frame
    BY DEF IInv, TypeOK
  <2>3. Recoverable(n)' => Recoverable(n)
    BY RecoverableEncode
  <2>4. QED BY <2>1, <2>2, <2>3 DEF PathInv, LossEndsAtKeyFrame, Recoverable
<1>9. QED BY <1>7, <1>8, EncodeOrder, EncodePictures DEF PathInv-----------------------------------------------------------------------------
(* What the receiver gives the decoder. *)

\* The bytes of a whole unit.
LEMMA WholeIs ==
  ASSUME NEW nal, nal.frame \in Nat, nal.index \in Nat, nal.size \in Nat, nal.size >= 2
  PROVE  /\ Whole(nal) \in Seq(Triple) /\ Len(Whole(nal)) = nal.size
         /\ \A k \in 1 .. nal.size : Whole(nal)[k] = <<nal.frame, nal.index, k>>
<1>1. PICK f \in Nat : f = 1
  OBVIOUS
<1>2. f <= nal.size + 1 /\ f >= 1
  BY <1>1
<1>3. /\ Bytes(nal, f, nal.size) \in Seq(Triple) /\ Len(Bytes(nal, f, nal.size)) = nal.size - f + 1
      /\ \A k \in 1 .. nal.size - f + 1 :
           Bytes(nal, f, nal.size)[k] = <<nal.frame, nal.index, f + k - 1>>
  BY <1>2, BytesAre
<1>4. nal.size - f + 1 = nal.size /\ \A k \in 1 .. nal.size : f + k - 1 = k
  BY <1>1
<1>5. Whole(nal) = Bytes(nal, f, nal.size)
  BY <1>1 DEF Whole
<1>6. QED BY <1>3, <1>4, <1>5

\* Two units with the same bytes are one.
LEMMA WholeTells ==
  ASSUME StreamInv, NEW nal \in Offered, NEW mal \in Offered, Whole(nal) = Whole(mal)
  PROVE  nal.frame = mal.frame /\ nal.index = mal.index
<1>1. Whole(nal)[1] = <<nal.frame, nal.index, 1>> /\ Whole(mal)[1] = <<mal.frame, mal.index, 1>>
  <2>1. 1 \in 1 .. nal.size /\ 1 \in 1 .. mal.size
    BY OfferedNal
  <2>2. QED BY <2>1, OfferedNal, WholeIs
<1>2. QED BY <1>1

\* The bytes of a unit do not begin with a start code of the receiver.
LEMMA StrippedWhole ==
  ASSUME StreamInv, NEW nal \in Offered
  PROVE  Stripped(Whole(nal)) = Whole(nal)
<1>1. /\ nal.frame \in Nat /\ nal.frame # 0 /\ 1 \in 1 .. nal.size
      /\ Whole(nal) \in Seq(Triple) /\ Whole(nal)[1] = <<nal.frame, nal.index, 1>>
  <2>1. 1 \in 1 .. nal.size /\ nal.frame # 0
    BY OfferedNal
  <2>2. QED BY <2>1, OfferedNal, WholeIs
<1>2. Whole(nal)[1] # StartCode
  BY <1>1 DEF StartCode
<1> DEFINE w == Whole(nal)
<1>3. w \in Seq(Triple) /\ w[1] # StartCode
  BY <1>1, <1>2
<1> HIDE DEF w
<1>4. w # <<>> => Head(w) = w[1]
  BY <1>3
<1>5. Stripped(w) = w
  BY <1>3, <1>4 DEF Stripped
<1>6. QED BY <1>5 DEF w

\* The receiver's start code comes off the unit assembled behind it.
LEMMA StrippedBegun ==
  ASSUME StreamInv, NEW nal \in Offered
  PROVE  Begun(nal, nal.size) \in Seq(Triple) /\ Stripped(Begun(nal, nal.size)) = Whole(nal)
<1> DEFINE b == Begun(nal, nal.size)
           w == Whole(nal)
<1>1. /\ b \in Seq(Triple) /\ Len(b) = nal.size + 1 /\ b[1] = StartCode
      /\ \A k \in 1 .. nal.size : b[k + 1] = <<nal.frame, nal.index, k>>
  BY OfferedNal, BegunIs
<1>2. /\ w \in Seq(Triple) /\ Len(w) = nal.size /\ nal.size \in Nat
      /\ \A k \in 1 .. nal.size : w[k] = <<nal.frame, nal.index, k>>
  BY OfferedNal, WholeIs
<1>3. Begun(nal, nal.size) = b /\ Whole(nal) = w
  OBVIOUS
<1> HIDE DEF b, w
<1>4. b # <<>> /\ Head(b) = StartCode
  BY <1>1, <1>2
<1>5. Tail(b) \in Seq(Triple) /\ Len(Tail(b)) = nal.size /\ \A k \in 1 .. nal.size : Tail(b)[k] = b[k + 1]
  BY <1>1, <1>2, <1>4
<1>6. Tail(b) = w
  <2>1. \A k \in 1 .. nal.size : Tail(b)[k] = w[k]
    BY <1>1, <1>2, <1>5
  <2>2. QED BY <1>2, <1>5, <2>1, SeqEqual
<1>7. QED BY <1>1, <1>3, <1>4, <1>6 DEF Stripped

\* The unit that the bytes are, if they are one, is of the frame of the last.
LEMMA WholeFrame ==
  ASSUME StreamInv, NEW bytes \in Seq(Triple), NEW n \in Nat, n >= 1,
         bytes # <<>>, bytes[Len(bytes)][1] = n,
         NEW nal \in Offered, Whole(nal) = Stripped(bytes)
  PROVE  nal.frame = n
<1>1. /\ nal.size \in 1 .. nal.size /\ nal.size \in Nat /\ nal.size >= 2
      /\ Whole(nal) \in Seq(Triple) /\ Len(Whole(nal)) = nal.size
      /\ Whole(nal)[nal.size] = <<nal.frame, nal.index, nal.size>>
  <2>1. nal.size \in 1 .. nal.size
    BY OfferedNal
  <2>2. QED BY <2>1, OfferedNal, WholeIs
<1>2. CASE Stripped(bytes) = bytes
  BY <1>1, <1>2
<1>3. CASE Stripped(bytes) = Tail(bytes)
  <2>1. Len(Tail(bytes)) = Len(bytes) - 1 /\ Len(bytes) \in Nat
    BY <1>3
  <2>2. nal.size = Len(bytes) - 1
    BY <1>1, <1>3, <2>1
  <2>3. Tail(bytes)[nal.size] = bytes[nal.size + 1] /\ nal.size + 1 = Len(bytes)
    BY <1>1, <2>1, <2>2
  <2>4. QED BY <1>1, <1>3, <2>3
<1>4. QED BY <1>2, <1>3 DEF Stripped
\* The decoder is given this unit, the receiver's start code in front of it
\* or not, or the step decodes nothing.
GivesUnit(nal) ==
  /\ DecodeWhole(nal)
  /\ \E bytes \in Seq(Triple) :
       /\ Stripped(bytes) = Whole(nal)
       /\ fed' = IF damaged = {} THEN Append(fed, bytes) ELSE fed

GivesNothing == UNCHANGED <<rgb_buffer, headers, ref, fed>>

\* The bytes of a unit decode as the unit.
LEMMA DecodesUnit ==
  ASSUME StreamInv, OrderInv, NEW v \in DOMAIN offered, NEW bytes \in Seq(Triple), NEW n,
         Stripped(bytes) = Whole(offered[v]), Decode(bytes, n, Offered)
  PROVE  GivesUnit(offered[v])
<1>1. offered[v] \in Offered /\ Whole(offered[v]) = Stripped(bytes)
  BY PlaceType
<1>2. ASSUME NEW nal \in Offered, Whole(nal) = Stripped(bytes) PROVE nal = offered[v]
  <2>1. nal.frame = offered[v].frame /\ nal.index = offered[v].index
    BY <1>1, <1>2, WholeTells
  <2>2. PICK u \in DOMAIN offered : nal = offered[u]
    BY DEF Offered
  <2>3. u = v
    BY <2>1, <2>2, UnitTells
  <2>4. QED BY <2>2, <2>3
<1>3. DecodeWhole(offered[v])
  BY <1>1, <1>2 DEF Decode
<1>4. fed' = IF damaged = {} THEN Append(fed, bytes) ELSE fed
  BY DEF Decode
<1>5. QED BY <1>3, <1>4 DEF GivesUnit

\* The end of a sound unit completes it.
LEMMA UnitAssembled ==
  ASSUME IInv, LeftInv, wire # <<>>, NEW v \in DOMAIN offered, PartOf(wire[1], v),
         offered[v].frame \notin damaged, wire[1].form = "fragment", wire[1].end
  PROVE  Assembled(wire[1]) \in Seq(Triple) /\ Stripped(Assembled(wire[1])) = Whole(offered[v])
<1>1. StreamInv /\ offered[v] \in Offered /\ offered[v].size \in Nat
  BY PlaceType DEF IInv
<1>2. PICK from \in 2 .. offered[v].size : \E to \in from .. offered[v].size :
        Carries(wire[1], offered[v], from, to)
  BY DEF PartOf
<1>3. PICK to \in from .. offered[v].size : Carries(wire[1], offered[v], from, to)
  BY <1>2
<1>4. to = offered[v].size
  BY <1>3 DEF Carries
<1>5. to \in 2 .. offered[v].size /\ from \in 2 .. to
  BY <1>1, <1>4
<1>6. Assembled(wire[1]) = Begun(offered[v], to)
  BY <1>1, <1>3, <1>5, HeadAssembles
<1>7. QED BY <1>1, <1>4, <1>6, StrippedBegun

\* A packet of a sound frame gives the decoder its unit, once it is complete,
\* if the unit is one that reaches it.
LEMMA ReceivesUnit ==
  ASSUME IInv, LeftInv, OrderInv, Receives, NEW v \in DOMAIN offered, PartOf(wire[1], v),
         offered[v].frame \notin damaged
  PROVE  \/ Onward(wire[1], v) = v /\ GivesNothing
         \/ Onward(wire[1], v) = v + 1 /\ ~Reaches(offered[v]) /\ GivesNothing
         \/ Onward(wire[1], v) = v + 1 /\ Reaches(offered[v]) /\ GivesUnit(offered[v])
<1>1. /\ StreamInv /\ wire # <<>> /\ Head(wire) = wire[1]
      /\ offered[v] \in Offered /\ offered[v].size \in Nat
      /\ Whole(offered[v]) \in Seq(Triple)
  <2>1. StreamInv /\ wire # <<>>
    BY DEF IInv, Receives, Receive
  <2>2. Head(wire) = wire[1]
    BY <2>1 DEF StreamInv
  <2>3. offered[v] \in Offered /\ offered[v].size \in Nat /\ Whole(offered[v]) \in Seq(Triple)
    BY <2>1, PlaceType, WholeIs
  <2>4. QED BY <2>1, <2>2, <2>3
<1> DEFINE p == wire[1]
<1>2. ReceiveSingle(p, Offered) \/ ReceiveFragment(p, Offered)
  BY <1>1 DEF Receives, Receive
<1>3. CASE ReceiveSingle(p, Offered)
  <2>1. /\ p.form = "single" /\ Onward(p, v) = v + 1
        /\ IF p.startcode = "long" THEN Decode(p.data, p.frame, Offered)
           ELSE UNCHANGED <<got_frame, rgb_buffer, decoder>>
    BY <1>3 DEF ReceiveSingle, Onward
  <2>2. /\ offered[v].size <= MAX_PAYLOAD_SIZE /\ p.startcode = offered[v].startcode
        /\ p.data = Whole(offered[v])
    BY <2>1 DEF PartOf, Carries
  <2>3. Reaches(offered[v]) <=> p.startcode = "long"
    BY <1>1, <2>2, RtpAssumption DEF Reaches
  <2>4. CASE p.startcode = "long"
    <3>1. Decode(Whole(offered[v]), p.frame, Offered)
      BY <2>1, <2>2, <2>4
    <3>2. GivesUnit(offered[v])
      BY <1>1, <3>1, StrippedWhole, DecodesUnit
    <3>3. QED BY <2>1, <2>3, <2>4, <3>2
  <2>5. CASE p.startcode # "long"
    <3>1. GivesNothing
      BY <2>1, <2>5 DEF GivesNothing, decoder
    <3>2. QED BY <2>1, <2>3, <2>5, <3>1
  <2>6. QED BY <2>4, <2>5
<1>4. CASE ReceiveFragment(p, Offered)
  <2>1. /\ p.form = "fragment"
        /\ IF p.end THEN Decode(Assembled(p), p.frame, Offered)
           ELSE UNCHANGED <<got_frame, rgb_buffer, decoder>>
    BY <1>4 DEF ReceiveFragment
  <2>2. Reaches(offered[v])
    BY <2>1 DEF PartOf, Reaches
  <2>3. CASE p.end
    <3>1. Assembled(p) \in Seq(Triple) /\ Stripped(Assembled(p)) = Whole(offered[v])
      BY <1>1, <2>1, <2>3, UnitAssembled
    <3>2. Decode(Assembled(p), p.frame, Offered)
      BY <2>1, <2>3
    <3>3. GivesUnit(offered[v])
      BY <1>1, <3>1, <3>2, DecodesUnit
    <3>4. Onward(p, v) = v + 1
      BY <2>3 DEF Onward
    <3>5. QED BY <2>2, <3>3, <3>4
  <2>4. CASE ~p.end
    <3>1. Onward(p, v) = v /\ GivesNothing
      BY <2>1, <2>4 DEF Onward, GivesNothing, decoder
    <3>2. QED BY <3>1
  <2>5. QED BY <2>3, <2>4
<1>5. QED BY <1>2, <1>3, <1>4

\* What the decoder was given are sequences of bytes.
LEMMA FedType ==
  ASSUME IInv, fed \in Seq(Seq(Triple)), Receives
  PROVE  fed' \in Seq(Seq(Triple))
<1> DEFINE p == Head(wire)
<1>1. p \in Packets(frame) /\ TypeOK /\ StreamInv
  BY HeadPacket DEF Receives, Receive, IInv, StreamInv
<1>2. ReceiveSingle(p, Offered) \/ ReceiveFragment(p, Offered)
  BY DEF Receives, Receive
<1> HIDE DEF p
<1>3. ASSUME NEW bytes \in Seq(Triple), NEW n, Decode(bytes, n, Offered)
      PROVE  fed' \in Seq(Seq(Triple))
  BY <1>3, AppendProperties DEF Decode
<1>4. CASE UNCHANGED <<got_frame, rgb_buffer, decoder>>
  BY <1>4 DEF decoder
<1>5. CASE ReceiveSingle(p, Offered)
  <2>1. p.data \in Seq(Triple)
    BY <1>1, PacketParts DEF StreamInv
  <2>2. QED BY <1>3, <1>4, <1>5, <2>1 DEF ReceiveSingle
<1>6. CASE ReceiveFragment(p, Offered)
  <2>1. Assembled(p) \in Seq(Triple)
    BY <1>1, <1>6, AssembledType DEF ReceiveFragment
  <2>2. QED BY <1>3, <1>4, <1>6, <2>1 DEF ReceiveFragment
<1>7. QED BY <1>2, <1>5, <1>6
-----------------------------------------------------------------------------
(* What the decoder makes of it. *)

\* A frame that can be decoded is sound and reaches the decoder, and so does
\* the frame before, unless it is a key frame.
LEMMA RecoverableNeeds ==
  ASSUME NEW n \in Nat, Recoverable(n)
  PROVE  /\ n \notin damaged
         /\ \A nal \in Offered : nal.frame = n => Reaches(nal)
         /\ (~\E nal \in Offered : nal.frame = n /\ nal.kind = "idr")
              => Recoverable(n - 1) /\ n - 1 >= 1
<1>1. PICK k \in 1 .. n :
        /\ k .. n \cap damaged = {}
        /\ \E nal \in Offered : nal.frame = k /\ nal.kind = "idr"
        /\ \A nal \in Offered : nal.frame \in k .. n => Reaches(nal)
  BY DEF Recoverable
<1>2. n \in k .. n
  OBVIOUS
<1>3. n \notin damaged
  BY <1>1, <1>2
<1>4. \A nal \in Offered : nal.frame = n => Reaches(nal)
  BY <1>1, <1>2
<1>5. ASSUME ~\E nal \in Offered : nal.frame = n /\ nal.kind = "idr"
      PROVE  Recoverable(n - 1) /\ n - 1 >= 1
  <2>1. k # n
    BY <1>1, <1>5
  <2>2. k \in 1 .. n - 1 /\ n - 1 >= 1 /\ k .. n - 1 \subseteq k .. n
    BY <2>1
  <2>3. /\ k .. n - 1 \cap damaged = {}
        /\ \A nal \in Offered : nal.frame \in k .. n - 1 => Reaches(nal)
    BY <1>1, <2>2
  <2>4. QED BY <1>1, <2>2, <2>3 DEF Recoverable
<1>6. QED BY <1>3, <1>4, <1>5

\* The decoder has what the picture of a recoverable frame needs.
LEMMA PictureComes ==
  ASSUME StreamInv, OrderInv, PicturesInv, NEW v \in DOMAIN offered, At(v),
         IsPicture(offered[v]), NEW n, n = offered[v].frame, Recoverable(n)
  PROVE  /\ offered[v].kind = "idr" => headers
         /\ offered[v].kind = "delta" => ref = n - 1 /\ n - 1 >= 1
<1>1. n \in Nat /\ v \in Nat /\ FrameAt(v) = n /\ DOMAIN offered = 1 .. Len(offered) /\ Len(offered) \in Nat
  BY PlaceType DEF StreamInv
<1>2. ASSUME offered[v].kind = "idr" PROVE headers
  <2>1. PICK w \in 1 .. v - 1 : offered[w].frame = n /\ offered[w].kind = "param"
    BY <1>2 DEF PicturesInv
  <2>2. w \in DOMAIN offered
    BY <1>1
  <2>3. offered[w] \in Offered
    BY <2>2 DEF Offered
  <2>4. Reaches(offered[w])
    BY <1>1, <2>1, <2>3, RecoverableNeeds
  <2>5. QED BY <1>1, <2>1, <2>4 DEF At, HeadersAt
<1>3. ASSUME offered[v].kind = "delta" PROVE ref = n - 1 /\ n - 1 >= 1
  <2>1. ASSUME NEW nal \in Offered, nal.frame = n, nal.kind = "idr" PROVE FALSE
    <3>1. PICK w \in DOMAIN offered : nal = offered[w]
      BY DEF Offered
    <3>2. IsPicture(offered[w])
      BY <2>1, <3>1 DEF IsPicture
    <3>3. w = v
      BY <2>1, <3>1, <3>2 DEF PicturesInv
    <3>4. QED BY <1>3, <2>1, <3>1, <3>3
  <2>2. Recoverable(n - 1) /\ n - 1 >= 1
    BY <1>1, <2>1, RecoverableNeeds
  <2>3. ~PictureBefore(v)
    <3> SUFFICES ASSUME PictureBefore(v) PROVE FALSE
      OBVIOUS
    <3>1. PICK w \in 1 .. v - 1 : offered[w].frame = n /\ IsPicture(offered[w])
      BY <1>1 DEF PictureBefore
    <3>2. w \in DOMAIN offered /\ w # v
      BY <1>1
    <3>3. QED BY <3>1, <3>2 DEF PicturesInv
  <2>4. QED BY <1>1, <2>2, <2>3 DEF At, RefAt
<1>4. QED BY <1>2, <1>3

\* The place after v is of the same frame or begins the next one.
LEMMA NextPlace ==
  ASSUME StreamInv, OrderInv, PicturesInv, NEW v \in DOMAIN offered, NEW n, n = offered[v].frame,
         NEW m, m = FrameAt(v + 1)
  PROVE  /\ n \in Nat /\ v \in Nat
         /\ m = n \/ m = n + 1
         /\ m = n => (PictureBefore(v + 1) <=> PictureBefore(v) \/ IsPicture(offered[v]))
         /\ m = n + 1 => ~PictureBefore(v + 1) /\ (PictureBefore(v) \/ IsPicture(offered[v]))
         /\ \A w \in 1 .. v : offered[w].frame = m => m = n
<1>1. /\ n \in 1 .. frame /\ n \in Nat /\ v \in Nat /\ v >= 1 /\ FrameAt(v) = n
      /\ DOMAIN offered = 1 .. Len(offered) /\ Len(offered) \in Nat
  BY PlaceType DEF StreamInv
<1>2. m = n \/ m = n + 1
  BY <1>1 DEF OrderInv
<1>3. 1 .. (v + 1) - 1 = 1 .. v /\ 1 .. v = (1 .. v - 1) \cup {v}
  BY <1>1
<1>4. PictureBefore(v + 1) <=> \E w \in 1 .. v : offered[w].frame = m /\ IsPicture(offered[w])
  BY <1>3 DEF PictureBefore
<1>5. PictureBefore(v) <=> \E w \in 1 .. v - 1 : offered[w].frame = n /\ IsPicture(offered[w])
  BY <1>1 DEF PictureBefore
<1>6. ASSUME NEW w \in 1 .. v, offered[w].frame = m PROVE m = n
  <2>1. w \in DOMAIN offered /\ w \in Places /\ v \in Places /\ w <= v
    BY <1>1 DEF Places
  <2>2. FrameAt(w) = m /\ FrameAt(w) <= FrameAt(v)
    BY <1>6, <2>1, PlaceType, FramesGrow
  <2>3. QED BY <1>1, <1>2, <2>2
<1>7. m = n => (PictureBefore(v + 1) <=> PictureBefore(v) \/ IsPicture(offered[v]))
  BY <1>3, <1>4, <1>5
<1>8. ASSUME m = n + 1 PROVE ~PictureBefore(v + 1) /\ (PictureBefore(v) \/ IsPicture(offered[v]))
  <2>1. m # n
    BY <1>1, <1>8
  <2>2. ~PictureBefore(v + 1)
    BY <1>4, <1>6, <2>1
  <2>3. PICK w \in DOMAIN offered : offered[w].frame = n /\ IsPicture(offered[w])
    BY <1>1 DEF PicturesInv
  <2>4. w \in 1 .. v
    <3>1. CASE w <= v
      BY <1>1, <3>1
    <3>2. CASE ~(w <= v)
      <4>1. v + 1 \in Places /\ w \in Places /\ v + 1 <= w
        BY <1>1, <3>2 DEF Places
      <4>2. m <= FrameAt(w) /\ FrameAt(w) = n
        BY <2>3, <4>1, FramesGrow, PlaceType
      <4>3. QED BY <1>1, <1>8, <4>2
    <3>3. QED BY <3>1, <3>2
  <2>5. QED BY <1>3, <1>5, <2>2, <2>3, <2>4
<1>9. QED BY <1>1, <1>2, <1>6, <1>7, <1>8
\* The receiver has dealt with the unit at place v, by whatever it did.
Dealt(v) ==
  /\ UNCHANGED <<frame, offered, damaged>>
  /\ \/ ~Reaches(offered[v]) /\ GivesNothing
     \/ Reaches(offered[v]) /\ GivesUnit(offered[v])

LEMMA GivenNext ==
  ASSUME StreamInv, fed \in Seq(Seq(Triple)), NEW v \in DOMAIN offered, GivenAt(v), Dealt(v),
         NEW u, u = v + 1
  PROVE  GivenAt(u)'
<1> SUFFICES ASSUME damaged = {}
             PROVE  /\ Len(fed') = Rank(offered, u - 1)
                    /\ \A k \in 1 .. Len(fed') : Stripped(fed'[k]) = Whole(Expected[k])
  BY StreamStays DEF GivenAt, Dealt
<1>1. /\ v - 1 \in Nat /\ (v - 1) + 1 = v /\ u - 1 = v /\ v \in Nat /\ v \in 1 .. Len(offered)
      /\ offered \in Seq(NalsOf(1 .. frame)) /\ Len(fed) \in Nat
  BY PlaceType DEF StreamInv
<1>2. /\ Len(fed) = Rank(offered, v - 1)
      /\ \A k \in 1 .. Len(fed) : Stripped(fed[k]) = Whole(Expected[k])
  BY DEF GivenAt
<1>3. Rank(offered, v) = IF Reaches(offered[v]) THEN Rank(offered, v - 1) + 1 ELSE Rank(offered, v - 1)
  BY <1>1, RankCounts
<1>4. CASE ~Reaches(offered[v]) /\ GivesNothing
  BY <1>1, <1>2, <1>3, <1>4 DEF GivesNothing
<1>5. CASE Reaches(offered[v]) /\ GivesUnit(offered[v])
  <2>1. PICK bytes \in Seq(Triple) : Stripped(bytes) = Whole(offered[v]) /\ fed' = Append(fed, bytes)
    BY <1>5 DEF GivesUnit
  <2>2. /\ Len(fed') = Len(fed) + 1 /\ fed'[Len(fed) + 1] = bytes
        /\ \A k \in 1 .. Len(fed) : fed'[k] = fed[k]
    BY <2>1
  <2>3. v \in Reaching(offered, Len(offered))
    BY <1>1, <1>5 DEF Reaching
  <2>4. Expected[Rank(offered, v)] = offered[v]
    BY <1>1, <2>3, PassingIs DEF Expected
  <2>5. Rank(offered, v) = Len(fed) + 1
    BY <1>2, <1>3, <1>5
  <2>6. \A k \in 1 .. Len(fed') : k \in 1 .. Len(fed) \/ k = Len(fed) + 1
    BY <1>1, <2>2
  <2>7. QED BY <1>1, <1>2, <2>1, <2>2, <2>4, <2>5, <2>6
<1>6. QED BY <1>4, <1>5 DEF Dealt

LEMMA HeadersNext ==
  ASSUME StreamInv, OrderInv, PicturesInv, TypeOK, NEW v \in DOMAIN offered, HeadersAt(v), Dealt(v),
         NEW u, u = v + 1
  PROVE  HeadersAt(u)'
<1>1. /\ v \in Nat /\ 1 .. u - 1 = (1 .. v - 1) \cup {v} /\ FrameAt(v) = offered[v].frame
  BY PlaceType
<1> SUFFICES ASSUME NEW w \in 1 .. u - 1, offered[w].frame = FrameAt(u),
                    offered[w].kind = "param", Reaches(offered[w])
             PROVE  headers'
  BY StreamStays DEF HeadersAt, Dealt
<1>2. headers => headers'
  <2>1. offered[v].kind \in {"param", "idr", "delta"}
    BY PlaceType DEF NalsOf
  <2>2. ASSUME DecodeWhole(offered[v]) PROVE headers' = headers \/ headers'
    BY <2>1, <2>2 DEF DecodeWhole
  <2>3. GivesNothing \/ GivesUnit(offered[v])
    BY DEF Dealt
  <2>4. QED BY <2>2, <2>3 DEF GivesNothing, GivesUnit
<1>3. CASE w = v
  <2>1. DecodeWhole(offered[v])
    BY <1>3 DEF Dealt, GivesUnit
  <2>2. QED BY <1>3, <2>1 DEF DecodeWhole
<1>4. CASE w # v
  <2>1. w \in 1 .. v - 1 /\ w \in 1 .. v
    BY <1>1, <1>4
  <2>2. FrameAt(u) = FrameAt(v)
    BY <1>1, <2>1, NextPlace
  <2>3. headers
    BY <2>1, <2>2 DEF HeadersAt
  <2>4. QED BY <1>2, <2>3
<1>5. QED BY <1>3, <1>4

\* The decoder holds the picture of a unit's frame when it is dealt with, and
\* keeps what it held if the unit is none.
LEMMA RefDealt ==
  ASSUME StreamInv, OrderInv, PicturesInv, TypeOK, NEW v \in DOMAIN offered, At(v), Dealt(v),
         NEW n, n = offered[v].frame
  PROVE  /\ ~IsPicture(offered[v]) => ref' = ref
         /\ IsPicture(offered[v]) /\ Recoverable(n) => ref' = n
<1>1. offered[v].kind \in {"param", "idr", "delta"} /\ n \in Nat /\ offered[v] \in Offered
  BY PlaceType DEF NalsOf
<1>2. ASSUME ~IsPicture(offered[v]) PROVE ref' = ref
  BY <1>2 DEF Dealt, GivesNothing, GivesUnit, DecodeWhole, IsPicture
<1>3. ASSUME IsPicture(offered[v]), Recoverable(n) PROVE ref' = n
  <2>1. Reaches(offered[v])
    BY <1>1, <1>3, RecoverableNeeds
  <2>2. DecodeWhole(offered[v])
    BY <2>1 DEF Dealt, GivesUnit
  <2>3. CASE offered[v].kind = "idr"
    <3>1. headers
      BY <1>3, <2>3, PictureComes
    <3>2. QED BY <2>2, <2>3, <3>1 DEF DecodeWhole
  <2>4. CASE offered[v].kind = "delta"
    <3>1. ref = n - 1
      BY <1>3, <2>4, PictureComes
    <3>2. QED BY <2>2, <2>4, <3>1 DEF DecodeWhole
  <2>5. QED BY <1>1, <1>3, <2>3, <2>4 DEF IsPicture
<1>4. QED BY <1>2, <1>3

LEMMA RefNext ==
  ASSUME StreamInv, OrderInv, PicturesInv, TypeOK, NEW v \in DOMAIN offered, At(v), Dealt(v),
         NEW u, u = v + 1
  PROVE  RefAt(u)'
<1>1. PICK n : n = offered[v].frame
  OBVIOUS
<1>2. PICK m : m = FrameAt(u)
  OBVIOUS
<1>3. n \in Nat /\ v \in Nat /\ FrameAt(v) = n /\ offered[v] \in Offered
  BY <1>1, PlaceType
<1>4. /\ m = n \/ m = n + 1
      /\ m = n => (PictureBefore(u) <=> PictureBefore(v) \/ IsPicture(offered[v]))
      /\ m = n + 1 => ~PictureBefore(u) /\ (PictureBefore(v) \/ IsPicture(offered[v]))
  BY <1>1, <1>2, NextPlace
<1>5. /\ ~IsPicture(offered[v]) => ref' = ref
      /\ IsPicture(offered[v]) /\ Recoverable(n) => ref' = n
  BY <1>1, RefDealt
<1>6. /\ PictureBefore(v) /\ Recoverable(n) => ref = n
      /\ ~PictureBefore(v) /\ Recoverable(n - 1) => ref = n - 1
  BY <1>3 DEF At, RefAt
<1>7. PictureBefore(v) => ~IsPicture(offered[v])
  <2> SUFFICES ASSUME PictureBefore(v), IsPicture(offered[v]) PROVE FALSE
    OBVIOUS
  <2>1. PICK w \in 1 .. v - 1 : offered[w].frame = n /\ IsPicture(offered[w])
    BY <1>3 DEF PictureBefore
  <2>2. w \in DOMAIN offered /\ w # v
    BY <1>3 DEF StreamInv
  <2>3. QED BY <1>1, <2>1, <2>2 DEF PicturesInv
<1>8. Recoverable(n) /\ (PictureBefore(v) \/ IsPicture(offered[v])) => ref' = n
  BY <1>5, <1>6, <1>7
<1>9. PictureBefore(u) /\ Recoverable(m) => ref' = m
  BY <1>3, <1>4, <1>8
<1>10. ~PictureBefore(u) /\ Recoverable(m - 1) => ref' = m - 1
  <2>1. CASE m = n
    BY <1>4, <1>5, <1>6, <2>1
  <2>2. CASE m = n + 1
    <3>1. m - 1 = n
      BY <1>3, <2>2
    <3>2. QED BY <1>4, <1>8, <2>2, <3>1
  <2>3. QED BY <1>4, <2>1, <2>2
<1>11. UNCHANGED <<frame, offered, damaged>>
  BY DEF Dealt
<1>12. FrameAt(u)' = m /\ PictureBefore(u)' = PictureBefore(u)
  BY <1>2, <1>11, StreamStays
<1>13. /\ Recoverable(m)' => Recoverable(m)
       /\ Recoverable(m - 1)' => Recoverable(m - 1)
  BY <1>11, RecoverableBefore
<1>14. QED BY <1>9, <1>10, <1>12, <1>13 DEF RefAt, Recoverable

LEMMA AtNext ==
  ASSUME IInv, PathInv, NEW v \in DOMAIN offered, At(v), Dealt(v), NEW u, u = v + 1
  PROVE  At(u)'
<1>1. GivenAt(u)'
  BY GivenNext DEF IInv, PathInv, ChainInv, At
<1>2. HeadersAt(u)'
  BY HeadersNext DEF IInv, PathInv, At
<1>3. RefAt(u)'
  BY RefNext DEF IInv, PathInv
<1>4. QED BY <1>1, <1>2, <1>3 DEF At
\* The picture shown stays, or one is shown that is of no recoverable frame
\* or exact.
LEMMA ExactShown ==
  ASSUME LossEndsAtKeyFrame, UNCHANGED <<frame, offered, damaged>>,
         \/ rgb_buffer' = rgb_buffer
         \/ Recoverable(rgb_buffer'.frame) => rgb_buffer'.exact
  PROVE  LossEndsAtKeyFrame'
<1>1. PICK n : n = rgb_buffer'.frame
  OBVIOUS
<1>2. Recoverable(n)' => Recoverable(n)
  BY RecoverableBefore
<1>3. n > 0 /\ Recoverable(n) => rgb_buffer'.exact
  BY <1>1 DEF LossEndsAtKeyFrame
<1>4. QED BY <1>1, <1>2, <1>3 DEF LossEndsAtKeyFrame, Recoverable

LEMMA ShowsSound ==
  ASSUME StreamInv, OrderInv, PicturesInv, LossEndsAtKeyFrame,
         NEW v \in DOMAIN offered, At(v), Dealt(v)
  PROVE  LossEndsAtKeyFrame'
<1>1. PICK n : n = offered[v].frame
  OBVIOUS
<1>2. n \in Nat /\ offered[v].kind \in {"param", "idr", "delta"}
  BY <1>1, PlaceType DEF NalsOf
<1>3. UNCHANGED <<frame, offered, damaged>>
  BY DEF Dealt
<1>4. CASE rgb_buffer' = rgb_buffer
  BY <1>3, <1>4, ExactShown
<1>5. CASE rgb_buffer' # rgb_buffer
  <2>1. DecodeWhole(offered[v])
    BY <1>5 DEF Dealt, GivesNothing, GivesUnit
  <2>2. CASE offered[v].kind = "param"
    BY <1>5, <2>1, <2>2 DEF DecodeWhole, ShowsNothing
  <2>3. CASE offered[v].kind = "idr"
    <3>1. rgb_buffer' = Picture(n, TRUE)
      BY <1>1, <1>5, <2>1, <2>3 DEF DecodeWhole, Shows, ShowsNothing
    <3>2. rgb_buffer'.exact
      BY <3>1 DEF Picture
    <3>3. QED BY <1>3, <3>2, ExactShown
  <2>4. CASE offered[v].kind = "delta"
    <3> DEFINE exact == ref # 0 /\ ref = n - 1
    <3>1. rgb_buffer' = Picture(n, exact)
      BY <1>1, <1>5, <2>1, <2>4 DEF DecodeWhole, Shows, ShowsNothing
    <3>2. Recoverable(n) => exact
      BY <1>1, <1>2, <2>4, PictureComes DEF IsPicture
    <3> HIDE DEF exact
    <3>3. rgb_buffer'.frame = n /\ rgb_buffer'.exact = exact
      BY <3>1 DEF Picture
    <3>4. QED BY <1>3, <3>2, <3>3, ExactShown
  <2>5. QED BY <1>2, <2>2, <2>3, <2>4
<1>6. QED BY <1>4, <1>5

\* What is decoded of a damaged frame is at most a picture of that frame.
LEMMA DecodesDamaged ==
  ASSUME StreamInv, NEW bytes \in Seq(Triple), NEW n \in Nat, n >= 1,
         bytes # <<>>, bytes[Len(bytes)][1] = n, Decode(bytes, n, Offered)
  PROVE  rgb_buffer' = rgb_buffer \/ rgb_buffer'.frame = n
<1>1. ASSUME NEW nal \in Offered, Whole(nal) = Stripped(bytes), DecodeWhole(nal)
      PROVE  rgb_buffer' = rgb_buffer \/ rgb_buffer'.frame = n
  <2>1. nal.frame = n
    BY <1>1, WholeFrame
  <2>2. nal.kind \in {"param", "idr", "delta"}
    <3>1. PICK k \in DOMAIN offered : nal = offered[k]
      BY DEF Offered
    <3>2. QED BY <3>1, PlaceType DEF NalsOf
  <2>3. rgb_buffer' = rgb_buffer \/ \E exact : rgb_buffer' = Picture(nal.frame, exact)
    BY <1>1, <2>2 DEF DecodeWhole, Shows, ShowsNothing
  <2>4. QED BY <2>1, <2>3 DEF Picture
<1>2. CASE DecodeDamaged(n)
  BY <1>2 DEF DecodeDamaged, Shows, ShowsNothing, Picture
<1>3. QED BY <1>1, <1>2 DEF Decode

LEMMA ShowsDamaged ==
  ASSUME IInv, LossEndsAtKeyFrame, Receives, NEW v \in DOMAIN offered, PartOf(wire[1], v),
         wire[1].frame \in damaged
  PROVE  LossEndsAtKeyFrame'
<1>1. PICK n : n = offered[v].frame
  OBVIOUS
<1>2. PICK p : p = wire[1]
  OBVIOUS
<1>3. /\ TypeOK /\ StreamInv /\ p \in Packets(frame) /\ n \in Nat /\ n >= 1 /\ n \in damaged
      /\ p.frame = n /\ Head(wire) = p
      /\ offered[v].index \in Nat /\ offered[v].size \in Nat /\ offered[v].size >= 2
      /\ PartOf(p, v) /\ UNCHANGED <<frame, offered, damaged>>
  <2>1. TypeOK /\ StreamInv /\ wire # <<>> /\ UNCHANGED <<frame, offered, damaged>>
    BY DEF IInv, Receives, Receive, sender
  <2>2. Head(wire) = p /\ p \in Packets(frame)
    BY <1>2, <2>1, HeadPacket DEF StreamInv
  <2>3. p.frame = n /\ PartOf(p, v) /\ n \in damaged
    BY <1>1, <1>2 DEF PartOf
  <2>4. QED BY <1>1, <2>1, <2>2, <2>3, PlaceType
<1>4. rgb_buffer' = rgb_buffer \/ rgb_buffer'.frame = n
  <2>1. CASE UNCHANGED <<got_frame, rgb_buffer, decoder>>
    BY <2>1
  <2>2. CASE ReceiveSingle(p, Offered) /\ Decode(p.data, n, Offered)
    <3>1. p.data = Whole(offered[v])
      BY <1>3, <2>2 DEF ReceiveSingle, PartOf, Carries
    <3> DEFINE b == Whole(offered[v])
    <3>2. /\ b \in Seq(Triple) /\ Len(b) = offered[v].size
          /\ \A k \in 1 .. offered[v].size : b[k] = <<offered[v].frame, offered[v].index, k>>
      BY <1>1, <1>3, WholeIs
    <3>3. Decode(b, n, Offered)
      BY <2>2, <3>1
    <3> HIDE DEF b
    <3>4. b # <<>> /\ b[Len(b)][1] = n
      BY <1>1, <1>3, <3>2
    <3>5. QED BY <1>3, <3>2, <3>3, <3>4, DecodesDamaged
  <2>3. CASE ReceiveFragment(p, Offered) /\ Decode(Assembled(p), n, Offered)
    <3>1. p.form = "fragment"
      BY <2>3 DEF ReceiveFragment
    <3>2. PICK f \in 2 .. offered[v].size : \E t \in f .. offered[v].size :
            Carries(p, offered[v], f, t)
      BY <1>3, <3>1 DEF PartOf
    <3>3. PICK t \in f .. offered[v].size : Carries(p, offered[v], f, t)
      BY <3>2
    <3>4. f \in Nat /\ t \in Nat /\ f >= 2 /\ f <= t
      BY <1>3
    <3>5. Assembled(p) \in Seq(Triple)
      BY <1>3, <3>1, AssembledType
    <3>6. Assembled(p)[Len(Assembled(p))][1] = n
      BY <1>1, <1>3, <3>1, <3>3, <3>4, LastByte
    <3>7. Assembled(p) # <<>>
      <4>1. p.data # <<>> /\ p.data \in Seq(Triple)
        <5>1. p.data = Bytes(offered[v], f, t) /\ f >= 1 /\ f <= t + 1 /\ t - f + 1 > 0
          BY <3>3, <3>4 DEF Carries
        <5>2. Len(Bytes(offered[v], f, t)) = t - f + 1 /\ Bytes(offered[v], f, t) \in Seq(Triple)
          BY <1>1, <1>3, <3>4, <5>1, BytesAre
        <5>3. QED BY <5>1, <5>2
      <4>2. h264_buf \in Seq(Triple) /\ p.header \in Triple /\ StartCode \in Triple
        BY <1>3, <3>1, PacketParts DEF TypeOK, Triple, StartCode, StreamInv
      <4>3. CASE p.start
        <5>1. <<StartCode, p.header>> \in Seq(Triple)
          BY <4>2
        <5>2. <<StartCode, p.header>> \o p.data # <<>>
          BY <4>1, <5>1
        <5>3. QED BY <4>3, <5>2 DEF Assembled
      <4>4. CASE ~p.start
        <5>1. h264_buf \o p.data # <<>>
          BY <4>1, <4>2
        <5>2. QED BY <4>4, <5>1 DEF Assembled
      <4>5. QED BY <4>3, <4>4
    <3>8. QED BY <1>3, <2>3, <3>5, <3>6, <3>7, DecodesDamaged
  <2>4. ReceiveSingle(p, Offered) \/ ReceiveFragment(p, Offered)
    BY <1>3 DEF Receives, Receive
  <2>5. QED BY <1>3, <2>1, <2>2, <2>3, <2>4 DEF ReceiveSingle, ReceiveFragment
<1>5. ~Recoverable(n)
  BY <1>3, RecoverableNeeds
<1>6. QED BY <1>3, <1>4, <1>5, ExactShown
-----------------------------------------------------------------------------
(* A packet is received. *)

\* The receiver is at the place of the oldest packet, if its frame is sound.
LEMMA AtHead ==
  ASSUME IInv, PathInv, wire # <<>>, NEW v \in DOMAIN offered, PartOf(wire[1], v),
         offered[v].frame \notin damaged
  PROVE  At(v)
<1>1. /\ v \in Nat /\ v >= 1 /\ v \in Places /\ FrameAt(v) = offered[v].frame
      /\ 1 \in 1 .. Len(wire) + 1 /\ 1 # Len(wire) + 1
      /\ StreamInv /\ OrderInv /\ damaged \subseteq 1 .. frame
  <2>1. StreamInv /\ OrderInv /\ damaged \subseteq 1 .. frame
    BY DEF IInv, TypeOK, PathInv
  <2>2. 1 \in 1 .. Len(wire) + 1 /\ 1 # Len(wire) + 1
    BY <2>1 DEF StreamInv
  <2>3. v \in Nat /\ v >= 1 /\ v \in Places /\ FrameAt(v) = offered[v].frame
    BY <2>1, PlaceType DEF Places
  <2>4. QED BY <2>1, <2>2, <2>3
<1>2. CASE v > 1 /\ FrameAt(v - 1) \in damaged
  BY <1>1, <1>2, AtFirst
<1>3. CASE ~(v > 1 /\ FrameAt(v - 1) \in damaged)
  <2>1. Clean(v) /\ Here(1, v)
    BY <1>1, <1>3 DEF Clean, Here
  <2>2. Follows(1, v)
    BY <1>1, <2>1 DEF PathInv, ChainInv, Chained
  <2>3. QED BY <2>2 DEF Follows
<1>4. QED BY <1>2, <1>3

LEMMA ReceivesPath ==
  ASSUME IInv, LeftInv, PathInv, Receives
  PROVE  PathInv'
<1>1. /\ wire # <<>> /\ wire' = Tail(wire) /\ StreamInv /\ TypeOK
      /\ OrderInv /\ PicturesInv /\ ChainInv /\ LossEndsAtKeyFrame
      /\ UNCHANGED <<frame, offered, damaged, nals, i>>
  BY DEF Receives, Receive, sender, IInv, PathInv
<1>2. /\ Len(wire) \in Nat /\ Len(wire) >= 1 /\ Len(wire') = Len(wire) - 1
      /\ \A k \in 1 .. Len(wire') : wire'[k] = wire[k + 1]
  BY <1>1 DEF StreamInv
<1>3. PICK v \in DOMAIN offered : PartOf(wire[1], v)
  BY <1>1, <1>2 DEF ChainInv
<1>4. ASSUME offered[v].frame \notin damaged, NEW u, u = Onward(wire[1], v)
      PROVE  At(u)' /\ LossEndsAtKeyFrame'
  <2>1. At(v)
    BY <1>1, <1>3, <1>4, AtHead
  <2>2. CASE u = v /\ GivesNothing
    <3>1. At(u)'
      BY <1>1, <2>1, <2>2, AtStays DEF GivesNothing
    <3>2. LossEndsAtKeyFrame'
      BY <1>1, <2>2, ExactShown DEF GivesNothing
    <3>3. QED BY <3>1, <3>2
  <2>3. CASE u = v + 1 /\ Dealt(v)
    <3>1. At(u)'
      BY <2>1, <2>3, AtNext
    <3>2. LossEndsAtKeyFrame'
      BY <1>1, <2>1, <2>3, ShowsSound
    <3>3. QED BY <3>1, <3>2
  <2>4. (u = v /\ GivesNothing) \/ (u = v + 1 /\ Dealt(v))
    BY <1>1, <1>3, <1>4, ReceivesUnit DEF Dealt
  <2>5. QED BY <2>2, <2>3, <2>4
<1>5. LossEndsAtKeyFrame'
  <2>1. CASE offered[v].frame \notin damaged
    BY <1>4, <2>1
  <2>2. CASE offered[v].frame \in damaged
    <3>1. wire[1].frame \in damaged
      BY <1>3, <2>2 DEF PartOf
    <3>2. QED BY <1>1, <1>3, <3>1, ShowsDamaged
  <2>3. QED BY <2>1, <2>2
<1>6. ASSUME NEW j \in 1 .. Len(wire') + 1 PROVE Chained(j)'
  <2>1. /\ j + 1 \in 1 .. Len(wire) + 1 /\ j + 1 # 1 /\ (j + 1) - 1 = j
        /\ (j + 1 = Len(wire) + 1 <=> j = Len(wire') + 1)
        /\ (j # Len(wire') + 1 => wire'[j] = wire[j + 1])
    BY <1>2
  <2>2. PICK k : k = j + 1
    OBVIOUS
  <2>3. Chained(k) /\ k # 1 /\ k - 1 = j
    BY <1>1, <2>1, <2>2 DEF ChainInv
  <2>4. ASSUME NEW u, Here(j, u)' PROVE Here(k, u)
    BY <1>1, <2>1, <2>2, <2>4, SameHere
  <2>5. ASSUME NEW u, Clean(u)', Follows(k, u) PROVE Follows(j, u)'
    <3>1. CASE j = 1
      <4>1. PICK w \in DOMAIN offered : PartOf(wire[k - 1], w) /\ u = Onward(wire[k - 1], w)
        BY <2>3, <2>5 DEF Follows
      <4>2. PartOf(wire[1], w) /\ u = Onward(wire[1], w)
        BY <2>3, <3>1, <4>1
      <4>3. w = v
        BY <1>1, <1>3, <4>2, OnePlace
      <4>4. CASE offered[v].frame \notin damaged
        <5>1. At(u)'
          BY <1>4, <4>2, <4>3, <4>4
        <5>2. QED BY <3>1, <5>1 DEF Follows
      <4>5. CASE offered[v].frame \in damaged
        <5>1. wire[k - 1].frame \in damaged'
          BY <1>1, <1>3, <2>3, <3>1, <4>5 DEF PartOf
        <5>2. QED BY <1>1, <2>3, <2>5, <5>1, NoFollower
      <4>6. QED BY <4>4, <4>5
    <3>2. CASE j # 1
      <4>1. wire'[j - 1] = wire[k - 1]
        <5>1. j - 1 \in 1 .. Len(wire') /\ (j - 1) + 1 = k - 1
          BY <1>2, <2>2, <3>2
        <5>2. QED BY <1>2, <5>1
      <4>2. QED BY <1>1, <2>3, <2>5, <3>2, <4>1, SameFollows
    <3>3. QED BY <3>1, <3>2
  <2>6. QED BY <1>1, <2>3, <2>4, <2>5, ChainedFrom
<1>7. ASSUME NEW k \in 1 .. Len(wire') PROVE \E u \in DOMAIN offered : PartOf(wire'[k], u)
  <2>1. k + 1 \in 1 .. Len(wire) /\ wire'[k] = wire[k + 1]
    BY <1>2
  <2>2. QED BY <1>1, <2>1 DEF ChainInv
<1>8. ChainInv'
  <2>1. fed' \in Seq(Seq(Triple))
    BY <1>1, FedType DEF ChainInv
  <2>2. QED BY <1>1, <1>6, <1>7, <2>1, StreamStays DEF ChainInv
<1>9. OrderInv' /\ PicturesInv'
  <2>1. OrderInv'
    <3>1. \A u : FrameAt(u)' = FrameAt(u)
      BY <1>1, StreamStays
    <3>2. \A u : FrameAt(u + 1)' = FrameAt(u + 1)
      BY <1>1, StreamStays
    <3>3. QED BY <1>1, <3>1, <3>2 DEF OrderInv
  <2>2. PicturesInv'
    BY <1>1 DEF PicturesInv
  <2>3. QED BY <2>1, <2>2
<1>10. QED BY <1>5, <1>8, <1>9 DEF PathInv
-----------------------------------------------------------------------------
(* The theorems on what the decoder gets and shows. *)

\* At the start the sender and the receiver are at the first place.
LEMMA PathInit == Init => PathInv
<1> SUFFICES ASSUME Init PROVE PathInv
  OBVIOUS
<1>1. /\ frame = 0 /\ nals = <<>> /\ i = 1 /\ offered = <<>> /\ wire = <<>> /\ fed = <<>>
      /\ rgb_buffer = NoPicture
  BY DEF Init, DownlinkInit, ReceiverInit
<1>2. DOMAIN offered = {} /\ DOMAIN nals = {} /\ Len(offered) = 0 /\ Len(nals) = 0 /\ Len(wire) = 0
      /\ Len(fed) = 0
  BY <1>1
<1>3. OrderInv
  BY <1>2 DEF OrderInv
<1>4. PicturesInv
  BY <1>1, <1>2 DEF PicturesInv
<1>5. LossEndsAtKeyFrame
  BY <1>1 DEF LossEndsAtKeyFrame, NoPicture, Picture
<1>6. ASSUME NEW u, u = 1 PROVE At(u)
  <2>1. u - 1 = 0 /\ 1 .. u - 1 = {} /\ FrameAt(u) = 1
    BY <1>1, <1>2, <1>6 DEF FrameAt
  <2>2. GivenAt(u)
    BY <1>2, <2>1, RankOfNone DEF GivenAt
  <2>3. HeadersAt(u) /\ ~PictureBefore(u)
    BY <2>1 DEF HeadersAt, PictureBefore
  <2>4. ~Recoverable(FrameAt(u) - 1)
    BY <2>1 DEF Recoverable
  <2>5. QED BY <2>2, <2>3, <2>4 DEF At, RefAt
<1>7. ASSUME NEW k \in 1 .. Len(wire) + 1 PROVE Chained(k)
  <2> SUFFICES ASSUME NEW u \in Places PROVE Follows(k, u)
    BY DEF Chained
  <2>1. k = 1 /\ u = 1
    BY <1>2 DEF Places
  <2>2. QED BY <1>6, <2>1 DEF Follows
<1>8. ChainInv
  <2>1. fed \in Seq(Seq(Triple))
    BY <1>1
  <2>2. 1 .. Len(wire) = {}
    BY <1>2
  <2>3. QED BY <1>7, <2>1, <2>2 DEF ChainInv
<1>9. QED BY <1>3, <1>4, <1>5, <1>8 DEF PathInv

\* All of the invariant holds in every state.
LEMMA PathInvariance == Spec => [](IInv /\ LeftInv /\ PathInv)
<1>1. IInv /\ LeftInv /\ PathInv /\ [Next]_vars => PathInv'
  <2> SUFFICES ASSUME IInv, LeftInv, PathInv, [Next]_vars PROVE PathInv'
    OBVIOUS
  <2>1. CASE Satellite
    <3>1. UNCHANGED receiver
      BY <2>1 DEF Satellite
    <3>2. ASSUME NEW au \in AccessUnits, Encode(au) PROVE PathInv'
      BY <3>1, <3>2, EncodePath
    <3>3. CASE SendSingle
      BY <3>1, <3>3, SendSinglePath
    <3>4. CASE SendFragment
      BY <3>1, <3>4, SendFragmentPath
    <3>5. QED BY <2>1, <3>2, <3>3, <3>4 DEF Satellite, Send
  <2>2. CASE SendError
    BY <2>2, SendFailsPath DEF SendError
  <2>3. CASE Link
    BY <2>3, LosePath, OvertakePath, DuplicatePath DEF Link
  <2>4. CASE Receives
    BY <2>4, ReceivesPath
  <2>5. CASE Polls \/ UNCHANGED vars
    <3>1. UNCHANGED <<frame, offered, nals, i, headers, ref, fed, rgb_buffer, wire, damaged>>
      BY <2>5 DEF Polls, PollStart, PollEnd, vars, sender, receiver, decoder
    <3>2. QED BY <3>1, PollsPath
  <2>6. QED BY <2>1, <2>2, <2>3, <2>4, <2>5 DEF Next
<1>2. QED BY <1>1, PathInit, LeftInvariance, Invariance, PTL DEF Spec

\* Until the first fault the receiver is at the place of the oldest packet, or
\* the sender's if there is none.
LEMMA AtSomePlace ==
  ASSUME IInv, PathInv, damaged = {}
  PROVE  \E u \in Places : At(u) /\ (Idle => u = Len(offered) + 1)
<1>1. /\ StreamInv /\ TypeOK /\ OrderInv /\ ChainInv /\ Len(offered) \in Nat
      /\ wire \in Seq(Packets(frame)) /\ DOMAIN offered = 1 .. Len(offered)
  BY DEF IInv, PathInv, StreamInv
<1>2. \E u \in Places : Here(1, u) /\ (Idle => u = Len(offered) + 1)
  <2>1. CASE wire # <<>>
    <3>1. 1 \in 1 .. Len(wire) /\ 1 # Len(wire) + 1
      BY <1>1, <2>1
    <3>2. PICK u \in DOMAIN offered : PartOf(wire[1], u)
      BY <1>1, <3>1 DEF ChainInv
    <3>3. u \in Places /\ Here(1, u)
      BY <1>1, <3>1, <3>2 DEF Here, Places
    <3>4. QED BY <2>1, <3>3 DEF Idle
  <2>2. CASE wire = <<>>
    <3>1. Here(1, SenderPlace)
      BY <2>2 DEF Here
    <3>2. CASE nals = <<>>
      <4>1. SenderPlace = Len(offered) + 1
        BY <1>1, <3>2 DEF SenderPlace, TypeOK
      <4>2. QED BY <1>1, <3>1, <4>1 DEF Places
    <3>3. CASE nals # <<>>
      <4>1. SenderPlace \in Places
        BY <1>1, <3>3, SenderAt DEF Places
      <4>2. QED BY <3>1, <3>3, <4>1 DEF Idle
    <3>4. QED BY <3>2, <3>3
  <2>3. QED BY <2>1, <2>2
<1>3. PICK u \in Places : Here(1, u) /\ (Idle => u = Len(offered) + 1)
  BY <1>2
<1>4. Clean(u)
  BY DEF Clean
<1>5. Chained(1)
  <2>1. 1 \in 1 .. Len(wire) + 1
    BY <1>1
  <2>2. QED BY <1>1, <2>1 DEF ChainInv
<1>6. At(u)
  BY <1>3, <1>4, <1>5 DEF Chained, Follows
<1>7. QED BY <1>3, <1>6

LEMMA GetsNals ==
  ASSUME IInv, PathInv
  PROVE  DecoderGetsNals
<1> SUFFICES ASSUME damaged = {}
             PROVE  /\ Len(fed) <= Len(Expected)
                    /\ \A k \in DOMAIN fed : Stripped(fed[k]) = Whole(Expected[k])
                    /\ Idle => Len(fed) = Len(Expected)
  BY DEF DecoderGetsNals
<1>1. PICK u \in Places : At(u) /\ (Idle => u = Len(offered) + 1)
  BY AtSomePlace
<1>2. /\ Len(fed) = Rank(offered, u - 1)
      /\ \A k \in 1 .. Len(fed) : Stripped(fed[k]) = Whole(Expected[k])
  BY <1>1 DEF At, GivenAt
<1>3. /\ offered \in Seq(NalsOf(1 .. frame)) /\ DOMAIN fed = 1 .. Len(fed)
      /\ u - 1 \in Nat /\ Len(offered) \in Nat /\ u - 1 <= Len(offered)
      /\ Idle => u - 1 = Len(offered)
  <2>1. Len(offered) \in Nat /\ offered \in Seq(NalsOf(1 .. frame)) /\ DOMAIN fed = 1 .. Len(fed)
    BY DEF IInv, StreamInv, PathInv, ChainInv
  <2>2. QED BY <1>1, <2>1 DEF Places
<1>4. Len(Expected) = Rank(offered, Len(offered))
  BY <1>3, PassingIs DEF Expected
<1>5. Rank(offered, u - 1) <= Rank(offered, Len(offered))
  BY <1>3, RankGrows
<1>6. QED BY <1>2, <1>3, <1>4, <1>5

\* Until the first fault the decoder is given the NAL units that x264 made and
\* that the receiver does not ignore, each whole and once, in order, and all
\* of them: whatever their sizes, the payload and the sequence number's width.
THEOREM DecoderGets == Spec => []DecoderGetsNals
BY PathInvariance, GetsNals, PTL

\* Whatever packets are lost, doubled or reordered and wherever sendto fails,
\* a picture is exact if its frame and all frames since a key frame came
\* whole: nothing of a damaged frame leaks beyond the next key frame.
THEOREM LossEnds == Spec => []LossEndsAtKeyFrame
<1>1. PathInv => LossEndsAtKeyFrame
  BY DEF PathInv
<1>2. QED BY <1>1, PathInvariance, PTL
-----------------------------------------------------------------------------
(* The video path is a pipe of units. *)

\* Taking the first of what is left of a sequence.
LEMMA TakeOne ==
  ASSUME NEW S, NEW e \in Seq(S), NEW n \in Nat, n + 1 <= Len(e)
  PROVE  LET rest == SubSeq(e, n + 1, Len(e))
         IN /\ rest # <<>>
            /\ Tail(rest) = SubSeq(e, (n + 1) + 1, Len(e))
            /\ Append([k \in 1 .. n |-> e[k]], Head(rest)) = [k \in 1 .. n + 1 |-> e[k]]
<1> DEFINE rest == SubSeq(e, n + 1, Len(e))
           next == SubSeq(e, (n + 1) + 1, Len(e))
           done == [k \in 1 .. n |-> e[k]]
<1>1. Len(e) \in Nat /\ \A k \in 1 .. Len(e) : e[k] \in S
  OBVIOUS
<1>2. /\ rest \in Seq(S) /\ Len(rest) = Len(e) - n
      /\ \A k \in 1 .. Len(e) - n : rest[k] = e[n + k]
  BY <1>1
<1>3. /\ next \in Seq(S) /\ Len(next) = Len(e) - n - 1
      /\ \A k \in 1 .. Len(e) - n - 1 : next[k] = e[(n + 1) + k]
  BY <1>1
<1>4. done \in Seq(S) /\ Len(done) = n /\ \A k \in 1 .. n : done[k] = e[k]
  <2>1. done \in [1 .. n -> S]
    BY <1>1
  <2>2. QED BY <2>1, SeqDef
<1> HIDE DEF rest, next, done
<1>5. rest # <<>> /\ Head(rest) = e[n + 1] /\ e[n + 1] \in S
  <2>1. 1 \in 1 .. Len(e) - n /\ n + 1 \in 1 .. Len(e)
    BY <1>1
  <2>2. Len(rest) # 0
    BY <1>1, <1>2
  <2>3. QED BY <1>1, <1>2, <2>1, <2>2
<1>6. Tail(rest) = next
  <2>1. /\ Tail(rest) \in Seq(S) /\ Len(Tail(rest)) = Len(e) - n - 1
        /\ \A k \in 1 .. Len(e) - n - 1 : Tail(rest)[k] = rest[k + 1]
    BY <1>1, <1>2, <1>5
  <2>2. ASSUME NEW k \in 1 .. Len(e) - n - 1 PROVE rest[k + 1] = next[k]
    <3>1. k + 1 \in 1 .. Len(e) - n /\ n + (k + 1) = (n + 1) + k
      BY <1>1
    <3>2. QED BY <1>2, <1>3, <3>1
  <2>3. QED BY <1>3, <2>1, <2>2, SeqEqual
<1>7. Append(done, Head(rest)) = [k \in 1 .. n + 1 |-> e[k]]
  <2> DEFINE a == Append(done, Head(rest))
  <2>1. /\ a \in Seq(S) /\ Len(a) = n + 1 /\ a[n + 1] = e[n + 1]
        /\ \A k \in 1 .. n : a[k] = e[k]
    BY <1>4, <1>5
  <2> HIDE DEF a
  <2>2. \A k \in 1 .. n + 1 : a[k] = e[k]
    <3>1. \A k \in 1 .. n + 1 : k \in 1 .. n \/ k = n + 1
      OBVIOUS
    <3>2. QED BY <2>1, <3>1
  <2>3. a = [k \in 1 .. n + 1 |-> e[k]]
    BY <2>1, <2>2
  <2>4. QED BY <2>3 DEF a
<1>8. QED BY <1>5, <1>6, <1>7 DEF rest, next

\* What is left of a sequence begins what is left of a longer one.
LEMMA PutMore ==
  ASSUME NEW S, NEW e \in Seq(S), NEW d \in Seq(S), NEW n \in Nat, n <= Len(e), Len(e) <= Len(d),
         \A k \in 1 .. Len(e) : d[k] = e[k]
  PROVE  LET rest == SubSeq(e, n + 1, Len(e))
             more == SubSeq(d, n + 1, Len(d))
         IN Len(more) >= Len(rest) /\ SubSeq(more, 1, Len(rest)) = rest
<1> DEFINE rest == SubSeq(e, n + 1, Len(e))
           more == SubSeq(d, n + 1, Len(d))
           begin == SubSeq(more, 1, Len(rest))
<1>1. Len(e) \in Nat /\ Len(d) \in Nat
  OBVIOUS
<1>2. /\ rest \in Seq(S) /\ Len(rest) = Len(e) - n
      /\ \A k \in 1 .. Len(e) - n : rest[k] = e[n + k]
  BY <1>1
<1>3. /\ more \in Seq(S) /\ Len(more) = Len(d) - n
      /\ \A k \in 1 .. Len(d) - n : more[k] = d[n + k]
  BY <1>1
<1> HIDE DEF rest, more
<1>4. Len(more) >= Len(rest) /\ Len(rest) \in Nat /\ Len(more) \in Nat
  BY <1>1, <1>2, <1>3
<1>5. /\ begin \in Seq(S) /\ Len(begin) = Len(rest)
      /\ \A k \in 1 .. Len(rest) : begin[k] = more[k]
  BY <1>2, <1>3, <1>4
<1> HIDE DEF begin
<1>6. ASSUME NEW k \in 1 .. Len(rest) PROVE begin[k] = rest[k]
  <2>1. k \in 1 .. Len(e) - n /\ k \in 1 .. Len(d) - n /\ n + k \in 1 .. Len(e)
    BY <1>1, <1>2
  <2>2. QED BY <1>2, <1>3, <1>5, <2>1
<1>7. begin = rest
  BY <1>2, <1>5, <1>6, SeqEqual
<1>8. QED BY <1>4, <1>7 DEF rest, more, begin

\* What has come out of the pipe and what is in it, while the link is sound.
Gone == [k \in DOMAIN fed |-> UnitGiven(fed[k])]
Rest == SubSeq(Expected, Len(fed) + 1, Len(Expected))

PipeInv ==
  damaged = {} =>
    /\ Len(fed) \in Nat /\ Len(fed) <= Len(Expected)
    /\ Expected \in Seq(NalsOf(1 .. frame))
    /\ Gone = [k \in 1 .. Len(fed) |-> Expected[k]]

LEMMA PipeHolds ==
  ASSUME IInv, PathInv
  PROVE  PipeInv
<1> SUFFICES ASSUME damaged = {}
             PROVE  /\ Len(fed) \in Nat /\ Len(fed) <= Len(Expected)
                    /\ Expected \in Seq(NalsOf(1 .. frame))
                    /\ Gone = [k \in 1 .. Len(fed) |-> Expected[k]]
  BY DEF PipeInv
<1>1. /\ Len(fed) <= Len(Expected)
      /\ \A k \in DOMAIN fed : Stripped(fed[k]) = Whole(Expected[k])
  BY GetsNals DEF DecoderGetsNals
<1>2. /\ Len(fed) \in Nat /\ DOMAIN fed = 1 .. Len(fed)
      /\ StreamInv /\ OrderInv /\ offered \in Seq(NalsOf(1 .. frame)) /\ Len(offered) \in Nat
  BY DEF PathInv, ChainInv, IInv, StreamInv
<1>3. /\ Expected \in Seq(NalsOf(1 .. frame)) /\ Len(Expected) \in Nat
      /\ \A n \in 1 .. Len(Expected) :
           \E k \in Reaching(offered, Len(offered)) : Expected[n] = offered[k]
  BY <1>2, PassingIs DEF Expected
<1>4. ASSUME NEW n \in 1 .. Len(fed) PROVE UnitGiven(fed[n]) = Expected[n]
  <2>1. n \in 1 .. Len(Expected) /\ Stripped(fed[n]) = Whole(Expected[n])
    BY <1>1, <1>2, <1>3
  <2>2. PICK k \in DOMAIN offered : Expected[n] = offered[k]
    BY <1>2, <1>3, <2>1 DEF Reaching
  <2>3. offered[k] \in Offered
    BY <2>2 DEF Offered
  <2>4. ASSUME NEW nal \in Offered, Whole(nal) = Stripped(fed[n]) PROVE nal = offered[k]
    <3>1. nal.frame = offered[k].frame /\ nal.index = offered[k].index
      BY <1>2, <2>1, <2>2, <2>3, <2>4, WholeTells
    <3>2. PICK j \in DOMAIN offered : nal = offered[j]
      BY DEF Offered
    <3>3. QED BY <1>2, <2>2, <3>1, <3>2, UnitTells
  <2>5. QED BY <2>1, <2>2, <2>3, <2>4 DEF UnitGiven
<1>5. Gone = [k \in 1 .. Len(fed) |-> Expected[k]]
  BY <1>2, <1>4 DEF Gone
<1>6. QED BY <1>1, <1>2, <1>3, <1>5
\* A step that touches neither the stream nor the decoder's history nor any
\* frame leaves the pipe as it is.
LEMMA PipeStays ==
  ASSUME UNCHANGED <<frame, offered, fed, damaged>>
  PROVE  UNCHANGED Pipe!pipevars
<1>1. Expected' = Expected /\ Offered' = Offered
  BY StreamStays
<1>2. \A bytes : UnitGiven(bytes)' = UnitGiven(bytes)
  BY <1>1 DEF UnitGiven
<1>3. Gone' = Gone
  BY <1>2 DEF Gone
<1>4. Rest' = Rest
  BY <1>1 DEF Rest
<1>5. QED BY <1>3, <1>4 DEF Pipe!pipevars, Gone, Rest

\* Once a frame is damaged nothing is in the pipe.
LEMMA PipeFails ==
  ASSUME damaged' # {}
  PROVE  [Pipe!Fail]_Pipe!pipevars
BY DEF Pipe!Fail, Pipe!pipevars

LEMMA PipePuts ==
  ASSUME IInv, PipeInv, PipeInv', NEW au \in AccessUnits, Encode(au), UNCHANGED receiver, damaged = {}
  PROVE  Pipe!Put
<1>1. damaged' = {} /\ fed' = fed
  BY DEF Encode, receiver, decoder
<1>2. /\ Len(fed) \in Nat /\ Len(fed) <= Len(Expected)
      /\ Expected \in Seq(NalsOf(1 .. frame)) /\ Expected' \in Seq(NalsOf(1 .. frame'))
      /\ Gone = [k \in 1 .. Len(fed) |-> Expected[k]]
      /\ Gone' = [k \in 1 .. Len(fed) |-> Expected'[k]]
  BY <1>1 DEF PipeInv
<1> DEFINE S == NalsOf(1 .. frame')
<1>3. /\ offered \in Seq(S) /\ offered' \in Seq(S) /\ Expected \in Seq(S)
      /\ Len(offered) <= Len(offered') /\ \A k \in 1 .. Len(offered) : offered'[k] = offered[k]
  <2>1. /\ frame \in Nat /\ frame' \in Nat /\ frame <= frame' /\ offered' \in Seq(S)
        /\ Len(offered) \in Nat /\ Len(au) \in Nat /\ Len(offered') = Len(offered) + Len(au)
        /\ \A k \in 1 .. Len(offered) : offered'[k] = offered[k]
    BY EncodeOffers
  <2>2. NalsOf(1 .. frame) \subseteq S
    BY <2>1, NalsGrow
  <2>3. offered \in Seq(S) /\ Expected \in Seq(S)
    BY <1>2, <2>2, SeqMonotonic DEF IInv, StreamInv
  <2>4. Len(offered) <= Len(offered')
    BY <2>1
  <2>5. QED BY <2>1, <2>3, <2>4
<1>4. Expected' \in Seq(S)
  BY <1>2
<1> HIDE DEF S
<1>5. Len(Expected) <= Len(Expected') /\ \A n \in 1 .. Len(Expected) : Expected'[n] = Expected[n]
  BY <1>3, PassingGrows DEF Expected
<1>6. Len(Rest') >= Len(Rest) /\ SubSeq(Rest', 1, Len(Rest)) = Rest
  <2> DEFINE e == Expected
             d == Expected'
             n == Len(fed)
  <2>1. /\ e \in Seq(S) /\ d \in Seq(S) /\ n \in Nat /\ n <= Len(e) /\ Len(e) <= Len(d)
        /\ \A k \in 1 .. Len(e) : d[k] = e[k]
    BY <1>2, <1>3, <1>4, <1>5
  <2>2. Rest = SubSeq(e, n + 1, Len(e)) /\ Rest' = SubSeq(d, n + 1, Len(d))
    BY <1>1 DEF Rest
  <2> HIDE DEF e, d, n
  <2>3. QED BY <2>1, <2>2, PutMore
<1>7. Gone' = Gone
  <2>1. \A k \in 1 .. Len(fed) : k \in 1 .. Len(Expected)
    BY <1>2
  <2>2. QED BY <1>2, <1>5, <2>1
<1>8. QED BY <1>1, <1>6, <1>7 DEF Pipe!Put, Rest, Gone

LEMMA PipeTakes ==
  ASSUME IInv, PathInv, PipeInv, PipeInv', Receives, damaged = {}, fed' # fed
  PROVE  Pipe!Take
<1>1. damaged' = {} /\ UNCHANGED <<frame, offered>>
  BY DEF Receives, sender
<1>2. Expected' = Expected
  BY <1>1, StreamStays
<1>3. /\ Len(fed) \in Nat /\ Expected \in Seq(NalsOf(1 .. frame))
      /\ Gone = [k \in 1 .. Len(fed) |-> Expected[k]]
      /\ Len(fed') <= Len(Expected) /\ Gone' = [k \in 1 .. Len(fed') |-> Expected[k]]
  BY <1>1, <1>2 DEF PipeInv
<1>4. Len(fed') = Len(fed) + 1
  <2>1. fed' = fed \/ \E bytes : fed' = Append(fed, bytes)
    BY DEF Receives, Receive, ReceiveSingle, ReceiveFragment, Decode, decoder
  <2>2. fed \in Seq(Seq(Triple))
    BY DEF PathInv, ChainInv
  <2>3. QED BY <2>1, <2>2
<1> DEFINE e == Expected
           n == Len(fed)
<1>5. e \in Seq(NalsOf(1 .. frame)) /\ n \in Nat /\ n + 1 <= Len(e)
  BY <1>3, <1>4
<1>6. /\ Rest = SubSeq(e, n + 1, Len(e)) /\ Rest' = SubSeq(e, (n + 1) + 1, Len(e))
      /\ Gone = [k \in 1 .. n |-> e[k]] /\ Gone' = [k \in 1 .. n + 1 |-> e[k]]
  BY <1>2, <1>3, <1>4 DEF Rest
<1> HIDE DEF e, n
<1>7. Rest # <<>> /\ Rest' = Tail(Rest) /\ Gone' = Append(Gone, Head(Rest))
  BY <1>5, <1>6, TakeOne
<1>8. QED BY <1>1, <1>7 DEF Pipe!Take, Rest, Gone
LEMMA PipeStep ==
  ASSUME IInv, PathInv, PipeInv, PipeInv', [Next]_vars
  PROVE  [Pipe!PipeNext]_Pipe!pipevars
<1>1. CASE damaged' # {}
  BY <1>1, PipeFails DEF Pipe!PipeNext
<1>2. CASE damaged' = {}
  <2>1. damaged = {} /\ (Receives \/ Satellite \/ Polls \/ UNCHANGED vars)
    <3>1. CASE SendError
      BY <1>2, <3>1 DEF SendError, SendFails
    <3>2. CASE Link
      BY <1>2, <3>2 DEF Link, Lose, Overtake, Duplicate, Damage
    <3>3. CASE Receives \/ Satellite \/ Polls \/ UNCHANGED vars
      <4>1. damaged' = damaged
        <5>1. CASE Satellite
          BY <5>1 DEF Satellite, Encode, Send, SendSingle, SendFragment, Transmit
        <5>2. CASE Receives \/ Polls \/ UNCHANGED vars
          BY <5>2 DEF Receives, Polls, vars
        <5>3. QED BY <3>3, <5>1, <5>2
      <4>2. QED BY <1>2, <3>3, <4>1
    <3>4. QED BY <3>1, <3>2, <3>3 DEF Next
  <2>2. ASSUME NEW au \in AccessUnits, Encode(au), UNCHANGED receiver PROVE Pipe!Put
    BY <2>1, <2>2, PipePuts
  <2>3. CASE Receives
    <3>1. CASE fed' = fed
      <4>1. UNCHANGED <<frame, offered, fed, damaged>>
        BY <2>3, <3>1 DEF Receives, sender
      <4>2. QED BY <4>1, PipeStays
    <3>2. CASE fed' # fed
      BY <2>1, <2>3, <3>2, PipeTakes DEF Pipe!PipeNext
    <3>3. QED BY <3>1, <3>2
  <2>4. CASE Send /\ UNCHANGED receiver
    <3>1. UNCHANGED <<frame, offered, fed, damaged>>
      BY <2>4 DEF Send, SendSingle, SendFragment, Transmit, receiver, decoder
    <3>2. QED BY <3>1, PipeStays
  <2>5. CASE Polls \/ UNCHANGED vars
    <3>1. UNCHANGED <<frame, offered, fed, damaged>>
      BY <2>5 DEF Polls, PollStart, PollEnd, vars, sender, receiver, decoder
    <3>2. QED BY <3>1, PipeStays
  <2>6. QED BY <2>1, <2>2, <2>3, <2>4, <2>5 DEF Satellite, Pipe!PipeNext
<1>3. QED BY <1>1, <1>2

\* Until the first fault the satellite, the link and the ground station are
\* together a first-in first-out pipe of whole NAL units, and that is all a
\* user of the video path needs to know of them.
THEOREM PipeRefinement == Spec => RefinesNalPipe
<1>1. Init => Pipe!PipeInit
  <2> SUFFICES ASSUME Init PROVE Pipe!PipeInit
    OBVIOUS
  <2>1. damaged = {} /\ fed = <<>> /\ offered = <<>> /\ Len(offered) = 0 /\ DOMAIN fed = {}
    BY DEF Init, DownlinkInit, ReceiverInit
  <2>2. Reaching(offered, Len(offered)) = {}
    BY <2>1 DEF Reaching
  <2>3. Cardinality(Reaching(offered, Len(offered))) = 0
    BY <2>2, FS_EmptySet
  <2>4. Expected = <<>>
    BY <2>3 DEF Expected, Passing
  <2>5. SubSeq(Expected, Len(fed) + 1, Len(Expected)) = <<>>
    BY <2>1, <2>4
  <2>6. [k \in DOMAIN fed |-> UnitGiven(fed[k])] = <<>>
    BY <2>1
  <2>7. QED BY <2>1, <2>5, <2>6 DEF Pipe!PipeInit
<1>2. IInv /\ PathInv /\ PipeInv /\ PipeInv' /\ [Next]_vars => [Pipe!PipeNext]_Pipe!pipevars
  BY PipeStep
<1>3. IInv /\ PathInv => PipeInv
  BY PipeHolds
<1>4. QED BY <1>1, <1>2, <1>3, PathInvariance, PTL DEF Spec, RefinesNalPipe, Pipe!PipeSpec
=============================================================================
