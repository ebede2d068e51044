---------------------------- MODULE UplinkProofs ----------------------------
(***************************************************************************)
(* Proofs about Uplink and InputLink for every number of keys and weapons  *)
(* and every size of the two queues.  The argument is IInv: as long as no  *)
(* event is lost, the events in the two queues, one after the other, lead  *)
(* from the keys that the game was told of to the keys of the packet       *)
(* compared last, and each of them is a change.  Packets that come over    *)
(* InputLink are packets like any others, so all of it holds of the whole  *)
(* control path.                                                           *)
(***************************************************************************)
EXTENDS InputLink, SequenceTheorems, WellFoundedInduction, TLAPS

\* Events as far as the lemmas on sequences need to know them.
SomeEvent == [key : Nat, pressed : {0, 1}]

-----------------------------------------------------------------------------
(* Sequences of events. *)

\* One more event leads to the keys that it leaves down.
LEMMA LeadsAppend ==
  ASSUME NEW s \in Seq(SomeEvent), NEW e \in SomeEvent,
         NEW b, NEW before, NEW after, NEW now,
         Leads(b, before, s, after),
         e.key = b => (e.pressed = 1 <=> b \in now),
         e.key # b => (b \in now <=> b \in after)
  PROVE  Leads(b, before, Append(s, e), now)
<1> DEFINE t == Append(s, e)
<1>1. /\ t \in Seq(SomeEvent) /\ Len(t) = Len(s) + 1 /\ Len(s) \in Nat
      /\ DOMAIN t = 1 .. Len(s) + 1 /\ DOMAIN s = 1 .. Len(s)
      /\ \A k \in 1 .. Len(s) : t[k] = s[k]
      /\ t[Len(s) + 1] = e
  OBVIOUS
<1> HIDE DEF t
<1>2. CASE e.key = b
  <2>1. \A j \in DOMAIN t : j > Len(s) + 1 => t[j].key # b
    BY <1>1
  <2>2. QED BY <1>1, <1>2, <2>1 DEF Leads, t
<1>3. CASE e.key # b
  <2>1. CASE (\A k \in DOMAIN s : s[k].key # b) /\ (b \in before <=> b \in after)
    <3>1. \A k \in DOMAIN t : t[k].key # b
      BY <1>1, <1>3, <2>1
    <3>2. QED BY <1>3, <2>1, <3>1 DEF Leads, t
  <2>2. ASSUME NEW k \in DOMAIN s, s[k].key = b,
               \A j \in DOMAIN s : j > k => s[j].key # b,
               s[k].pressed = 1 <=> b \in after
        PROVE  Leads(b, before, t, now)
    <3>1. k \in DOMAIN t /\ t[k] = s[k]
      BY <1>1, <2>2
    <3>2. \A j \in DOMAIN t : j > k => t[j].key # b
      BY <1>1, <1>3, <2>2
    <3>3. t[k].pressed = 1 <=> b \in now
      BY <1>3, <2>2, <3>1
    <3>4. QED BY <2>2, <3>1, <3>2, <3>3 DEF Leads
  <2>3. QED BY <2>1, <2>2 DEF Leads, t
<1>4. QED BY <1>2, <1>3

\* What the first event leaves down leads on by the other events.
LEMMA LeadsTail ==
  ASSUME NEW s \in Seq(SomeEvent), s # <<>>, NEW b, NEW before, NEW after,
         Leads(b, before, s, after)
  PROVE  Leads(b, Keys(before, Head(s)), Tail(s), after)
<1> DEFINE t == Tail(s)
           now == Keys(before, Head(s))
<1>1. /\ Len(s) \in Nat /\ DOMAIN t = 1 .. Len(s) - 1 /\ DOMAIN s = 1 .. Len(s) /\ 1 \in DOMAIN s
      /\ \A k \in DOMAIN t : k \in Nat /\ k + 1 \in DOMAIN s /\ t[k] = s[k + 1]
      /\ Head(s) = s[1]
  OBVIOUS
<1>2. s[1].key # b => (b \in now <=> b \in before)
  BY <1>1 DEF Keys
<1>3. s[1].key = b => (b \in now <=> s[1].pressed = 1)
  BY <1>1 DEF Keys
<1> HIDE DEF t, now
<1>4. CASE (\A k \in DOMAIN s : s[k].key # b) /\ (b \in before <=> b \in after)
  <2>1. (\A k \in DOMAIN t : t[k].key # b) /\ (b \in now <=> b \in after)
    BY <1>1, <1>2, <1>4
  <2>2. Leads(b, now, t, after)
    BY <2>1 DEF Leads
  <2>3. QED BY <2>2 DEF now, t
<1>5. ASSUME NEW k \in DOMAIN s, s[k].key = b,
             \A j \in DOMAIN s : j > k => s[j].key # b,
             s[k].pressed = 1 <=> b \in after
      PROVE  Leads(b, now, t, after)
  <2>1. CASE k = 1
    <3>1. \A j \in DOMAIN t : t[j].key # b
      BY <1>1, <1>5, <2>1
    <3>2. b \in now <=> b \in after
      BY <1>3, <1>5, <2>1
    <3>3. QED BY <3>1, <3>2 DEF Leads
  <2>2. CASE k # 1
    <3>1. k - 1 \in DOMAIN t /\ t[k - 1] = s[k]
      <4>1. k \in Nat /\ k >= 2 /\ k <= Len(s)
        BY <1>1, <2>2
      <4>2. k - 1 \in DOMAIN t /\ (k - 1) + 1 = k
        BY <1>1, <4>1
      <4>3. QED BY <1>1, <4>2
    <3>2. \A j \in DOMAIN t : j > k - 1 => t[j].key # b
      <4> SUFFICES ASSUME NEW j \in DOMAIN t, j > k - 1 PROVE t[j].key # b
        OBVIOUS
      <4>1. j + 1 \in DOMAIN s /\ t[j] = s[j + 1] /\ j + 1 > k
        BY <1>1
      <4>2. QED BY <1>5, <4>1
    <3>3. t[k - 1].key = b /\ (t[k - 1].pressed = 1 <=> b \in after)
      BY <1>5, <3>1
    <3>4. QED BY <3>1, <3>2, <3>3 DEF Leads
  <2>3. QED BY <2>1, <2>2
<1>6. QED BY <1>4, <1>5 DEF Leads, now, t

\* Where nothing is pending the keys told of are the keys led to.
LEMMA LeadsEmpty ==
  ASSUME NEW b, NEW before, NEW after, Leads(b, before, <<>>, after)
  PROVE  b \in before <=> b \in after
BY DEF Leads

\* One more event that changes the key keeps the changes alternating.
LEMMA AlternatesAppend ==
  ASSUME NEW s \in Seq(SomeEvent), NEW e \in SomeEvent,
         NEW b, NEW before, NEW after,
         Leads(b, before, s, after), Alternates(b, before, s),
         e.key = b => (e.pressed = 1 <=> b \notin after)
  PROVE  Alternates(b, before, Append(s, e))
<1> DEFINE t == Append(s, e)
<1>1. /\ Len(s) \in Nat /\ DOMAIN t = 1 .. Len(s) + 1 /\ DOMAIN s = 1 .. Len(s)
      /\ \A k \in 1 .. Len(s) : t[k] = s[k]
      /\ t[Len(s) + 1] = e
  OBVIOUS
<1> HIDE DEF t
<1> SUFFICES ASSUME NEW k \in DOMAIN t, t[k].key = b
             PROVE  \/ /\ \A j \in 1 .. k - 1 : t[j].key # b
                       /\ t[k].pressed = 1 <=> b \notin before
                    \/ \E j \in 1 .. k - 1 :
                         /\ t[j].key = b /\ t[j].pressed # t[k].pressed
                         /\ \A m \in j + 1 .. k - 1 : t[m].key # b
  BY DEF Alternates, t
<1>2. CASE k \in 1 .. Len(s)
  <2>1. \A j \in 1 .. k : t[j] = s[j]
    BY <1>1, <1>2
  <2>2. k \in DOMAIN s /\ s[k].key = b /\ t[k] = s[k]
    BY <1>1, <1>2
  <2>3. CASE (\A j \in 1 .. k - 1 : s[j].key # b) /\ (s[k].pressed = 1 <=> b \notin before)
    <3>1. \A j \in 1 .. k - 1 : t[j].key # b
      BY <1>1, <1>2, <2>1, <2>3
    <3>2. QED BY <2>2, <2>3, <3>1
  <2>4. ASSUME NEW j \in 1 .. k - 1, s[j].key = b, s[j].pressed # s[k].pressed,
               \A m \in j + 1 .. k - 1 : s[m].key # b
        PROVE  \E i \in 1 .. k - 1 : /\ t[i].key = b /\ t[i].pressed # t[k].pressed
                                     /\ \A m \in i + 1 .. k - 1 : t[m].key # b
    <3>1. t[j] = s[j]
      BY <1>1, <1>2, <2>1
    <3>2. \A m \in j + 1 .. k - 1 : t[m].key # b
      BY <1>1, <1>2, <2>1, <2>4
    <3>3. QED BY <2>2, <2>4, <3>1, <3>2
  <2>5. QED BY <2>2, <2>3, <2>4 DEF Alternates
<1>3. CASE k = Len(s) + 1
  <2>1. e.key = b /\ t[k] = e
    BY <1>1, <1>3
  <2>2. CASE (\A j \in DOMAIN s : s[j].key # b) /\ (b \in before <=> b \in after)
    <3>1. \A j \in 1 .. k - 1 : t[j].key # b
      BY <1>1, <1>3, <2>2
    <3>2. QED BY <2>1, <2>2, <3>1
  <2>3. ASSUME NEW j \in DOMAIN s, s[j].key = b,
               \A m \in DOMAIN s : m > j => s[m].key # b,
               s[j].pressed = 1 <=> b \in after
        PROVE  \E i \in 1 .. k - 1 : /\ t[i].key = b /\ t[i].pressed # t[k].pressed
                                     /\ \A m \in i + 1 .. k - 1 : t[m].key # b
    <3>1. j \in 1 .. k - 1 /\ t[j] = s[j]
      BY <1>1, <1>3
    <3>2. \A m \in j + 1 .. k - 1 : t[m].key # b
      BY <1>1, <1>3, <2>3
    <3>3. t[j].pressed # t[k].pressed
      BY <2>1, <2>3, <3>1
    <3>4. QED BY <2>3, <3>1, <3>2, <3>3
  <2>4. QED BY <2>2, <2>3 DEF Leads
<1>4. QED BY <1>1, <1>2, <1>3

\* Without the first event, which was a change, the others alternate still.
LEMMA AlternatesTail ==
  ASSUME NEW s \in Seq(SomeEvent), s # <<>>, NEW b, NEW before,
         Alternates(b, before, s)
  PROVE  Alternates(b, Keys(before, Head(s)), Tail(s))
<1> DEFINE t == Tail(s)
           now == Keys(before, Head(s))
<1>1. /\ Len(s) \in Nat /\ DOMAIN t = 1 .. Len(s) - 1 /\ DOMAIN s = 1 .. Len(s)
      /\ \A k \in DOMAIN t : k \in Nat /\ k + 1 \in DOMAIN s /\ t[k] = s[k + 1]
      /\ Head(s) = s[1]
  OBVIOUS
<1>0. \A k \in DOMAIN s : s[k].pressed \in {0, 1}
  <2>1. \A k \in DOMAIN s : s[k] \in SomeEvent
    OBVIOUS
  <2>2. QED BY <2>1 DEF SomeEvent
<1>2. s[1].key # b => (b \in now <=> b \in before)
  BY <1>1 DEF Keys
<1>3. s[1].key = b => (b \in now <=> s[1].pressed = 1)
  BY <1>1 DEF Keys
<1> HIDE DEF t, now
<1> SUFFICES ASSUME NEW k \in DOMAIN t, t[k].key = b
             PROVE  \/ /\ \A j \in 1 .. k - 1 : t[j].key # b
                       /\ t[k].pressed = 1 <=> b \notin now
                    \/ \E j \in 1 .. k - 1 :
                         /\ t[j].key = b /\ t[j].pressed # t[k].pressed
                         /\ \A m \in j + 1 .. k - 1 : t[m].key # b
  BY DEF Alternates, t, now
<1>4. k \in Nat /\ k >= 1 /\ k + 1 \in DOMAIN s /\ s[k + 1] = t[k] /\ (k + 1) - 1 = k
  BY <1>1
<1>5. \A j \in 1 .. k - 1 : j \in DOMAIN t /\ t[j] = s[j + 1] /\ j + 1 \in 2 .. k
  BY <1>1, <1>4
<1>6. CASE (\A j \in 1 .. (k + 1) - 1 : s[j].key # b) /\ (s[k + 1].pressed = 1 <=> b \notin before)
  <2>1. s[1].key # b /\ \A j \in 1 .. k - 1 : t[j].key # b
    <3>1. 1 \in 1 .. (k + 1) - 1 /\ \A j \in 1 .. k - 1 : j + 1 \in 1 .. (k + 1) - 1
      BY <1>4
    <3>2. s[1].key # b
      BY <1>6, <3>1
    <3>3. ASSUME NEW j \in 1 .. k - 1 PROVE t[j].key # b
      BY <1>5, <1>6, <3>1
    <3>4. QED BY <3>2, <3>3
  <2>2. QED BY <1>2, <1>4, <1>6, <2>1
<1>7. ASSUME NEW j \in 1 .. (k + 1) - 1, s[j].key = b, s[j].pressed # s[k + 1].pressed,
             \A m \in j + 1 .. (k + 1) - 1 : s[m].key # b
      PROVE  \/ /\ \A i \in 1 .. k - 1 : t[i].key # b
                /\ t[k].pressed = 1 <=> b \notin now
             \/ \E i \in 1 .. k - 1 :
                  /\ t[i].key = b /\ t[i].pressed # t[k].pressed
                  /\ \A m \in i + 1 .. k - 1 : t[m].key # b
  <2>1. j \in Nat /\ j >= 1 /\ j <= k
    BY <1>4
  <2>2. CASE j = 1
    <3>1. ASSUME NEW i \in 1 .. k - 1 PROVE t[i].key # b
      <4>1. i + 1 \in j + 1 .. (k + 1) - 1
        BY <1>4, <2>2
      <4>2. QED BY <1>5, <1>7, <4>1
    <3>2. s[1].pressed \in {0, 1} /\ t[k].pressed \in {0, 1} /\ s[1].pressed # t[k].pressed
      BY <1>0, <1>1, <1>4, <1>7, <2>2
    <3>3. t[k].pressed = 1 <=> b \notin now
      BY <1>3, <1>7, <2>2, <3>2
    <3>4. QED BY <3>1, <3>3
  <2>3. CASE j # 1
    <3>1. j - 1 \in 1 .. k - 1 /\ (j - 1) + 1 = j
      BY <1>4, <2>1, <2>3
    <3>2. t[j - 1] = s[j]
      BY <1>5, <3>1
    <3>3. \A m \in (j - 1) + 1 .. k - 1 : t[m].key # b
      <4> SUFFICES ASSUME NEW m \in j .. k - 1 PROVE t[m].key # b
        BY <3>1
      <4>1. m \in 1 .. k - 1 /\ m + 1 \in j + 1 .. (k + 1) - 1
        BY <1>4, <2>1
      <4>2. QED BY <1>5, <1>7, <4>1
    <3>4. t[j - 1].key = b /\ t[j - 1].pressed # t[k].pressed
      BY <1>4, <1>7, <3>2
    <3>5. QED BY <3>1, <3>3, <3>4
  <2>4. QED BY <2>2, <2>3
<1>8. QED BY <1>4, <1>6, <1>7 DEF Alternates
\* What is put behind the second queue is behind both.
LEMMA AppendBehind ==
  ASSUME NEW s \in Seq(SomeEvent), NEW t \in Seq(SomeEvent), NEW e \in SomeEvent
  PROVE  s \o Append(t, e) = Append(s \o t, e)
<1>1. Append(t, e) \in Seq(SomeEvent) /\ Len(Append(t, e)) = Len(t) + 1
  OBVIOUS
<1>2. s \o t \in Seq(SomeEvent) /\ Len(s \o t) = Len(s) + Len(t)
  BY ConcatProperties
<1>3. Append(s \o t, e) \in Seq(SomeEvent) /\ Len(Append(s \o t, e)) = Len(s) + Len(t) + 1
  BY <1>2
<1>4. s \o Append(t, e) \in Seq(SomeEvent) /\ Len(s \o Append(t, e)) = Len(s) + Len(t) + 1
  BY <1>1, ConcatProperties
<1>5. ASSUME NEW k \in 1 .. Len(s) + Len(t) + 1
      PROVE  (s \o Append(t, e))[k] = Append(s \o t, e)[k]
  <2>1. (s \o Append(t, e))[k] = IF k <= Len(s) THEN s[k] ELSE Append(t, e)[k - Len(s)]
    BY <1>1, ConcatProperties
  <2>2. CASE k <= Len(s) + Len(t)
    <3>1. Append(s \o t, e)[k] = (s \o t)[k]
      BY <1>2, <2>2
    <3>2. (s \o t)[k] = IF k <= Len(s) THEN s[k] ELSE t[k - Len(s)]
      BY <2>2, ConcatProperties
    <3>3. k > Len(s) => Append(t, e)[k - Len(s)] = t[k - Len(s)]
      BY <2>2
    <3>4. QED BY <2>1, <3>1, <3>2, <3>3
  <2>3. CASE k = Len(s) + Len(t) + 1
    <3>1. Append(s \o t, e)[k] = e
      BY <1>2, <2>3
    <3>2. Append(t, e)[k - Len(s)] = e /\ k > Len(s)
      BY <2>3
    <3>3. QED BY <2>1, <3>1, <3>2
  <2>4. QED BY <2>2, <2>3
<1>6. QED BY <1>3, <1>4, <1>5, SeqEqual

\* An event that moves from the head of one queue to the end of the queue
\* before it stays where it is among all events.
LEMMA MoveOne ==
  ASSUME NEW s \in Seq(SomeEvent), NEW t \in Seq(SomeEvent), t # <<>>
  PROVE  Append(s, Head(t)) \o Tail(t) = s \o t
<1>1. /\ Head(t) \in SomeEvent /\ Tail(t) \in Seq(SomeEvent) /\ Len(Tail(t)) = Len(t) - 1
      /\ Len(t) \in Nat /\ Len(t) >= 1 /\ Len(s) \in Nat
      /\ \A k \in 1 .. Len(t) - 1 : Tail(t)[k] = t[k + 1]
      /\ Head(t) = t[1]
  OBVIOUS
<1>2. Append(s, Head(t)) \in Seq(SomeEvent) /\ Len(Append(s, Head(t))) = Len(s) + 1
  BY <1>1
<1>3. /\ Append(s, Head(t)) \o Tail(t) \in Seq(SomeEvent)
      /\ Len(Append(s, Head(t)) \o Tail(t)) = Len(s) + Len(t)
  BY <1>1, <1>2, ConcatProperties
<1>4. s \o t \in Seq(SomeEvent) /\ Len(s \o t) = Len(s) + Len(t)
  BY ConcatProperties
<1>5. ASSUME NEW k \in 1 .. Len(s) + Len(t)
      PROVE  (Append(s, Head(t)) \o Tail(t))[k] = (s \o t)[k]
  <2>1. (s \o t)[k] = IF k <= Len(s) THEN s[k] ELSE t[k - Len(s)]
    BY ConcatProperties
  <2>2. (Append(s, Head(t)) \o Tail(t))[k] =
          IF k <= Len(s) + 1 THEN Append(s, Head(t))[k] ELSE Tail(t)[k - (Len(s) + 1)]
    BY <1>1, <1>2, ConcatProperties
  <2>3. CASE k <= Len(s)
    <3>1. Append(s, Head(t))[k] = s[k]
      BY <1>1, <2>3
    <3>2. QED BY <1>1, <2>1, <2>2, <2>3, <3>1
  <2>4. CASE k = Len(s) + 1
    <3>1. Append(s, Head(t))[k] = t[1] /\ k - Len(s) = 1 /\ ~(k <= Len(s)) /\ k <= Len(s) + 1
      BY <1>1, <2>4
    <3>2. QED BY <2>1, <2>2, <3>1
  <2>5. CASE k > Len(s) + 1
    <3>1. /\ Tail(t)[k - (Len(s) + 1)] = t[(k - (Len(s) + 1)) + 1]
          /\ (k - (Len(s) + 1)) + 1 = k - Len(s)
          /\ ~(k <= Len(s)) /\ ~(k <= Len(s) + 1)
      BY <1>1, <2>5
    <3>2. QED BY <2>1, <2>2, <3>1
  <2>6. QED BY <1>1, <2>3, <2>4, <2>5
<1>6. QED BY <1>3, <1>4, <1>5, SeqEqual

-----------------------------------------------------------------------------
(* What is on its way. *)

\* The queues hold events, and so do both together.
LEMMA EventTypes ==
  TypeOK => /\ events \in Seq(SomeEvent) /\ g_queue \in Seq(SomeEvent)
            /\ Pending \in Seq(SomeEvent)
<1> SUFFICES ASSUME TypeOK PROVE /\ events \in Seq(SomeEvent) /\ g_queue \in Seq(SomeEvent)
                                 /\ Pending \in Seq(SomeEvent)
  OBVIOUS
<1>1. KeyEvent \subseteq SomeEvent /\ OtherEvent \in SomeEvent
  BY UplinkAssumption DEF KeyEvent, SomeEvent, Key, OtherEvent, Event
<1>2. events \in Seq(SomeEvent)
  BY <1>1, SeqMonotonic DEF TypeOK
<1>3. g_queue \in Seq(SomeEvent)
  BY <1>1, SeqMonotonic DEF TypeOK
<1>4. QED BY <1>2, <1>3, ConcatProperties DEF Pending

\* The last packet compared, place by place.
LEMMA TargetIs ==
  \A b : b \in Target <=> /\ b \in Bit
                          /\ b \in (IF pc = "bits" /\ b < bit THEN pkt ELSE g_prev_bitfield).held
BY DEF Target

\* A step that changes neither the events on their way nor what they lead
\* to leaves the invariant about them.
LEMMA Aside ==
  ASSUME PendingInv, LastInv, UNCHANGED <<seen, last, lost>>,
         Pending' = Pending, Target' = Target
  PROVE  PendingInv' /\ LastInv'
<1>1. PendingInv'
  BY DEF PendingInv
<1>2. LastInv'
  BY DEF LastInv
<1>3. QED BY <1>1, <1>2

\* An event that says how its key changes, put behind all others.
LEMMA Behind ==
  ASSUME TypeOK, PendingInv, NEW e \in SomeEvent,
         lost' = 0 => lost = 0 /\ Pending' = Append(Pending, e), seen' = seen,
         e.key \in Bit => /\ e.key \in Target' <=> e.pressed = 1
                          /\ e.key \in Target <=> e.pressed # 1,
         \A b \in Bit : b # e.key => (b \in Target' <=> b \in Target)
  PROVE  PendingInv'
<1> SUFFICES ASSUME lost' = 0, NEW b \in Bit
             PROVE  Leads(b, seen', Pending', Target') /\ Alternates(b, seen', Pending')
  BY DEF PendingInv
<1>1. Leads(b, seen, Pending, Target) /\ Alternates(b, seen, Pending)
  BY DEF PendingInv
<1>2. Pending \in Seq(SomeEvent)
  BY EventTypes
<1>3. e.key = b => (e.pressed = 1 <=> b \in Target') /\ (e.pressed = 1 <=> b \notin Target)
  OBVIOUS
<1>4. e.key # b => (b \in Target' <=> b \in Target)
  OBVIOUS
<1> DEFINE now == Target'
<1> HIDE DEF now
<1>5. Leads(b, seen, Append(Pending, e), now)
  BY <1>1, <1>2, <1>3, <1>4, LeadsAppend DEF now
<1>6. Alternates(b, seen, Append(Pending, e))
  BY <1>1, <1>2, <1>3, AlternatesAppend
<1>7. QED BY <1>5, <1>6 DEF now

\* Enqueueing the change of a key, or the press of a weapon key.
LEMMA EnqueueInv ==
  ASSUME TypeOK, PendingInv, LastInv, NEW e \in KeyEvent, Enqueue(e),
         UNCHANGED <<seen, events>>,
         e.key \in Bit => /\ e.key \in Target' <=> e.pressed = 1
                          /\ e.key \in Target <=> e.pressed # 1,
         \A b \in Bit : b # e.key => (b \in Target' <=> b \in Target)
  PROVE  PendingInv' /\ LastInv'
<1>1. CASE Repeats(e) /\ UNCHANGED <<queue, lost>>
  <2>1. CASE lost = 0
    <3>1. e.key \notin Bit
      BY <1>1, <2>1 DEF LastInv, Repeats
    <3>2. Target' = Target
      BY <3>1 DEF Target
    <3>3. Pending' = Pending
      BY <1>1 DEF Pending, queue
    <3>4. QED BY <1>1, <3>2, <3>3, Aside DEF queue
  <2>2. CASE lost # 0
    BY <1>1, <2>2 DEF PendingInv, LastInv
  <2>3. QED BY <2>1, <2>2
<1>2. CASE lost' = 1
  BY <1>2 DEF PendingInv, LastInv
<1>3. CASE g_queue' = Append(g_queue, e) /\ last' = e /\ UNCHANGED lost
  <2>1. e \in SomeEvent
    BY UplinkAssumption DEF KeyEvent, SomeEvent, Key
  <2>2. Pending' = Append(Pending, e)
    BY <1>3, <2>1, EventTypes, AppendBehind DEF Pending
  <2>3. PendingInv'
    BY <1>3, <2>1, <2>2, Behind
  <2>4. LastInv'
    BY <1>3 DEF LastInv
  <2>5. QED BY <2>3, <2>4
<1>4. QED BY <1>1, <1>2, <1>3 DEF Enqueue

\* An event from elsewhere, when the key queue is empty.
LEMMA OtherInputInv ==
  ASSUME TypeOK, PendingInv, LastInv, OtherInput, g_queue = <<>>,
         UNCHANGED <<queue, seen>>, Target' = Target
  PROVE  PendingInv' /\ LastInv'
<1>1. CASE UNCHANGED <<events, lost>>
  <2>1. Pending' = Pending
    BY <1>1 DEF Pending, queue
  <2>2. QED BY <1>1, <2>1, Aside DEF queue
<1>2. CASE Post(OtherEvent)
  <2>1. OtherEvent \in SomeEvent /\ OtherEvent.key \notin Bit
    BY DEF OtherEvent, Event, SomeEvent, Bit
  <2>2. events \in Seq(SomeEvent) /\ Append(events, OtherEvent) \in Seq(SomeEvent)
    BY <2>1, EventTypes
  <2>3. ASSUME lost' = 0 PROVE lost = 0 /\ Pending' = Append(Pending, OtherEvent)
    <3>1. lost = 0 /\ events' = Append(events, OtherEvent)
      BY <1>2, <2>3 DEF Post, Posted
    <3>2. Pending = events /\ Pending' = events'
      <4>1. events' \in Seq(SomeEvent) /\ g_queue' = <<>>
        BY <2>2, <3>1 DEF queue
      <4>2. QED BY <2>2, <4>1, ConcatEmptySeq DEF Pending
    <3>3. QED BY <3>1, <3>2
  <2>4. PendingInv'
    BY <2>1, <2>3, Behind
  <2>5. LastInv'
    BY <1>2 DEF LastInv, Post, queue
  <2>6. QED BY <2>4, <2>5
<1>3. QED BY <1>1, <1>2 DEF OtherInput
-----------------------------------------------------------------------------
(* The invariant. *)

\* It holds when the thread begins.
LEMMA InvInit == Init => IInv
<1> SUFFICES ASSUME Init PROVE IInv
  OBVIOUS
<1>1. TypeOK
  BY UplinkAssumption DEF Init, TypeOK, Silent, Packet
<1>2. Pending = <<>>
  BY ConcatEmptySeq, EmptySeq DEF Init, Pending
<1>3. Target = {} /\ seen = {} /\ last.key = 0
  BY DEF Init, Target, Silent, OtherEvent, Event
<1>4. PendingInv
  <2>1. \A b \in Bit : Leads(b, {}, <<>>, {}) /\ Alternates(b, {}, <<>>)
    BY DEF Leads, Alternates
  <2>2. QED BY <1>2, <1>3, <2>1 DEF PendingInv
<1>5. LastInv
  BY <1>3 DEF LastInv, Bit
<1>6. EmptyInv /\ HeldInv
  BY DEF Init, EmptyInv, HeldInv
<1>7. QED BY <1>1, <1>4, <1>5, <1>6 DEF IInv

\* The two queues keep their types and their bounds.
LEMMA PostTypes ==
  ASSUME TypeOK, NEW e \in KeyEvent \cup {OtherEvent}, Post(e)
  PROVE  /\ events' \in Seq(KeyEvent \cup {OtherEvent}) /\ Len(events') < MAXEVENTS
         /\ lost' \in {0, 1}
<1>1. CASE Len(events) = MAXEVENTS - 1
  BY <1>1, UplinkAssumption DEF TypeOK, Post, Posted
<1>2. CASE Len(events) # MAXEVENTS - 1
  <2>1. /\ Append(events, e) \in Seq(KeyEvent \cup {OtherEvent})
        /\ Len(Append(events, e)) = Len(events) + 1 /\ Len(events) \in Nat
    BY DEF TypeOK
  <2>2. Len(events) + 1 < MAXEVENTS
    BY <1>2, <2>1, UplinkAssumption DEF TypeOK
  <2>3. QED BY <1>2, <2>1, <2>2 DEF TypeOK, Post, Posted
<1>3. QED BY <1>1, <1>2

LEMMA OtherInputTypes ==
  ASSUME TypeOK, OtherInput
  PROVE  /\ events' \in Seq(KeyEvent \cup {OtherEvent}) /\ Len(events') < MAXEVENTS
         /\ lost' \in {0, 1}
<1>1. CASE UNCHANGED <<events, lost>>
  BY <1>1 DEF TypeOK
<1>2. CASE Post(OtherEvent)
  BY <1>2, PostTypes
<1>3. QED BY <1>1, <1>2 DEF OtherInput

LEMMA EnqueueTypes ==
  ASSUME TypeOK, NEW e \in KeyEvent, Enqueue(e)
  PROVE  /\ g_queue' \in Seq(KeyEvent) /\ Len(g_queue') < KEY_QUEUE_SIZE
         /\ last' \in KeyEvent \cup {OtherEvent} /\ fresh' \in {0, 1} /\ lost' \in {0, 1}
<1>1. CASE UNCHANGED <<g_queue, last, fresh>> /\ lost' \in {lost, 1}
  BY <1>1 DEF TypeOK
<1>2. CASE /\ Len(g_queue) < KEY_QUEUE_SIZE - 1 /\ g_queue' = Append(g_queue, e)
           /\ last' = e /\ fresh' = 1 /\ UNCHANGED lost
  <2>1. /\ Append(g_queue, e) \in Seq(KeyEvent)
        /\ Len(Append(g_queue, e)) = Len(g_queue) + 1 /\ Len(g_queue) \in Nat
    BY DEF TypeOK
  <2>2. QED BY <1>2, <2>1, UplinkAssumption DEF TypeOK
<1>3. QED BY <1>1, <1>2 DEF Enqueue, queue

\* I_StartTic.
LEMMA StartTicInv == IInv /\ StartTic => IInv'
<1> SUFFICES ASSUME IInv, StartTic PROVE IInv'
  OBVIOUS
<1> USE DEF IInv
<1>1. pc = "tic" /\ pc' = "recv" /\ OtherInput /\ UNCHANGED <<pkt, bit, g_prev_bitfield, queue, game>>
  BY DEF StartTic
<1>2. TypeOK'
  BY <1>1, OtherInputTypes DEF TypeOK, queue, game
<1>3. Target' = Target
  BY <1>1 DEF Target
<1>4. PendingInv' /\ LastInv'
  BY <1>1, <1>3, OtherInputInv DEF EmptyInv, game
<1>5. EmptyInv' /\ HeldInv'
  BY <1>1 DEF EmptyInv, HeldInv, game
<1>6. QED BY <1>2, <1>4, <1>5

\* recvfrom.
LEMMA RecvInv == ASSUME IInv, NEW p \in Packet, Recv(p) PROVE IInv'
<1> USE DEF IInv
<1>1. TypeOK'
  BY UplinkAssumption DEF TypeOK, Recv, queue, game
<1>2. Target' = Target
  BY UplinkAssumption DEF Target, Recv, Bit
<1>3. Pending' = Pending /\ UNCHANGED <<seen, last, lost>>
  BY DEF Pending, Recv, queue, game
<1>4. PendingInv' /\ LastInv'
  BY <1>2, <1>3, Aside
<1>5. EmptyInv' /\ HeldInv'
  BY DEF EmptyInv, HeldInv, Recv, game
<1>6. QED BY <1>1, <1>4, <1>5

\* One bit: what is enqueued is its change.
LEMMA process_bitInv == IInv /\ process_bit => IInv'
<1> SUFFICES ASSUME IInv, process_bit PROVE IInv'
  OBVIOUS
<1> USE DEF IInv
<1> DEFINE cur == AsBool(bit \in pkt.held)
           prev == AsBool(bit \in g_prev_bitfield.held)
           e == Event(bit, cur)
<1>1. /\ pc = "bits" /\ bit \in Bit /\ bit' = bit + 1
      /\ IF cur # prev THEN Enqueue(e) ELSE UNCHANGED <<queue, lost>>
      /\ UNCHANGED <<pc, pkt, g_prev_bitfield, events, game>>
  BY DEF process_bit
<1>2. cur \in {0, 1} /\ e \in KeyEvent /\ e.key = bit /\ e.pressed = cur
  <2>1. bit \in Key
    BY <1>1, UplinkAssumption DEF Bit, Key
  <2>2. cur \in {0, 1}
    BY DEF AsBool
  <2>3. QED BY <2>1, <2>2 DEF Event, KeyEvent
<1>3. bit \in Target' <=> cur = 1
  <2>1. bit \in Target' <=> bit \in pkt.held
    BY <1>1, UplinkAssumption DEF Target, Bit
  <2>2. QED BY <2>1 DEF AsBool
<1>4. bit \in Target <=> prev = 1
  <2>1. bit \in Target <=> bit \in g_prev_bitfield.held
    BY <1>1, UplinkAssumption DEF Target, Bit
  <2>2. QED BY <2>1 DEF AsBool
<1>5. ASSUME NEW b \in Bit, b # bit PROVE b \in Target' <=> b \in Target
  <2>1. b < bit + 1 <=> b < bit
    BY <1>1, <1>5, UplinkAssumption DEF Bit
  <2>2. QED BY <1>1, <2>1 DEF Target
<1>6. cur # prev => (prev = 1 <=> cur # 1)
  BY DEF AsBool
<1> HIDE DEF cur, prev, e
<1>7. EmptyInv' /\ HeldInv' /\ seen' = seen
  BY <1>1 DEF EmptyInv, HeldInv, game
<1>8. bit' \in 1 .. NumKeys + 1
  BY <1>1, UplinkAssumption DEF Bit
<1>9. CASE cur # prev
  <2>1. TypeOK'
    BY <1>1, <1>2, <1>8, <1>9, EnqueueTypes DEF TypeOK, game
  <2>2. PendingInv' /\ LastInv'
    BY <1>1, <1>2, <1>3, <1>4, <1>5, <1>6, <1>7, <1>9, EnqueueInv
  <2>3. QED BY <1>7, <2>1, <2>2
<1>10. CASE cur = prev
  <2>1. TypeOK'
    BY <1>1, <1>8, <1>10 DEF TypeOK, game, queue
  <2>2. Target' = Target
    <3>1. \A b \in Bit : b \in Target' <=> b \in Target
      BY <1>3, <1>4, <1>5, <1>10
    <3>2. Target' \subseteq Bit /\ Target \subseteq Bit
      BY UplinkAssumption DEF Target, Bit
    <3>3. QED BY <3>1, <3>2
  <2>3. PendingInv' /\ LastInv'
    <3>1. Pending' = Pending /\ UNCHANGED <<last, lost>>
      BY <1>1, <1>10 DEF Pending, queue
    <3>2. QED BY <1>7, <2>2, <3>1, Aside
  <2>4. QED BY <1>7, <2>1, <2>3
<1>11. QED BY <1>9, <1>10

\* The end of a packet: all of its bits were compared.
LEMMA process_weaponInv == IInv /\ process_weapon => IInv'
<1> SUFFICES ASSUME IInv, process_weapon PROVE IInv'
  OBVIOUS
<1> USE DEF IInv
<1> DEFINE new == pkt.weapon > 0 /\ pkt.weapon # g_prev_bitfield.weapon
           e == Event(WeaponKey(pkt.weapon), 1)
<1>1. /\ pc = "bits" /\ bit = NumKeys + 1 /\ pc' = "recv"
      /\ g_prev_bitfield' = pkt /\ pkt' = Silent /\ bit' = 1
      /\ IF new THEN Enqueue(e) ELSE UNCHANGED <<queue, lost>>
      /\ UNCHANGED <<events, game>>
  BY DEF process_weapon
<1>2. Target' = Target
  <2>1. \A b \in Bit : b < bit
    BY <1>1, UplinkAssumption DEF Bit
  <2>2. QED BY <1>1, <2>1 DEF Target
<1>3. pkt.weapon \in 0 .. NumWeapons
  BY DEF TypeOK, Packet
<1>4. new => e \in KeyEvent /\ e.key \notin Bit
  BY <1>3, UplinkAssumption DEF KeyEvent, Event, WeaponKey, Key, Bit
<1> HIDE DEF new, e
<1>5. EmptyInv' /\ HeldInv' /\ seen' = seen
  BY <1>1 DEF EmptyInv, HeldInv, game
<1>6. Silent \in Packet /\ 1 \in 1 .. NumKeys + 1
  BY UplinkAssumption DEF Silent, Packet
<1>7. CASE new
  <2>1. TypeOK'
    BY <1>1, <1>4, <1>6, <1>7, EnqueueTypes DEF TypeOK, game
  <2>2. PendingInv' /\ LastInv'
    BY <1>1, <1>2, <1>4, <1>5, <1>7, EnqueueInv
  <2>3. QED BY <1>5, <2>1, <2>2
<1>8. CASE ~new
  <2>1. TypeOK'
    BY <1>1, <1>6, <1>8 DEF TypeOK, game, queue
  <2>2. Pending' = Pending /\ UNCHANGED <<last, lost>>
    BY <1>1, <1>8 DEF Pending, queue
  <2>3. PendingInv' /\ LastInv'
    BY <1>2, <1>5, <2>2, Aside
  <2>4. QED BY <1>5, <2>1, <2>3
<1>9. QED BY <1>7, <1>8

\* uplink_pop_key and D_PostEvent.
LEMMA PopAndPostInv == IInv /\ PopAndPost => IInv'
<1> SUFFICES ASSUME IInv, PopAndPost PROVE IInv'
  OBVIOUS
<1> USE DEF IInv
<1>1. /\ pc = "pop" /\ g_queue # <<>> /\ g_queue' = Tail(g_queue) /\ Post(Head(g_queue))
      /\ UNCHANGED <<pc, pkt, bit, g_prev_bitfield, last, fresh, game>>
  BY DEF PopAndPost
<1>2. /\ Head(g_queue) \in KeyEvent /\ Tail(g_queue) \in Seq(KeyEvent)
      /\ Len(Tail(g_queue)) < KEY_QUEUE_SIZE
  BY <1>1, UplinkAssumption DEF TypeOK
<1>3. TypeOK'
  BY <1>1, <1>2, PostTypes DEF TypeOK, game
<1>4. EmptyInv' /\ HeldInv' /\ seen' = seen /\ Target' = Target
  BY <1>1 DEF EmptyInv, HeldInv, Target, game
<1>5. lost' = 0 => lost = 0 /\ Pending' = Pending
  <2> SUFFICES ASSUME lost' = 0 PROVE lost = 0 /\ Pending' = Pending
    OBVIOUS
  <2>1. lost = 0 /\ events' = Append(events, Head(g_queue))
    BY <1>1 DEF Post, Posted
  <2>2. QED BY <1>1, <2>1, EventTypes, MoveOne DEF Pending
<1>6. PendingInv' /\ LastInv'
  <2>1. CASE lost' = 0
    <3>1. UNCHANGED <<seen, last, lost>> /\ Pending' = Pending
      BY <1>1, <1>4, <1>5, <2>1
    <3>2. QED BY <1>4, <3>1, Aside
  <2>2. CASE lost' # 0
    BY <2>2 DEF PendingInv, LastInv
  <2>3. QED BY <2>1, <2>2
<1>7. QED BY <1>3, <1>4, <1>6

\* The key queue is empty.
LEMMA PopEndsInv == IInv /\ PopEnds => IInv'
<1> SUFFICES ASSUME IInv, PopEnds PROVE IInv'
  OBVIOUS
<1> USE DEF IInv
<1>1. /\ pc = "pop" /\ g_queue = <<>> /\ pc' = "respond" /\ OtherInput
      /\ UNCHANGED <<pkt, bit, g_prev_bitfield, queue, game>>
  BY DEF PopEnds
<1>2. TypeOK'
  BY <1>1, OtherInputTypes DEF TypeOK, queue, game
<1>3. Target' = Target
  BY <1>1 DEF Target
<1>4. PendingInv' /\ LastInv'
  BY <1>1, <1>3, OtherInputInv DEF game
<1>5. EmptyInv' /\ HeldInv'
  BY <1>1 DEF EmptyInv, HeldInv, game, queue
<1>6. QED BY <1>2, <1>4, <1>5

\* D_ProcessEvents: the engine is told of the event that is at the head.
LEMMA RespondInv == ASSUME IInv, NEW eaten \in BOOLEAN, Respond(eaten) PROVE IInv'
<1> USE DEF IInv
<1> DEFINE e == Head(events)
<1>1. /\ pc = "respond" /\ events # <<>> /\ events' = Tail(events)
      /\ eaten => e.pressed = 1 \/ demo = 1
      /\ gamekeydown' = IF eaten THEN gamekeydown ELSE Keys(gamekeydown, e)
      /\ seen' = Keys(seen, e)
      /\ selected' = IF e.key > NumKeys /\ ~eaten THEN e.key - NumKeys ELSE selected
      /\ UNCHANGED <<pc, pkt, bit, g_prev_bitfield, queue, demo, lost>>
  BY DEF Respond
<1>2. /\ e \in KeyEvent \cup {OtherEvent} /\ Tail(events) \in Seq(KeyEvent \cup {OtherEvent})
      /\ Len(Tail(events)) < MAXEVENTS
  BY <1>1, UplinkAssumption DEF TypeOK
<1>3. TypeOK'
  <2>1. \/ e.key \in Key
        \/ e.key = 0 /\ e.pressed = 0
    BY <1>2 DEF KeyEvent, OtherEvent, Event
  <2>2. seen' \subseteq Key /\ gamekeydown' \subseteq Key
    BY <1>1, <2>1 DEF TypeOK, Keys
  <2>3. selected' \in 0 .. NumWeapons
    BY <1>1, <2>1, UplinkAssumption DEF TypeOK, Key
  <2>4. QED BY <1>1, <1>2, <2>2, <2>3 DEF TypeOK, queue
<1>4. EmptyInv'
  BY <1>1 DEF EmptyInv, queue
<1>5. HeldInv'
  <2> SUFFICES ASSUME demo' = 0 PROVE gamekeydown' \cap Bit \subseteq seen'
    BY DEF HeldInv
  <2>1. gamekeydown \cap Bit \subseteq seen /\ demo = 0
    BY <1>1 DEF HeldInv
  <2>2. CASE e.pressed = 1
    BY <1>1, <2>1, <2>2 DEF Keys
  <2>3. CASE e.pressed # 1
    BY <1>1, <2>1, <2>3 DEF Keys
  <2>4. QED BY <2>2, <2>3
<1>6. Target' = Target
  BY <1>1 DEF Target
<1>7. LastInv'
  BY <1>1, <1>6 DEF LastInv, queue
<1>8. PendingInv'
  <2> SUFFICES ASSUME lost = 0, NEW b \in Bit
               PROVE  Leads(b, seen', Pending', Target') /\ Alternates(b, seen', Pending')
    BY <1>1 DEF PendingInv
  <2>1. g_queue = <<>> /\ g_queue' = <<>>
    BY <1>1 DEF EmptyInv, queue
  <2>2. events \in Seq(SomeEvent) /\ Tail(events) \in Seq(SomeEvent)
    BY <1>1, EventTypes
  <2>3. Pending = events /\ Pending' = Tail(events)
    BY <1>1, <2>1, <2>2, ConcatEmptySeq DEF Pending
  <2>4. Leads(b, seen, events, Target) /\ Alternates(b, seen, events)
    BY <2>3 DEF PendingInv
  <2>5. /\ Leads(b, Keys(seen, e), Tail(events), Target)
        /\ Alternates(b, Keys(seen, e), Tail(events))
    BY <1>1, <2>2, <2>4, LeadsTail, AlternatesTail
  <2>6. QED BY <1>1, <1>6, <2>3, <2>5
<1>9. QED BY <1>3, <1>4, <1>5, <1>7, <1>8

\* The other steps leave the events where they are.
LEMMA QuietInv ==
  ASSUME IInv, PollEnds \/ RespondEnds \/ LoadLevel \/ TitleScreen \/ DedupExpires
  PROVE  IInv'
<1> USE DEF IInv
<1>1. UNCHANGED <<pkt, bit, g_prev_bitfield, g_queue, last, events, seen, lost>>
  BY DEF PollEnds, RespondEnds, LoadLevel, TitleScreen, DedupExpires, queue, game
<1>2. pc' = pc \/ (pc = "recv" /\ pc' = "pop") \/ (pc = "respond" /\ events = <<>> /\ pc' = "tic")
  BY DEF PollEnds, RespondEnds, LoadLevel, TitleScreen, DedupExpires
<1>3. \/ UNCHANGED game
      \/ UNCHANGED selected /\ demo' \in {0, 1} /\ (gamekeydown' = {} \/ (gamekeydown' = gamekeydown /\ demo' = 1))
  BY DEF PollEnds, RespondEnds, LoadLevel, TitleScreen, DedupExpires, game
<1>4. fresh' \in {0, 1}
  BY DEF PollEnds, RespondEnds, LoadLevel, TitleScreen, DedupExpires, queue, TypeOK
<1>5. TypeOK'
  BY <1>1, <1>2, <1>3, <1>4 DEF TypeOK, game
<1>6. Target' = Target /\ Pending' = Pending
  BY <1>1, <1>2 DEF Target, Pending
<1>7. PendingInv' /\ LastInv'
  BY <1>1, <1>6, Aside
<1>8. EmptyInv'
  BY <1>1, <1>2 DEF EmptyInv
<1>9. HeldInv'
  BY <1>1, <1>3 DEF HeldInv, game
<1>10. QED BY <1>5, <1>7, <1>8, <1>9

-----------------------------------------------------------------------------
(* The theorems. *)

\* The inductive invariant: what is on its way leads to the last packet.
THEOREM Invariance == Spec => []IInv
<1>1. Init => IInv
  BY InvInit
<1>2. IInv /\ [Next]_vars => IInv'
  <2> SUFFICES ASSUME IInv, [Next]_vars PROVE IInv'
    OBVIOUS
  <2>1. CASE StartTic
    BY <2>1, StartTicInv
  <2>2. ASSUME NEW p \in Packet, Recv(p) PROVE IInv'
    BY <2>2, RecvInv
  <2>3. CASE process_bit
    BY <2>3, process_bitInv
  <2>4. CASE process_weapon
    BY <2>4, process_weaponInv
  <2>5. CASE PopAndPost
    BY <2>5, PopAndPostInv
  <2>6. CASE PopEnds
    BY <2>6, PopEndsInv
  <2>7. ASSUME NEW eaten \in BOOLEAN, Respond(eaten) PROVE IInv'
    BY <2>7, RespondInv
  <2>8. CASE PollEnds \/ RespondEnds \/ LoadLevel \/ TitleScreen \/ DedupExpires
    BY <2>8, QuietInv
  <2>9. CASE UNCHANGED vars
    <3>1. UNCHANGED <<pc, pkt, bit, g_prev_bitfield, g_queue, last, fresh, events, demo,
                      gamekeydown, seen, selected, lost>>
      BY <2>9 DEF vars, queue, game
    <3>2. TypeOK' /\ EmptyInv' /\ HeldInv'
      BY <3>1 DEF IInv, TypeOK, EmptyInv, HeldInv
    <3>3. Target' = Target /\ Pending' = Pending
      BY <3>1 DEF Target, Pending
    <3>4. QED BY <3>1, <3>2, <3>3, Aside DEF IInv
  <2>10. QED
    BY <2>1, <2>2, <2>3, <2>4, <2>5, <2>6, <2>7, <2>8, <2>9 DEF Next
<1>3. QED BY <1>1, <1>2, PTL DEF Spec

\* Every variable keeps its type, and neither queue exceeds its array.
THEOREM TypeCorrect == Spec => []TypeOK
<1>1. IInv => TypeOK
  BY DEF IInv
<1>2. QED BY <1>1, Invariance, PTL

\* Between two tics nothing is on its way, so the engine was told of the
\* keys of the last packet.
LEMMA TicMeans == IInv => EngineFollowsPackets
<1> SUFFICES ASSUME IInv, pc = "tic", lost = 0 PROVE seen \cap Bit = g_prev_bitfield.held
  BY DEF EngineFollowsPackets, Between
<1>1. Pending = <<>>
  BY ConcatEmptySeq, EmptySeq DEF IInv, EmptyInv, Pending
<1>2. \A b \in Bit : Leads(b, seen, <<>>, Target)
  BY <1>1 DEF IInv, PendingInv
<1>3. \A b \in Bit : b \in seen <=> b \in Target
  BY <1>2, LeadsEmpty
<1>4. g_prev_bitfield.held \subseteq Bit
  BY DEF IInv, TypeOK, Packet
<1>5. \A b \in Bit : b \in Target <=> b \in g_prev_bitfield.held
  BY DEF Target
<1>6. QED BY <1>3, <1>4, <1>5

\* Unless an event was lost, the engine follows the packets.
THEOREM Follows == Spec => []EngineFollowsPackets
BY TicMeans, Invariance, PTL

\* Unless an event was lost, no key sticks in a game.
THEOREM NotStuck == Spec => []NoStuckKeyUnlessLost
<1>1. IInv => NoStuckKeyUnlessLost
  BY TicMeans DEF IInv, HeldInv, NoStuckKeyUnlessLost, EngineFollowsPackets
<1>2. QED BY <1>1, Invariance, PTL

\* Unless an event was lost, the engine is told of changes only.
THEOREM Changes == Spec => EventsAreChanges
<1> DEFINE Change == pc = "respond" /\ events' # events /\ lost = 0
                       => LET e == Head(events)
                          IN e.key \in Bit => (e.pressed = 1 <=> e.key \notin seen)
<1>1. IInv /\ [Next]_vars => Change
  <2> SUFFICES ASSUME IInv, [Next]_vars, pc = "respond", events' # events, lost = 0,
                      Head(events).key \in Bit
               PROVE  Head(events).pressed = 1 <=> Head(events).key \notin seen
    OBVIOUS
  <2>1. events # <<>>
    BY DEF Next, StartTic, Recv, process_bit, process_weapon, PollEnds, PopAndPost, PopEnds,
           Respond, RespondEnds, LoadLevel, TitleScreen, DedupExpires, vars
  <2>2. events \in Seq(SomeEvent) /\ g_queue = <<>>
    BY EventTypes DEF IInv, EmptyInv
  <2>3. Pending = events
    BY <2>2, ConcatEmptySeq DEF Pending
  <2>4. Alternates(Head(events).key, seen, events)
    BY <2>3 DEF IInv, PendingInv
  <2>5. 1 \in DOMAIN events /\ Head(events) = events[1] /\ 1 .. 1 - 1 = {}
    BY <2>1, <2>2
  <2>6. QED BY <2>4, <2>5 DEF Alternates
<1>2. IInv /\ [Next]_vars => [Change]_vars
  BY <1>1
<1>3. QED BY <1>2, Invariance, PTL DEF Spec, EventsAreChanges

-----------------------------------------------------------------------------
(* The control path as a whole. *)

\* On the way are snapshots of the keyboard, which are packets of the kind
\* that Uplink is prepared for.
WayInv == link \in Seq(Packet) /\ socket \in Seq(Packet)

\* Among numbers one is the least.
LEMMA Least ==
  ASSUME NEW W, W \subseteq Nat, W # {}
  PROVE  \E w \in W : \A v \in W : w <= v
<1> DEFINE R == OpToRel(<, Nat)
<1>1. \A x, y \in Nat : <<y, x>> \in R <=> y < x
  BY DEF OpToRel
<1>2. IsWellFoundedOn(R, Nat)
  BY NatLessThanWellFounded
<1> HIDE DEF R
<1>3. PICK w \in W : \A v \in W : ~ (<<v, w>> \in R)
  BY <1>2, WFMin
<1>4. ASSUME NEW v \in W PROVE w <= v
  <2>1. w \in Nat /\ v \in Nat
    OBVIOUS
  <2>2. ~ (v < w)
    BY <1>1, <1>3, <2>1
  <2>3. QED BY <2>1, <2>2
<1>5. QED BY <1>4

\* A snapshot holds the bits of the keys down and at most one weapon.
LEMMA SnapshotType == Snapshot \in Packet
<1> DEFINE weapons == {w \in Weapon : WeaponKey(w) \in keyboard}
           least == IF weapons = {} THEN 0
                    ELSE CHOOSE w \in weapons : \A v \in weapons : w <= v
<1>1. least \in 0 .. NumWeapons
  <2>1. CASE weapons = {}
    BY <2>1, UplinkAssumption
  <2>2. CASE weapons # {}
    <3>1. weapons \subseteq Nat
      BY UplinkAssumption DEF Weapon
    <3>2. \E w \in weapons : \A v \in weapons : w <= v
      <4> HIDE DEF weapons
      <4>1. QED BY <2>2, <3>1, Least
    <3>3. least \in weapons
      BY <2>2, <3>2
    <3>4. QED BY <3>3, UplinkAssumption DEF Weapon
  <2>3. QED BY <2>1, <2>2
<1>2. Snapshot = [held |-> keyboard \cap Bit, weapon |-> least]
  BY DEF Snapshot
<1> HIDE DEF least
<1>3. QED BY <1>1, <1>2 DEF Packet

\* The packets but one.
LEMMA WithoutType ==
  ASSUME link \in Seq(Packet), NEW k \in DOMAIN link
  PROVE  Without(k) \in Seq(Packet) /\ link[k] \in Packet
<1>1. Len(link) \in Nat /\ Len(link) - 1 \in Nat /\ DOMAIN link = 1 .. Len(link)
      /\ \A j \in 1 .. Len(link) : link[j] \in Packet
  OBVIOUS
<1>2. Without(k) \in [1 .. Len(link) - 1 -> Packet]
  <2>1. ASSUME NEW j \in 1 .. Len(link) - 1
        PROVE  (IF j < k THEN link[j] ELSE link[j + 1]) \in Packet
    <3>1. j \in 1 .. Len(link) /\ j + 1 \in 1 .. Len(link)
      BY <1>1
    <3>2. QED BY <1>1, <3>1
  <2>2. QED BY <2>1 DEF Without
<1>3. QED BY <1>1, <1>2, SeqDef

\* What the player, the network and the clock do touches nothing of the
\* satellite but the age of the last event; the DOOM thread does what Uplink
\* says.
LEMMA LinkStep ==
  ASSUME WayInv, LinkNext
  PROVE  WayInv' /\ [Next]_vars
<1>1. ASSUME NEW key \in Key, Touch(key) PROVE WayInv' /\ [Next]_vars
  BY <1>1 DEF WayInv, Touch, network
<1>2. CASE input_poll
  <2>1. link' \in Seq(Packet)
    BY <1>2, SnapshotType DEF WayInv, input_poll
  <2>2. QED BY <1>2, <2>1 DEF WayInv, input_poll
<1>3. CASE Quit
  BY <1>3 DEF WayInv, Quit, network
<1>4. ASSUME NEW k \in DOMAIN link, Lose(k) \/ Deliver(k) PROVE WayInv' /\ [Next]_vars
  <2>1. Without(k) \in Seq(Packet) /\ link[k] \in Packet
    BY WithoutType DEF WayInv
  <2>2. QED BY <1>4, <2>1 DEF WayInv, Lose, Deliver
<1>5. CASE Read
  <2>1. Head(socket) \in Packet /\ Tail(socket) \in Seq(Packet)
    BY <1>5 DEF WayInv, Read
  <2>2. WayInv'
    BY <1>5, <2>1 DEF WayInv, Read
  <2>3. Next
    BY <1>5, <2>1 DEF Read, Next
  <2>4. QED BY <2>2, <2>3
<1>6. CASE LastRead
  BY <1>6 DEF WayInv, LastRead, network, Next
<1>7. CASE /\ \/ StartTic
              \/ process_bit
              \/ process_weapon
              \/ PopAndPost
              \/ PopEnds
              \/ \E eaten \in BOOLEAN : Respond(eaten)
              \/ RespondEnds
           /\ UNCHANGED <<ground, network>>
  BY <1>7 DEF WayInv, network, Next
<1>8. CASE Load
  BY <1>8 DEF WayInv, Load, network, Next
<1>9. CASE Expire
  BY <1>9 DEF WayInv, Expire, network, Next
<1>10. QED BY <1>1, <1>2, <1>3, <1>4, <1>5, <1>6, <1>7, <1>8, <1>9 DEF LinkNext, Doom

\* The satellite that listens to a keyboard over such a link is the
\* satellite of Uplink: what holds there for every sequence of packets holds
\* here whatever the link loses, delays or reorders.
THEOREM LinkImplements == LinkSpec => Spec
<1>1. LinkInit => Init /\ WayInv
  BY EmptySeq DEF LinkInit, WayInv
<1>2. WayInv /\ [LinkNext]_allvars => WayInv'
  <2>1. WayInv /\ UNCHANGED allvars => WayInv'
    BY DEF WayInv, allvars, network
  <2>2. QED BY <2>1, LinkStep
<1>3. WayInv /\ [LinkNext]_allvars => [Next]_vars
  <2>1. UNCHANGED allvars => UNCHANGED vars
    BY DEF allvars
  <2>2. QED BY <2>1, LinkStep
<1>4. QED BY <1>1, <1>2, <1>3, PTL DEF LinkSpec, Spec

\* Where the last packet of the ground station has arrived and the keyboard
\* is still what it was, the engine has been told of exactly the keys that
\* the player holds, and in a game takes no other to be down.
THEOREM Settled ==
  LinkSpec => [](Between /\ lost = 0 /\ g_prev_bitfield = Snapshot
                   => /\ seen \cap Bit = keyboard \cap Bit
                      /\ demo = 1 \/ gamekeydown \cap Bit \subseteq keyboard)
<1>1. IInv => (Between /\ lost = 0 /\ g_prev_bitfield = Snapshot
                 => /\ seen \cap Bit = keyboard \cap Bit
                    /\ demo = 1 \/ gamekeydown \cap Bit \subseteq keyboard)
  <2> SUFFICES ASSUME IInv, Between, lost = 0, g_prev_bitfield = Snapshot
               PROVE  /\ seen \cap Bit = keyboard \cap Bit
                      /\ demo = 1 \/ gamekeydown \cap Bit \subseteq keyboard
    OBVIOUS
  <2>1. Snapshot.held = keyboard \cap Bit
    BY DEF Snapshot
  <2>2. seen \cap Bit = keyboard \cap Bit
    BY <2>1, TicMeans DEF EngineFollowsPackets
  <2>3. demo = 0 => gamekeydown \cap Bit \subseteq seen
    BY DEF IInv, HeldInv
  <2>4. demo \in {0, 1}
    BY DEF IInv, TypeOK
  <2>5. QED BY <2>2, <2>3, <2>4
<1>2. QED BY <1>1, LinkImplements, Invariance, PTL
=============================================================================
