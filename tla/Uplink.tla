------------------------------- MODULE Uplink -------------------------------
(***************************************************************************)
(* The satellite's end of the control path: satellite/uplink.c and its     *)
(* only caller, the DOOM thread.  Once per tic the thread drains the UDP   *)
(* socket (uplink_poll), turns every packet into key events by comparing   *)
(* it with the packet before it, moves the events through the key queue    *)
(* into DOOM's event ring (I_GetEvent, D_PostEvent) and lets the game      *)
(* respond to them (D_ProcessEvents, G_Responder).  A poll finds any number *)
(* of packets with any content: whatever UDP loses, repeats or reorders on *)
(* the way shows up as one of these sequences of packets.                  *)
(***************************************************************************)
EXTENDS Integers, Sequences

CONSTANTS
  NumKeys,         \* keys that have a bit of their own
  NumWeapons,      \* largest weapon number of bits 10-12
  KEY_QUEUE_SIZE,
  MAXEVENTS

ASSUME UplinkAssumption ==
  /\ NumKeys \in Nat \ {0}
  /\ NumWeapons \in Nat
  /\ KEY_QUEUE_SIZE \in Nat \ {0}
  /\ MAXEVENTS \in Nat \ {0}

\* A key is known by the place of its bit; weapon keys come after them.
Bit == 1 .. NumKeys
WeaponKey(w) == NumKeys + w
Weapon == 1 .. NumWeapons
Key == 1 .. NumKeys + NumWeapons

Packet == [held : SUBSET Bit, weapon : 0 .. NumWeapons]
Silent == [held |-> {}, weapon |-> 0]

Event(key, pressed) == [key |-> key, pressed |-> pressed]
KeyEvent == [key : Key, pressed : {0, 1}]
OtherEvent == Event(0, 0)   \* a mouse movement or ev_quit

VARIABLES
  pc, pkt, bit,           \* DOOM thread: place, packet and bit at hand
  g_prev_bitfield,
  g_queue,                \* events between g_queue_head and g_queue_tail
  last, fresh,            \* g_last_enqueued_*; 1: under UPLINK_DEDUP_MS ago
  events,                 \* events between eventtail and eventhead
  demo,                   \* 1: the title screens or a demo are on
  gamekeydown,            \* keys the game takes to be held
  seen, selected,         \* history: keys last reported down, last weapon
  lost                    \* history, 1: an event was lost to a full queue

queue == <<g_queue, last, fresh>>
game == <<demo, gamekeydown, seen, selected>>
vars == <<pc, pkt, bit, g_prev_bitfield, queue, events, game, lost>>

Init ==
  /\ pc = "tic" /\ pkt = Silent /\ bit = 1
  /\ g_prev_bitfield = Silent
  /\ g_queue = <<>> /\ last = OtherEvent /\ fresh = 0
  /\ events = <<>>
  /\ demo \in {0, 1} /\ gamekeydown = {} /\ seen = {} /\ selected = 0
  /\ lost = 0

-----------------------------------------------------------------------------
\* More than UPLINK_DEDUP_MS pass since the last enqueued event.
DedupExpires ==
  /\ fresh = 1
  /\ fresh' = 0
  /\ UNCHANGED <<pc, pkt, bit, g_prev_bitfield, g_queue, last, events, game, lost>>

-----------------------------------------------------------------------------
(* The DOOM thread. *)

\* D_PostEvent never looks at eventtail: the post that fills the ring makes
\* head and tail equal, and the ring looks empty.
Posted(e) == IF Len(events) = MAXEVENTS - 1 THEN <<>> ELSE Append(events, e)

Post(e) ==
  /\ events' = Posted(e)
  /\ lost' = IF Posted(e) = <<>> THEN 1 ELSE lost

\* Events that do not come from the uplink.  Bound: one before the uplink
\* is polled (a mouse button, ev_quit) and one after (I_ReadMouse).
OtherInput == UNCHANGED <<events, lost>> \/ Post(OtherEvent)

\* I_StartTic and I_GetEvent begin.
StartTic ==
  /\ pc = "tic"
  /\ pc' = "recv"
  /\ OtherInput
  /\ UNCHANGED <<pkt, bit, g_prev_bitfield, queue, game>>

\* recvfrom returns packet p.  A datagram of less than 8 bytes
\* is skipped and leaves no trace.
Recv(p) ==
  /\ pc = "recv"
  /\ pc' = "bits"
  /\ pkt' = p
  /\ bit' = 1
  /\ UNCHANGED <<g_prev_bitfield, queue, events, game, lost>>

\* The event enqueued last, less than UPLINK_DEDUP_MS ago.
Repeats(e) == fresh = 1 /\ last = e

\* Mutant: a repeat is recognised by its key alone.
EnqueueByKey(e) ==
  \/ /\ fresh = 1 /\ last.key = e.key
     /\ UNCHANGED <<queue, lost>>
  \/ /\ ~(fresh = 1 /\ last.key = e.key)
     /\ Len(g_queue) = KEY_QUEUE_SIZE - 1
     /\ lost' = 1
     /\ UNCHANGED <<g_queue, last, fresh>>
  \/ /\ ~(fresh = 1 /\ last.key = e.key)
     /\ Len(g_queue) < KEY_QUEUE_SIZE - 1
     /\ g_queue' = Append(g_queue, e)
     /\ last' = e
     /\ fresh' = 1
     /\ UNCHANGED lost

\* Mutant: the last place of the queue is used, and head meets tail.
EnqueueToTheBrim(e) ==
  /\ g_queue' = Append(g_queue, e)
  /\ last' = e
  /\ fresh' = 1
  /\ UNCHANGED lost

Enqueue(e) ==
  \/ /\ Repeats(e)
     /\ UNCHANGED <<queue, lost>>
  \/ /\ ~Repeats(e)
     /\ Len(g_queue) = KEY_QUEUE_SIZE - 1
     /\ lost' = 1
     /\ UNCHANGED <<g_queue, last, fresh>>
  \/ /\ ~Repeats(e)
     /\ Len(g_queue) < KEY_QUEUE_SIZE - 1
     /\ g_queue' = Append(g_queue, e)
     /\ last' = e
     /\ fresh' = 1
     /\ UNCHANGED lost

AsBool(f) == IF f THEN 1 ELSE 0

\* Mutant: the packet is not compared with the one before it.
process_bit_always ==
  /\ pc = "bits" /\ bit \in Bit
  /\ bit' = bit + 1
  /\ Enqueue(Event(bit, AsBool(bit \in pkt.held)))
  /\ UNCHANGED <<pc, pkt, g_prev_bitfield, events, game>>

\* process_bit: a key whose bit changed since the previous packet.
process_bit ==
  /\ pc = "bits" /\ bit \in Bit
  /\ bit' = bit + 1
  /\ LET cur == AsBool(bit \in pkt.held)
         prev == AsBool(bit \in g_prev_bitfield.held)
     IN IF cur # prev THEN Enqueue(Event(bit, cur)) ELSE UNCHANGED <<queue, lost>>
  /\ UNCHANGED <<pc, pkt, g_prev_bitfield, events, game>>

\* Mutant: the packet becomes the previous one only if its weapon is new.
process_weapon_forgets ==
  /\ pc = "bits" /\ bit = NumKeys + 1
  /\ pc' = "recv"
  /\ pkt' = Silent /\ bit' = 1
  /\ IF pkt.weapon > 0 /\ pkt.weapon # g_prev_bitfield.weapon
     THEN /\ Enqueue(Event(WeaponKey(pkt.weapon), 1))
          /\ g_prev_bitfield' = pkt
     ELSE UNCHANGED <<queue, lost, g_prev_bitfield>>
  /\ UNCHANGED <<events, game>>

\* process_weapon: only a new selection makes an event, and the packet
\* becomes the previous one whether or not its events were queued.
process_weapon ==
  /\ pc = "bits" /\ bit = NumKeys + 1
  /\ pc' = "recv"
  /\ g_prev_bitfield' = pkt
  /\ pkt' = Silent /\ bit' = 1
  /\ IF pkt.weapon > 0 /\ pkt.weapon # g_prev_bitfield.weapon
     THEN Enqueue(Event(WeaponKey(pkt.weapon), 1))
     ELSE UNCHANGED <<queue, lost>>
  /\ UNCHANGED <<events, game>>

\* recvfrom finds nothing more, or fails: either way uplink_poll returns,
\* and I_GetEvent goes on to pop the queue.
PollEnds ==
  /\ pc = "recv"
  /\ pc' = "pop"
  /\ UNCHANGED <<pkt, bit, g_prev_bitfield, queue, events, game, lost>>

\* uplink_pop_key and D_PostEvent.
PopAndPost ==
  /\ pc = "pop" /\ g_queue # <<>>
  /\ g_queue' = Tail(g_queue)
  /\ Post(Head(g_queue))
  /\ UNCHANGED <<pc, pkt, bit, g_prev_bitfield, last, fresh, game>>

PopEnds ==
  /\ pc = "pop" /\ g_queue = <<>>
  /\ pc' = "respond"
  /\ OtherInput
  /\ UNCHANGED <<pkt, bit, g_prev_bitfield, queue, game>>

\* The keys that are down after event e.
Keys(down, e) == IF e.pressed = 1 THEN down \cup {e.key} ELSE down \ {e.key}

\* One turn of D_ProcessEvents.  A menu or another responder may eat a key
\* press before G_Responder notes it; a release is ignored during a demo
\* only, unless a game is about to begin.
Respond(eaten) ==
  /\ pc = "respond" /\ events # <<>>
  /\ events' = Tail(events)
  /\ LET e == Head(events)
     IN /\ eaten => e.pressed = 1 \/ demo = 1
        /\ gamekeydown' = IF eaten THEN gamekeydown ELSE Keys(gamekeydown, e)
        /\ seen' = Keys(seen, e)
        /\ selected' = IF e.key > NumKeys /\ ~eaten THEN e.key - NumKeys ELSE selected
  /\ UNCHANGED <<pc, pkt, bit, g_prev_bitfield, queue, demo, lost>>

RespondEnds ==
  /\ pc = "respond" /\ events = <<>>
  /\ pc' = "tic"
  /\ UNCHANGED <<pkt, bit, g_prev_bitfield, queue, events, game, lost>>

\* G_DoLoadLevel, for a game or for a demo, forgets which keys are down.
LoadLevel ==
  /\ pc = "tic"
  /\ gamekeydown' = {}
  /\ demo' \in {0, 1}
  /\ UNCHANGED <<pc, pkt, bit, g_prev_bitfield, queue, events, seen, selected, lost>>

\* A game ends and the title screens come back; they forget nothing.
TitleScreen ==
  /\ pc = "tic" /\ demo = 0
  /\ demo' = 1
  /\ UNCHANGED <<pc, pkt, bit, g_prev_bitfield, queue, events, gamekeydown,
                 seen, selected, lost>>

Next ==
  \/ StartTic
  \/ \E p \in Packet : Recv(p)
  \/ process_bit
  \/ process_weapon
  \/ PollEnds
  \/ PopAndPost
  \/ PopEnds
  \/ \E eaten \in BOOLEAN : Respond(eaten)
  \/ RespondEnds
  \/ LoadLevel
  \/ TitleScreen
  \/ DedupExpires

Spec == Init /\ [][Next]_vars

-----------------------------------------------------------------------------
(* Properties. *)

TypeOK ==
  /\ pc \in {"tic", "recv", "bits", "pop", "respond"}
  /\ pkt \in Packet /\ bit \in 1 .. NumKeys + 1
  /\ g_prev_bitfield \in Packet
  /\ g_queue \in Seq(KeyEvent) /\ Len(g_queue) < KEY_QUEUE_SIZE
  /\ last \in KeyEvent \cup {OtherEvent} /\ fresh \in {0, 1}
  /\ events \in Seq(KeyEvent \cup {OtherEvent}) /\ Len(events) < MAXEVENTS
  /\ demo \in {0, 1}
  /\ gamekeydown \subseteq Key /\ seen \subseteq Key
  /\ selected \in 0 .. NumWeapons
  /\ lost \in {0, 1}

\* G_BuildTiccmd takes the first weapon key that is down.
ChosenWeapon ==
  LET down == {w \in Weapon : WeaponKey(w) \in gamekeydown}
  IN IF down = {} THEN 0 ELSE CHOOSE w \in down : \A v \in down : w <= v

Between == pc = "tic"

\* Between two tics the engine has been told of exactly the keys that the
\* last packet holds: comparing with the previous packet, suppressing
\* repeats and passing two queues loses or invents nothing, as long as
\* neither queue overflowed.
EngineFollowsPackets ==
  Between /\ lost = 0
    => seen \cap Bit = g_prev_bitfield.held

\* In a game no key keeps moving the player after the ground released it,
\* unless an event was lost to a full queue: where menus eat presses and
\* levels are loaded keys may be forgotten, never stuck.  (During a demo a
\* key may stick, but the level that ends the demo forgets it.)
NoStuckKeyUnlessLost ==
  Between /\ demo = 0 /\ lost = 0
    => gamekeydown \cap Bit \subseteq g_prev_bitfield.held

\* The engine is told of changes only: a press of a key that is up, a
\* release of one that is down.
EventsAreChanges ==
  [][pc = "respond" /\ events' # events /\ lost = 0
       => LET e == Head(events)
          IN e.key \in Bit => (e.pressed = 1 <=> e.key \notin seen)]_vars

\* The weapon the game switches to is the one selected last.
WeaponFollowsSelection == Between /\ ChosenWeapon # 0 => ChosenWeapon = selected

-----------------------------------------------------------------------------
(* Why the first three hold: the events on their way to the game lead from  *)
(* the keys it was told of to those of the last packet, change by change.   *)

Pending == events \o g_queue

\* The last packet that was compared, key by key.
Target ==
  {key \in Bit : key \in (IF pc = "bits" /\ key < bit THEN pkt ELSE g_prev_bitfield).held}

\* The events of s make key b what it is in the set after, if it was what it
\* is in the set before.
Leads(b, before, s, after) ==
  \/ /\ \A k \in DOMAIN s : s[k].key # b
     /\ b \in before <=> b \in after
  \/ \E k \in DOMAIN s :
       /\ s[k].key = b
       /\ \A j \in DOMAIN s : j > k => s[j].key # b
       /\ s[k].pressed = 1 <=> b \in after

\* Every event of s about key b changes it.
Alternates(b, before, s) ==
  \A k \in DOMAIN s : s[k].key = b =>
    \/ /\ \A j \in 1 .. k - 1 : s[j].key # b
       /\ s[k].pressed = 1 <=> b \notin before
    \/ \E j \in 1 .. k - 1 :
         /\ s[j].key = b /\ s[j].pressed # s[k].pressed
         /\ \A m \in j + 1 .. k - 1 : s[m].key # b

PendingInv ==
  lost = 0 => \A b \in Bit : Leads(b, seen, Pending, Target) /\ Alternates(b, seen, Pending)

\* What de-duplication compares with is what the key is like by now.
LastInv ==
  lost = 0 /\ last.key \in Bit => (last.pressed = 1 <=> last.key \in Target)

EmptyInv ==
  /\ pc = "tic" => events = <<>>
  /\ pc \in {"tic", "respond"} => g_queue = <<>>

HeldInv == demo = 0 => gamekeydown \cap Bit \subseteq seen

IInv == TypeOK /\ PendingInv /\ LastInv /\ EmptyInv /\ HeldInv
=============================================================================
