------------------------------ MODULE InputLink ------------------------------
(***************************************************************************)
(* The control path from the player's keyboard to the engine: ground/input.c*)
(* sends a snapshot of the keyboard 20 times a second, changed or not, over *)
(* a UDP link that may lose, delay and reorder packets, and the satellite   *)
(* (module Uplink) compares each packet it gets with the one before.        *)
(***************************************************************************)
EXTENDS Uplink

CONSTANTS
  MaxChanges,  \* bound: keys the player presses or releases
  MaxInFlight  \* bound: packets sent and not yet read

ASSUME LinkAssumption == MaxChanges \in Nat /\ MaxInFlight \in Nat \ {0}

VARIABLES
  keyboard,  \* keys the player holds down
  changes,   \* how often that changed
  quit,      \* SDL_QUIT was seen: the ground station is closed
  link,      \* packets on the way, oldest first
  socket     \* packets that arrived and uplink_poll has not read

ground == <<keyboard, changes, quit>>
network == <<link, socket>>
allvars == <<vars, ground, network>>

LinkInit ==
  /\ Init
  /\ keyboard = {} /\ changes = 0 /\ quit = FALSE
  /\ link = <<>> /\ socket = <<>>

\* The player presses or releases a key.
Touch(key) ==
  /\ changes < MaxChanges
  /\ keyboard' = IF key \in keyboard THEN keyboard \ {key} ELSE keyboard \cup {key}
  /\ changes' = changes + 1
  /\ UNCHANGED <<vars, quit, network>>

\* The bitfield of a snapshot: of the weapon keys the first one counts.
Snapshot ==
  LET weapons == {w \in Weapon : WeaponKey(w) \in keyboard}
  IN [held |-> keyboard \cap Bit,
      weapon |-> IF weapons = {} THEN 0
                 ELSE CHOOSE w \in weapons : \A v \in weapons : w <= v]

\* Mutant: nothing is sent while no key is down.
input_poll_held ==
  /\ ~quit
  /\ Len(link) + Len(socket) < MaxInFlight
  /\ Snapshot # Silent
  /\ link' = Append(link, Snapshot)
  /\ UNCHANGED <<vars, ground, socket>>

\* input_poll when INPUT_SEND_INTERVAL_MS have passed.  A poll in between
\* takes a snapshot that the next one overwrites.
input_poll ==
  /\ ~quit
  /\ Len(link) + Len(socket) < MaxInFlight
  /\ link' = Append(link, Snapshot)
  /\ UNCHANGED <<vars, ground, socket>>

\* input_poll sees SDL_QUIT and returns before it sends anything.
Quit ==
  /\ ~quit
  /\ quit' = TRUE
  /\ UNCHANGED <<vars, keyboard, changes, network>>

Without(k) == [j \in 1 .. Len(link) - 1 |-> IF j < k THEN link[j] ELSE link[j + 1]]

\* A poll empties the socket in far less than the 50 ms between two packets:
\* what becomes of a packet on the link during a poll may as well happen
\* before or after it.
BetweenPolls == pc \notin {"recv", "bits"}

Lose(k) ==
  /\ BetweenPolls
  /\ link' = Without(k)
  /\ UNCHANGED <<vars, ground, socket>>

\* Packet k reaches the satellite, perhaps before older ones.
Deliver(k) ==
  /\ BetweenPolls
  /\ link' = Without(k)
  /\ socket' = Append(socket, link[k])
  /\ UNCHANGED <<vars, ground>>

\* uplink_poll reads the socket until it is empty.
Read ==
  /\ socket # <<>>
  /\ Recv(Head(socket))
  /\ socket' = Tail(socket)
  /\ UNCHANGED <<ground, link>>

LastRead ==
  /\ socket = <<>>
  /\ PollEnds
  /\ UNCHANGED <<ground, network>>

\* The DOOM thread.
Doom ==
  \/ Read
  \/ LastRead
  \/ /\ \/ StartTic
        \/ process_bit
        \/ process_weapon
        \/ PopAndPost
        \/ PopEnds
        \/ \E eaten \in BOOLEAN : Respond(eaten)
        \/ RespondEnds
     /\ UNCHANGED <<ground, network>>

Load == (LoadLevel \/ TitleScreen) /\ UNCHANGED <<ground, network>>
Expire == DedupExpires /\ UNCHANGED <<ground, network>>

LinkNext ==
  \/ \E key \in Key : Touch(key)
  \/ input_poll
  \/ Quit
  \/ \E k \in DOMAIN link : Lose(k) \/ Deliver(k)
  \/ Doom
  \/ Load
  \/ Expire

\* The ground station keeps sending until it is closed, and a link that is
\* tried again and again lets a packet through.  The DOOM thread keeps
\* running tics.
LinkSpec ==
  /\ LinkInit /\ [][LinkNext]_allvars
  /\ WF_allvars(input_poll)
  /\ SF_allvars(\E k \in DOMAIN link : Deliver(k))
  /\ WF_allvars(Doom)
  /\ WF_allvars(Expire)

-----------------------------------------------------------------------------
\* Sending the state again and again makes up for every packet that is lost
\* or arrives late: once the player keeps the keys as they are, the engine
\* has been told of exactly these keys, and in a game holds no other down,
\* for as long as the ground station is open.
EngineCatchesUp ==
  <>[](~quit => /\ seen \cap Bit = keyboard \cap Bit
                /\ demo = 1 \/ gamekeydown \cap Bit \subseteq keyboard)
=============================================================================
