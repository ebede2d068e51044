------------------------------- MODULE TicLoop -------------------------------
(***************************************************************************)
(* satellite/doom/src/d_loop.c and i_timer.c as the satellite runs them: a  *)
(* game of one player that is connected to no server (ticdup = 1, new_sync, *)
(* no drone).  NetUpdate turns elapsed time into commands, TryRunTics runs  *)
(* them; the clock goes on between any two steps of the DOOM thread.        *)
(***************************************************************************)
EXTENDS Integers

CONSTANTS
  BACKUPTICS,  \* commands that ticdata holds
  TICRATE,     \* tics in a second
  Second,      \* what the clock counts in a second
  IntMax,      \* INT_MAX
  MaxTime      \* bound: what the clock counts in the end

ASSUME TicLoopAssumption ==
  /\ BACKUPTICS \in Nat /\ BACKUPTICS >= 3
  /\ TICRATE \in Nat \ {0} /\ Second \in Nat \ {0}
  /\ IntMax \in Nat
  /\ MaxTime \in Nat

MAX_NETGAME_STALL_TICS == 5

VARIABLES
  clock,              \* SDL_GetTicks() since the start
  at,                 \* where the DOOM thread is
  back,               \* where it goes on after NetUpdate
  started,            \* D_StartGameLoop has been called
  looks,              \* calls of NetUpdate still to come while drawing
  maketic, gametic,   \* tics that have a command, and that have been run
  lasttime, skiptics, newtics,  \* of NetUpdate
  ticdata,            \* the tics whose commands the ring holds
  entertic, lowtic, counts,     \* of TryRunTics
  ran,                \* history: the tic whose command was run last
  looked, due         \* history: the clock when NetUpdate looked at it last,
                      \* and whether a tic had passed since the time before

update == <<lasttime, skiptics, newtics>>
try == <<entertic, lowtic, counts>>
seen == <<looked, due>>
place == <<at, back, started, looks>>
vars == <<clock, place, maketic, gametic, update, ticdata, try, ran, seen>>

NoCommand == -1

Init ==
  /\ clock = 0
  /\ at = "enter" /\ back = "count" /\ started = 0 /\ looks = 0
  /\ maketic = 0 /\ gametic = 0
  /\ lasttime = 0 /\ skiptics = 0 /\ newtics = 0
  /\ ticdata = [s \in 0 .. BACKUPTICS - 1 |-> NoCommand]
  /\ entertic = 0 /\ lowtic = 0 /\ counts = 0
  /\ ran = NoCommand
  /\ looked = 0 /\ due = 0

-----------------------------------------------------------------------------
(* The clocks. *)

UintSize == 2 * (IntMax + 1)

\* What is left of a number in a signed int; and C's division.
AsInt(n) == ((n + IntMax + 1) % UintSize) - (IntMax + 1)
Quot(a, b) == IF a >= 0 THEN a \div b ELSE -((-a) \div b)

\* The product is one of unsigned numbers.
I_GetTime == AsInt(((clock * TICRATE) % UintSize) \div Second)

\* The product is one of ints.  Beyond IntMax it is undefined in C; the
\* multiplication instruction leaves what AsInt does.
GetAdjustedTime == Quot(AsInt(AsInt(clock) * TICRATE), Second)

\* The tics that have really passed.
RealTics(time) == (time * TICRATE) \div Second

-----------------------------------------------------------------------------
(* NetUpdate. *)

NetUpdate ==
  /\ at = "update"
  /\ LET nowtime == GetAdjustedTime
         elapsed == nowtime - lasttime
     IN /\ lasttime' = nowtime
        /\ IF skiptics <= elapsed
           THEN newtics' = elapsed - skiptics /\ skiptics' = 0
           ELSE newtics' = 0 /\ skiptics' = skiptics - elapsed
  /\ looked' = clock
  /\ due' = IF RealTics(clock) > RealTics(looked) THEN 1 ELSE 0
  /\ at' = "build"
  /\ UNCHANGED <<clock, back, started, looks, maketic, gametic, ticdata, try, ran>>

\* Mutant: of the two limits only the one for net games is left.
RoomAhead8 == maketic - gametic <= 8

\* Without a server no more than three commands wait.
Room == maketic - gametic <= 2

\* Mutant: the command is kept in the place after its own.
BuildNewTicAhead ==
  /\ at = "build" /\ newtics > 0 /\ Room
  /\ ticdata' = [ticdata EXCEPT ![(maketic + 1) % BACKUPTICS] = maketic]
  /\ maketic' = maketic + 1
  /\ newtics' = newtics - 1
  /\ UNCHANGED <<clock, place, gametic, lasttime, skiptics, try, ran, seen>>

\* One turn of the loop: I_StartTic reads the uplink, the engine is told of
\* the keys, and a command is built from them for the tic maketic.
BuildNewTic ==
  /\ at = "build" /\ newtics > 0 /\ Room
  /\ ticdata' = [ticdata EXCEPT ![maketic % BACKUPTICS] = maketic]
  /\ maketic' = maketic + 1
  /\ newtics' = newtics - 1
  /\ UNCHANGED <<clock, place, gametic, lasttime, skiptics, try, ran, seen>>

\* Mutant: the time spent building is not looked at.
BuiltAtLastLate ==
  /\ at = "build" /\ (newtics <= 0 \/ ~Room)
  /\ lasttime' = GetAdjustedTime
  /\ at' = back
  /\ UNCHANGED <<clock, back, started, looks, maketic, gametic, newtics, skiptics,
                 ticdata, try, ran, seen>>

\* All tics are built, or BuildNewTic refuses to go further ahead: then the
\* tics that are left are never made up for.
BuiltAtLast ==
  /\ at = "build" /\ (newtics <= 0 \/ ~Room)
  /\ at' = back
  /\ UNCHANGED <<clock, back, started, looks, maketic, gametic, update, ticdata, try, ran, seen>>

-----------------------------------------------------------------------------
(* TryRunTics. *)

Enter ==
  /\ at = "enter"
  /\ entertic' = I_GetTime
  /\ at' = "update" /\ back' = "count"
  /\ UNCHANGED <<clock, started, looks, maketic, gametic, update, ticdata,
                 lowtic, counts, ran, seen>>

AtLeastOne(n) == IF n < 1 THEN 1 ELSE n

\* Mutant: the last command waits for the next one.
CountLeavesOne ==
  /\ at = "count"
  /\ lowtic' = maketic
  /\ counts' = IF maketic - gametic < 2 THEN 0 ELSE maketic - gametic - 1
  /\ at' = "wait"
  /\ UNCHANGED <<clock, back, started, looks, maketic, gametic, update, ticdata,
                 entertic, ran, seen>>

Count ==
  /\ at = "count"
  /\ lowtic' = maketic
  /\ counts' = AtLeastOne(maketic - gametic)
  /\ at' = "wait"
  /\ UNCHANGED <<clock, back, started, looks, maketic, gametic, update, ticdata,
                 entertic, ran, seen>>

\* Mutant: the command that is missing is not waited for.
WaitNot ==
  /\ at = "wait"
  /\ at' = "run"
  /\ UNCHANGED <<clock, back, started, looks, maketic, gametic, update, ticdata, try, ran, seen>>

Wait ==
  /\ at = "wait"
  /\ IF lowtic < gametic + counts
     THEN at' = "update" /\ back' = "recheck"
     ELSE at' = "run" /\ UNCHANGED back
  /\ UNCHANGED <<clock, started, looks, maketic, gametic, update, ticdata, try, ran, seen>>

\* What follows TryRunTics: D_StartGameLoop the first time, then the drawing,
\* with one call of NetUpdate, or five if a level is drawn, or none if the
\* window is not visible.
Return ==
  IF started = 0
  THEN at' = "start" /\ UNCHANGED looks
  ELSE at' = "draw" /\ looks' \in {0, 1, 5}

\* Still no command: after a stall of some tics give up, else sleep.
Recheck ==
  /\ at = "recheck"
  /\ lowtic' = maketic
  /\ \/ /\ maketic < gametic
        /\ at' = "error" /\ UNCHANGED looks
     \/ /\ gametic <= maketic /\ maketic < gametic + counts
        /\ I_GetTime - entertic >= MAX_NETGAME_STALL_TICS
        /\ Return
     \/ /\ gametic <= maketic
        /\ \/ I_GetTime - entertic < MAX_NETGAME_STALL_TICS
           \/ maketic >= gametic + counts
        /\ at' = "wait" /\ UNCHANGED looks
  /\ UNCHANGED <<clock, back, started, maketic, gametic, update, ticdata,
                 entertic, counts, ran, seen>>

RunTic ==
  /\ at = "run" /\ counts > 0
  /\ IF gametic > lowtic
     THEN /\ at' = "error"
          /\ UNCHANGED <<back, gametic, counts, ran>>
     ELSE /\ ran' = ticdata[gametic % BACKUPTICS]
          /\ gametic' = gametic + 1
          /\ counts' = counts - 1
          /\ at' = "update" /\ back' = "run"
  /\ UNCHANGED <<clock, started, looks, maketic, update, ticdata, entertic, lowtic, seen>>

AllRun ==
  /\ at = "run" /\ counts = 0
  /\ Return
  /\ UNCHANGED <<clock, back, started, maketic, gametic, update, ticdata, try, ran, seen>>

-----------------------------------------------------------------------------
(* D_DoomLoop around it. *)

D_StartGameLoop ==
  /\ at = "start"
  /\ started' = 1
  /\ lasttime' = GetAdjustedTime
  /\ looked' = clock /\ due' = 0
  /\ at' = "enter"
  /\ UNCHANGED <<clock, back, looks, maketic, gametic, skiptics, newtics, ticdata, try, ran>>

Draw ==
  /\ at = "draw"
  /\ IF looks > 0
     THEN looks' = looks - 1 /\ at' = "update" /\ back' = "draw"
     ELSE at' = "enter" /\ UNCHANGED <<looks, back>>
  /\ UNCHANGED <<clock, started, maketic, gametic, update, ticdata, try, ran, seen>>

Tick ==
  /\ clock < MaxTime
  /\ clock' = clock + 1
  /\ UNCHANGED <<place, maketic, gametic, update, ticdata, try, ran, seen>>

Doom ==
  \/ NetUpdate \/ BuildNewTic \/ BuiltAtLast
  \/ Enter \/ Count \/ Wait \/ Recheck \/ RunTic \/ AllRun
  \/ D_StartGameLoop \/ Draw

Next == Doom \/ Tick

Spec == Init /\ [][Next]_vars

\* The DOOM thread is never held up for ever.
FairSpec == Spec /\ WF_vars(Doom)

-----------------------------------------------------------------------------
(* Properties. *)

TypeOK ==
  /\ clock \in 0 .. MaxTime
  /\ at \in {"enter", "update", "build", "count", "wait", "recheck", "run",
             "start", "draw", "error"}
  /\ back \in {"count", "recheck", "run", "draw"}
  /\ started \in {0, 1} /\ looks \in 0 .. 5
  /\ maketic \in Nat /\ gametic \in Nat
  /\ lasttime \in Int /\ skiptics \in Int /\ newtics \in Int
  /\ ticdata \in [0 .. BACKUPTICS - 1 -> Nat \cup {NoCommand}]
  /\ entertic \in Int /\ lowtic \in Nat /\ counts \in 0 .. 3
  /\ ran \in Nat \cup {NoCommand}
  /\ looked \in 0 .. clock /\ due \in {0, 1}

\* Every tic is run with the command that was built for it: no tic runs
\* without one, twice, or with one that the ring has lost meanwhile, however
\* often NetUpdate builds commands while others still wait.
RunsOwnCommand == ran = gametic - 1

\* The game never gets ahead of its commands, which TryRunTics takes for
\* impossible and would end the satellite for.
NoSyncError == at # "error"

\* For every tic of time the game moves on: after a call of NetUpdate that
\* finds a tic passed, a command waits to be run.
TicsAreBuilt ==
  [][at = "build" /\ at' # "build" /\ due = 1 => maketic' > gametic']_vars

\* Every command built is run, whatever the clock does.
BuiltIsRun == \A n \in 0 .. MaxTime : maketic > n ~> gametic > n

-----------------------------------------------------------------------------
(* Why the first three hold: at most three commands wait, each in its place *)
(* of the ring, and what TryRunTics still means to run has been built.      *)

WindowInv ==
  /\ gametic <= maketic /\ maketic <= gametic + 3
  /\ \A t \in gametic .. maketic - 1 : ticdata[t % BACKUPTICS] = t

Running == at = "run" \/ (at \in {"update", "build"} /\ back = "run")

CountsInv ==
  /\ lowtic <= maketic
  /\ Running => gametic + counts <= lowtic

TicInv == TypeOK /\ RunsOwnCommand /\ NoSyncError /\ WindowInv /\ CountsInv

(* And why the fourth holds, as long as the time fits in an int.            *)

TimeFits == MaxTime * TICRATE <= IntMax

TimeInv ==
  /\ lasttime = RealTics(looked)
  /\ skiptics = 0 /\ newtics >= 0
  /\ at = "build" /\ due = 1 => newtics > 0 \/ maketic > gametic

IInv == TicInv /\ (TimeFits => TimeInv)
=============================================================================
