---------------------------- MODULE TicLoopProofs ----------------------------
(***************************************************************************)
(* Proofs about TicLoop for every ring, tic rate, width of the int and     *)
(* length of the run.  The argument: at most three commands wait to be     *)
(* run, so that with a ring of three or more each is in a place of its     *)
(* own; and TryRunTics runs no more tics than had a command when it last   *)
(* looked.                                                                 *)
(***************************************************************************)
EXTENDS TicLoop, TLAPS

-----------------------------------------------------------------------------
(* The clocks. *)

\* What is left of a number in an int is a number.
LEMMA AsIntType == \A n \in Int : AsInt(n) \in Int
BY TicLoopAssumption DEF AsInt, UintSize

\* C's division gives a number.
LEMMA QuotType == ASSUME NEW a \in Int, NEW b \in Nat \ {0} PROVE Quot(a, b) \in Int
BY DEF Quot

\* The adjusted time is a number, overflow or not.
LEMMA AdjustedType == clock \in Nat => GetAdjustedTime \in Int
<1> SUFFICES ASSUME clock \in Nat PROVE GetAdjustedTime \in Int
  OBVIOUS
<1>1. AsInt(clock) * TICRATE \in Int
  BY AsIntType, TicLoopAssumption
<1>2. AsInt(AsInt(clock) * TICRATE) \in Int
  BY <1>1, AsIntType
<1>3. QED BY <1>2, QuotType, TicLoopAssumption DEF GetAdjustedTime

\* So is the time in tics.
LEMMA TimeType == clock \in Nat => I_GetTime \in Int
<1> SUFFICES ASSUME clock \in Nat PROVE I_GetTime \in Int
  OBVIOUS
<1>1. UintSize \in Nat \ {0}
  BY TicLoopAssumption DEF UintSize
<1>2. clock * TICRATE \in Nat
  BY TicLoopAssumption
<1>3. (clock * TICRATE) % UintSize \in Nat
  BY <1>1, <1>2
<1>4. ((clock * TICRATE) % UintSize) \div Second \in Int
  BY <1>3, TicLoopAssumption
<1>5. QED BY <1>4, AsIntType DEF I_GetTime

\* Every tic has its place in the ring.
LEMMA PlaceType == \A t \in Nat : t % BACKUPTICS \in 0 .. BACKUPTICS - 1
BY TicLoopAssumption

\* Tics that are close to each other have different places.
LEMMA PlacesDiffer ==
  \A t, u \in Nat : t < u /\ u < t + BACKUPTICS => t % BACKUPTICS # u % BACKUPTICS
<1> SUFFICES ASSUME NEW t \in Nat, NEW u \in Nat, t < u, u < t + BACKUPTICS,
                    t % BACKUPTICS = u % BACKUPTICS
             PROVE  FALSE
  OBVIOUS
<1>1. PICK n \in Nat \ {0} : n = BACKUPTICS
  BY TicLoopAssumption
<1>2. PICK p \in Nat : t = n * p + (t % n)
  <2>1. t \div n \in Nat /\ t = n * (t \div n) + (t % n)
    OBVIOUS
  <2>2. QED BY <2>1
<1>3. PICK q \in Nat : u = n * q + (t % n)
  <2>1. u \div n \in Nat /\ u = n * (u \div n) + (u % n)
    OBVIOUS
  <2>2. QED BY <1>1, <2>1
<1>4. u - t = n * q - n * p /\ n * q - n * p = n * (q - p)
  BY <1>2, <1>3
<1>5. CASE q <= p
  <2>1. n * (q - p) <= 0
    BY <1>5
  <2>2. QED BY <1>4, <2>1
<1>6. CASE q >= p + 1
  <2>1. n * (q - p) >= n
    BY <1>6
  <2>2. QED BY <1>1, <1>4, <2>1
<1>7. QED BY <1>5, <1>6

-----------------------------------------------------------------------------
(* The invariant. *)

\* It holds when the thread begins.
LEMMA InvInit == Init => TicInv
BY TicLoopAssumption
   DEF Init, TicInv, TypeOK, RunsOwnCommand, NoSyncError, WindowInv, CountsInv,
       Running, NoCommand

\* Parts of the invariant look at few variables: these steps change none.
LEMMA InvAside ==
  ASSUME TicInv, TypeOK',
         UNCHANGED <<maketic, gametic, ticdata, lowtic, counts, ran>>,
         at' # "error", Running' => Running
  PROVE  TicInv'
<1>1. RunsOwnCommand' /\ NoSyncError'
  BY DEF TicInv, RunsOwnCommand, NoSyncError
<1>2. WindowInv'
  BY DEF TicInv, WindowInv
<1>3. CountsInv'
  <2>1. lowtic' <= maketic'
    BY DEF TicInv, CountsInv
  <2>2. ASSUME Running' PROVE gametic' + counts' <= lowtic'
    BY <2>2 DEF TicInv, CountsInv
  <2>3. QED BY <2>1, <2>2 DEF CountsInv
<1>4. QED BY <1>1, <1>2, <1>3 DEF TicInv

\* A look at the clock leaves commands and tics as they are.
LEMMA NetUpdateInv == TicInv /\ NetUpdate => TicInv'
<1> SUFFICES ASSUME TicInv, NetUpdate PROVE TicInv'
  OBVIOUS
<1> DEFINE elapsed == GetAdjustedTime - lasttime
<1>1. GetAdjustedTime \in Int /\ elapsed \in Int
  BY AdjustedType DEF TicInv, TypeOK
<1>2. lasttime' \in Int /\ newtics' \in Int /\ skiptics' \in Int
  <2>1. CASE skiptics <= elapsed
    BY <1>1, <2>1 DEF NetUpdate, TicInv, TypeOK
  <2>2. CASE ~(skiptics <= elapsed)
    BY <1>1, <2>2 DEF NetUpdate, TicInv, TypeOK
  <2>3. QED BY <2>1, <2>2
<1>3. due' \in {0, 1}
  BY Zenon DEF NetUpdate
<1>4. TypeOK'
  BY <1>2, <1>3 DEF NetUpdate, TicInv, TypeOK, try
<1>5. Running' => Running
  BY DEF NetUpdate, Running
<1>6. at' # "error"
  BY DEF NetUpdate
<1>7. QED BY <1>4, <1>5, <1>6, InvAside DEF NetUpdate, try

\* A new command goes to a place that no waiting command has.
LEMMA BuildNewTicInv == TicInv /\ BuildNewTic => TicInv'
<1> SUFFICES ASSUME TicInv, BuildNewTic PROVE TicInv'
  OBVIOUS
<1> USE DEF BuildNewTic, TicInv, place, try, seen
<1>1. maketic \in Nat /\ gametic \in Nat /\ maketic' = maketic + 1 /\ gametic' = gametic
  BY DEF TypeOK
<1>2. maketic % BACKUPTICS \in 0 .. BACKUPTICS - 1
  BY <1>1, PlaceType
<1>3. TypeOK'
  BY <1>2 DEF TypeOK
<1>4. WindowInv'
  <2>1. gametic' <= maketic' /\ maketic' <= gametic' + 3
    BY <1>1 DEF WindowInv, Room
  <2>2. ASSUME NEW t \in gametic' .. maketic' - 1
        PROVE  ticdata'[t % BACKUPTICS] = t
    <3>1. t \in Nat /\ gametic <= t /\ t <= maketic /\ t % BACKUPTICS \in 0 .. BACKUPTICS - 1
      BY <1>1, PlaceType
    <3>2. CASE t = maketic
      BY <3>1, <3>2 DEF TypeOK
    <3>3. CASE t # maketic
      <4>1. t < maketic /\ maketic < t + BACKUPTICS
        BY <1>1, <3>1, <3>3, TicLoopAssumption DEF Room
      <4>2. t % BACKUPTICS # maketic % BACKUPTICS
        BY <1>1, <3>1, <4>1, PlacesDiffer
      <4>3. ticdata[t % BACKUPTICS] = t
        BY <1>1, <3>1, <4>1 DEF WindowInv
      <4>4. QED BY <1>2, <3>1, <4>2, <4>3 DEF TypeOK
    <3>4. QED BY <3>2, <3>3
  <2>3. QED BY <2>1, <2>2 DEF WindowInv
<1>5. RunsOwnCommand' /\ NoSyncError'
  BY DEF RunsOwnCommand, NoSyncError
<1>6. CountsInv'
  <2>1. lowtic' <= maketic'
    BY <1>1 DEF CountsInv, TypeOK
  <2>2. Running' => Running
    BY DEF Running
  <2>3. QED BY <2>1, <2>2 DEF CountsInv
<1>7. QED BY <1>3, <1>4, <1>5, <1>6

\* The tic that is run has its command, for it was built before lowtic was
\* looked at and is still in the ring.
LEMMA RunTicInv == TicInv /\ RunTic => TicInv'
<1> SUFFICES ASSUME TicInv, RunTic PROVE TicInv'
  OBVIOUS
<1> USE DEF RunTic, TicInv, update, seen
<1>1. Running
  BY DEF Running
<1>2. gametic \in Nat /\ maketic \in Nat /\ counts \in 1 .. 3 /\ gametic + counts <= lowtic
      /\ lowtic <= maketic /\ lowtic \in Nat
  BY <1>1 DEF CountsInv, TypeOK
<1>3. ~(gametic > lowtic)
  BY <1>2
<1>4. ticdata[gametic % BACKUPTICS] = gametic
  BY <1>2 DEF WindowInv
<1>5. /\ ran' = gametic /\ gametic' = gametic + 1 /\ counts' = counts - 1
      /\ at' = "update" /\ back' = "run"
      /\ UNCHANGED <<maketic, lowtic, ticdata>>
  BY <1>3, <1>4
<1>6. TypeOK'
  BY <1>2, <1>5 DEF TypeOK
<1>7. WindowInv'
  BY <1>2, <1>5 DEF WindowInv
<1>8. RunsOwnCommand' /\ NoSyncError'
  BY <1>2, <1>5 DEF RunsOwnCommand, NoSyncError
<1>9. CountsInv'
  BY <1>2, <1>5 DEF CountsInv
<1>10. QED BY <1>6, <1>7, <1>8, <1>9

\* What Count and Recheck take for lowtic is the tic to be built next.
LEMMA LooksInv == TicInv /\ (Count \/ Recheck) => TicInv'
<1> SUFFICES ASSUME TicInv, Count \/ Recheck PROVE TicInv'
  OBVIOUS
<1> USE DEF TicInv, update, seen
<1>1. UNCHANGED <<maketic, gametic, ticdata, ran>> /\ lowtic' = maketic
  BY DEF Count, Recheck
<1>2. at' \in {"wait", "start", "draw"}
  BY DEF Count, Recheck, Return, WindowInv, TypeOK
<1>3. TypeOK'
  <2>1. CASE Count
    <3>1. counts' \in 0 .. 3
      BY <2>1 DEF Count, AtLeastOne, WindowInv, TypeOK
    <3>2. QED BY <2>1, <3>1 DEF Count, TypeOK
  <2>2. CASE Recheck
    <3>1. looks' \in 0 .. 5
      BY <2>2 DEF Recheck, Return, TypeOK
    <3>2. QED BY <1>1, <1>2, <2>2, <3>1 DEF Recheck, TypeOK
  <2>3. QED BY <2>1, <2>2
<1>4. WindowInv'
  BY <1>1 DEF WindowInv
<1>5. RunsOwnCommand' /\ NoSyncError'
  BY <1>1, <1>2 DEF RunsOwnCommand, NoSyncError
<1>6. ~Running'
  BY <1>2 DEF Running
<1>7. CountsInv'
  BY <1>1, <1>6 DEF CountsInv, TypeOK
<1>8. QED BY <1>3, <1>4, <1>5, <1>7

\* TryRunTics goes on to run tics only if all of them have their commands.
LEMMA WaitInv == TicInv /\ Wait => TicInv'
<1> SUFFICES ASSUME TicInv, Wait PROVE TicInv'
  OBVIOUS
<1> USE DEF TicInv, Wait, update, try, seen
<1>1. TypeOK'
  BY DEF TypeOK
<1>2. WindowInv'
  BY DEF WindowInv
<1>3. RunsOwnCommand' /\ NoSyncError'
  BY DEF RunsOwnCommand, NoSyncError
<1>4. CountsInv'
  <2>1. CASE lowtic < gametic + counts
    <3>1. ~Running'
      BY <2>1 DEF Running
    <3>2. QED BY <3>1 DEF CountsInv
  <2>2. CASE ~(lowtic < gametic + counts)
    BY <2>2 DEF CountsInv, TypeOK
  <2>3. QED BY <2>1, <2>2
<1>5. QED BY <1>1, <1>2, <1>3, <1>4

\* Every step keeps the invariant.
LEMMA InvStep == TicInv /\ [Next]_vars => TicInv'
<1> SUFFICES ASSUME TicInv, [Next]_vars PROVE TicInv'
  OBVIOUS
<1> USE DEF update, try, seen, place
<1>1. CASE NetUpdate
  BY <1>1, NetUpdateInv
<1>2. CASE BuildNewTic
  BY <1>2, BuildNewTicInv
<1>3. CASE BuiltAtLast
  <2>1. TypeOK' /\ at' # "error"
    BY <1>3 DEF BuiltAtLast, TicInv, TypeOK
  <2>2. Running' => Running
    BY <1>3 DEF BuiltAtLast, Running, TicInv, TypeOK
  <2>3. QED BY <1>3, <2>1, <2>2, InvAside DEF BuiltAtLast
<1>4. CASE Enter
  <2>1. TypeOK' /\ at' # "error"
    BY <1>4, TimeType DEF Enter, TicInv, TypeOK
  <2>2. ~Running'
    BY <1>4 DEF Enter, Running
  <2>3. QED BY <1>4, <2>1, <2>2, InvAside DEF Enter
<1>5. CASE Count \/ Recheck
  BY <1>5, LooksInv
<1>6. CASE Wait
  BY <1>6, WaitInv
<1>7. CASE RunTic
  BY <1>7, RunTicInv
<1>8. CASE AllRun
  <2>1. TypeOK' /\ at' # "error"
    BY <1>8 DEF AllRun, Return, TicInv, TypeOK
  <2>2. ~Running'
    BY <1>8 DEF AllRun, Return, Running
  <2>3. QED BY <1>8, <2>1, <2>2, InvAside DEF AllRun
<1>9. CASE D_StartGameLoop
  <2>1. TypeOK' /\ at' # "error"
    BY <1>9, AdjustedType DEF D_StartGameLoop, TicInv, TypeOK
  <2>2. ~Running'
    BY <1>9 DEF D_StartGameLoop, Running
  <2>3. QED BY <1>9, <2>1, <2>2, InvAside DEF D_StartGameLoop
<1>10. CASE Draw
  <2>1. TypeOK' /\ at' # "error"
    BY <1>10 DEF Draw, TicInv, TypeOK
  <2>2. ~Running'
    BY <1>10 DEF Draw, Running
  <2>3. QED BY <1>10, <2>1, <2>2, InvAside DEF Draw
<1>11. CASE Tick
  <2>1. TypeOK' /\ at' # "error"
    BY <1>11, TicLoopAssumption DEF Tick, TicInv, TypeOK, NoSyncError
  <2>2. Running' => Running
    BY <1>11 DEF Tick, Running
  <2>3. QED BY <1>11, <2>1, <2>2, InvAside DEF Tick
<1>12. CASE UNCHANGED vars
  <2>1. TypeOK' /\ at' # "error"
    BY <1>12 DEF vars, TicInv, TypeOK, NoSyncError
  <2>2. Running' => Running
    BY <1>12 DEF vars, Running
  <2>3. QED BY <1>12, <2>1, <2>2, InvAside DEF vars
<1>13. QED
  BY <1>1, <1>2, <1>3, <1>4, <1>5, <1>6, <1>7, <1>8, <1>9, <1>10, <1>11, <1>12
  DEF Next, Doom

-----------------------------------------------------------------------------
(* The time, as long as it fits in an int. *)

\* A number that fits is left as it is.
LEMMA AsIntFits == ASSUME NEW n \in 0 .. IntMax PROVE AsInt(n) = n
<1> DEFINE m == n + IntMax + 1
<1>1. UintSize \in Nat \ {0} /\ m \in 0 .. UintSize - 1
  BY TicLoopAssumption DEF UintSize
<1>2. (UintSize * 0 + m) % UintSize = m
  BY <1>1
<1>3. UintSize * 0 + m = m
  BY <1>1
<1>4. (n + IntMax + 1) % UintSize = m
  BY <1>2, <1>3
<1>5. QED BY <1>4, TicLoopAssumption DEF AsInt

\* Then GetAdjustedTime tells the time.
LEMMA AdjustedFits ==
  ASSUME TimeFits, clock \in 0 .. MaxTime
  PROVE  GetAdjustedTime = RealTics(clock)
<1>1. MaxTime \in Nat /\ TICRATE \in Nat /\ TICRATE >= 1 /\ IntMax \in Nat /\ clock \in Nat
  BY TicLoopAssumption
<1>2. clock * TICRATE <= MaxTime * TICRATE /\ clock * TICRATE \in Nat
  BY <1>1
<1>3. clock * TICRATE >= clock
  BY <1>1
<1>4. clock \in 0 .. IntMax /\ clock * TICRATE \in 0 .. IntMax
  BY <1>1, <1>2, <1>3 DEF TimeFits
<1>5. AsInt(clock) = clock
  BY <1>4, AsIntFits
<1>6. AsInt(clock * TICRATE) = clock * TICRATE
  BY <1>4, AsIntFits
<1>7. GetAdjustedTime = Quot(clock * TICRATE, Second)
  BY <1>5, <1>6 DEF GetAdjustedTime
<1>8. clock * TICRATE >= 0
  BY <1>2
<1>9. QED BY <1>7, <1>8 DEF Quot, RealTics

\* Division by a number keeps the order.
LEMMA DivMonotone ==
  ASSUME NEW n \in Nat \ {0}, NEW a \in Nat, NEW b \in Nat, a <= b
  PROVE  a \div n <= b \div n
<1> DEFINE p == a \div n
           q == b \div n
<1>1. p \in Nat /\ a = n * p + (a % n) /\ a % n \in 0 .. n - 1
  OBVIOUS
<1>2. q \in Nat /\ b = n * q + (b % n) /\ b % n \in 0 .. n - 1
  OBVIOUS
<1> HIDE DEF p, q
<1> SUFFICES ASSUME p >= q + 1 PROVE FALSE
  BY <1>1, <1>2 DEF p, q
<1>3. n * p >= n * (q + 1)
  BY <1>1, <1>2
<1>4. n * (q + 1) = n * q + n
  BY <1>2
<1>5. QED BY <1>1, <1>2, <1>3, <1>4

\* Time goes on in tics as it does in the clock.
LEMMA RealTicsMonotone ==
  ASSUME NEW s \in Nat, NEW t \in Nat, s <= t
  PROVE  RealTics(s) \in Nat /\ RealTics(t) \in Nat /\ RealTics(s) <= RealTics(t)
<1>1. s * TICRATE \in Nat /\ t * TICRATE \in Nat /\ s * TICRATE <= t * TICRATE
  BY TicLoopAssumption
<1>2. Second \in Nat \ {0}
  BY TicLoopAssumption
<1>3. (s * TICRATE) \div Second <= (t * TICRATE) \div Second
  BY <1>1, <1>2, DivMonotone
<1>4. (s * TICRATE) \div Second \in Nat /\ (t * TICRATE) \div Second \in Nat
  BY <1>1, <1>2
<1>5. QED BY <1>3, <1>4 DEF RealTics

\* The loop begins in time.
LEMMA TimeInit == Init => TimeInv
<1> SUFFICES ASSUME Init PROVE TimeInv
  OBVIOUS
<1>1. RealTics(0) = 0
  <2>1. Second \in Nat \ {0} /\ 0 * TICRATE = 0
    BY TicLoopAssumption
  <2>2. 0 \div Second = 0
    BY <2>1
  <2>3. QED BY <2>1, <2>2 DEF RealTics
<1>2. QED BY <1>1 DEF Init, TimeInv

\* NetUpdate makes up for all the tics since it looked at the clock last.
LEMMA TimeNetUpdate ==
  ASSUME TimeFits, TicInv, TimeInv, NetUpdate
  PROVE  TimeInv'
<1>1. clock \in 0 .. MaxTime /\ clock \in Nat /\ looked \in Nat /\ looked <= clock
  BY TicLoopAssumption DEF TicInv, TypeOK
<1>2. RealTics(looked) \in Nat /\ RealTics(clock) \in Nat
      /\ RealTics(looked) <= RealTics(clock)
  BY <1>1, RealTicsMonotone
<1>3. GetAdjustedTime = RealTics(clock)
  BY <1>1, AdjustedFits
<1>4. lasttime = RealTics(looked) /\ skiptics = 0
  BY DEF TimeInv
<1>5. /\ lasttime' = RealTics(clock) /\ skiptics' = 0
      /\ newtics' = RealTics(clock) - RealTics(looked)
  BY <1>2, <1>3, <1>4 DEF NetUpdate
<1>6. looked' = clock
  BY DEF NetUpdate
<1>7. lasttime' = RealTics(looked')
  BY <1>5, <1>6 DEF RealTics
<1>8. due' = 1 => RealTics(clock) > RealTics(looked)
  BY <1>2 DEF NetUpdate
<1>9. newtics' >= 0 /\ (due' = 1 => newtics' > 0)
  BY <1>2, <1>5, <1>8
<1>10. RealTics(looked)' = RealTics(looked')
  BY DEF RealTics
<1>11. QED BY <1>5, <1>7, <1>9, <1>10 DEF TimeInv

\* Every step keeps the time.
LEMMA TimeStep ==
  ASSUME TimeFits, TicInv, TimeInv, [Next]_vars
  PROVE  TimeInv'
<1> USE DEF update, try, seen, place
<1>1. CASE NetUpdate
  BY <1>1, TimeNetUpdate
<1>2. CASE BuildNewTic
  <2>1. lasttime' = lasttime /\ looked' = looked /\ skiptics' = skiptics
    BY <1>2 DEF BuildNewTic
  <2>2. newtics' >= 0 /\ maketic' > gametic'
    BY <1>2 DEF BuildNewTic, TicInv, TypeOK, WindowInv
  <2>3. QED BY <2>1, <2>2 DEF TimeInv, RealTics
<1>3. CASE D_StartGameLoop
  <2>1. clock \in 0 .. MaxTime
    BY DEF TicInv, TypeOK
  <2>2. lasttime' = RealTics(clock)
    BY <1>3, <2>1, AdjustedFits DEF D_StartGameLoop
  <2>3. looked' = clock /\ due' = 0 /\ at' = "enter" /\ UNCHANGED <<skiptics, newtics>>
    BY <1>3 DEF D_StartGameLoop
  <2>4. QED BY <2>2, <2>3 DEF TimeInv, RealTics
<1>4. CASE BuiltAtLast
  <2>1. at' # "build"
    BY <1>4 DEF BuiltAtLast, TicInv, TypeOK
  <2>2. QED BY <1>4, <2>1 DEF BuiltAtLast, TimeInv, RealTics
<1>5. CASE Enter \/ Count \/ Wait \/ Recheck
  <2>1. at' # "build" /\ UNCHANGED <<lasttime, looked, skiptics, newtics>>
    BY <1>5 DEF Enter, Count, Wait, Recheck, Return
  <2>2. QED BY <2>1 DEF TimeInv, RealTics
<1>6. CASE RunTic \/ AllRun \/ Draw
  <2>1. at' # "build" /\ UNCHANGED <<lasttime, looked, skiptics, newtics>>
    BY <1>6 DEF RunTic, AllRun, Draw, Return
  <2>2. QED BY <2>1 DEF TimeInv, RealTics
<1>7. CASE Tick
  BY <1>7 DEF Tick, TimeInv, RealTics
<1>8. CASE UNCHANGED vars
  BY <1>8 DEF vars, TimeInv, RealTics
<1>9. QED
  BY <1>1, <1>2, <1>3, <1>4, <1>5, <1>6, <1>7, <1>8 DEF Next, Doom

\* A NetUpdate that found a tic passed leaves a command that waits.
LEMMA TimeLeaves ==
  ASSUME TicInv, TimeInv, [Next]_vars
  PROVE  at = "build" /\ at' # "build" /\ due = 1 => maketic' > gametic'
<1> SUFFICES ASSUME at = "build", at' # "build", due = 1
             PROVE  maketic' > gametic'
  OBVIOUS
<1>1. BuiltAtLast
  BY DEF Next, Doom, NetUpdate, BuildNewTic, Enter, Count, Wait, Recheck, RunTic, AllRun,
         D_StartGameLoop, Draw, Tick, vars, place
<1>2. maketic' = maketic /\ gametic' = gametic
  BY <1>1 DEF BuiltAtLast
<1>3. newtics > 0 \/ maketic > gametic
  BY DEF TimeInv
<1>4. CASE Room
  BY <1>1, <1>2, <1>3, <1>4 DEF BuiltAtLast, TicInv, TypeOK
<1>5. CASE ~Room
  BY <1>2, <1>5 DEF Room, TicInv, TypeOK
<1>6. QED BY <1>4, <1>5

-----------------------------------------------------------------------------
(* The theorems. *)

\* The commands that wait are few and each is in its place, TryRunTics runs
\* only tics that have one, and no tic of time is left out while time fits.
THEOREM Invariance == Spec => []IInv
<1>1. Init => IInv
  BY InvInit, TimeInit DEF IInv
<1>2. IInv /\ [Next]_vars => IInv'
  <2> SUFFICES ASSUME IInv, [Next]_vars PROVE IInv'
    OBVIOUS
  <2>1. TicInv'
    BY InvStep DEF IInv
  <2>2. ASSUME TimeFits PROVE TimeInv'
    BY <2>2, TimeStep DEF IInv
  <2>3. TimeFits' <=> TimeFits
    BY DEF TimeFits
  <2>4. QED BY <2>1, <2>2, <2>3 DEF IInv
<1>3. QED BY <1>1, <1>2, PTL DEF Spec

\* Every variable of the loop keeps its type.
THEOREM TypeCorrect == Spec => []TypeOK
<1>1. IInv => TypeOK
  BY DEF IInv, TicInv
<1>2. QED BY <1>1, Invariance, PTL

\* Every tic is run with the command built for it, whatever the clock does.
THEOREM OwnCommand == Spec => []RunsOwnCommand
<1>1. IInv => RunsOwnCommand
  BY DEF IInv, TicInv
<1>2. QED BY <1>1, Invariance, PTL

\* Neither of the I_Error calls of TryRunTics is ever reached.
THEOREM NoError == Spec => []NoSyncError
<1>1. IInv => NoSyncError
  BY DEF IInv, TicInv
<1>2. QED BY <1>1, Invariance, PTL

\* As long as the time in milliseconds times the tic rate fits in an int the
\* game moves on for every tic of time.
THEOREM TicsBuilt ==
  ASSUME TimeFits
  PROVE  Spec => TicsAreBuilt
<1>1. IInv /\ [Next]_vars =>
        [at = "build" /\ at' # "build" /\ due = 1 => maketic' > gametic']_vars
  BY TimeLeaves DEF IInv
<1>2. QED BY <1>1, Invariance, PTL DEF Spec, TicsAreBuilt
=============================================================================
