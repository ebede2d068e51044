------------------------ MODULE SatelliteMainProofs ------------------------
(***************************************************************************)
(* Proofs about SatelliteMain, for every number of frames: the type         *)
(* invariant, the agreement of open resources with running threads, and the *)
(* bound on what is sent after g_running is cleared.                        *)
(***************************************************************************)
EXTENDS SatelliteMain, TLAPS

\* The initial states satisfy the inductive invariant.
LEMMA InvInit == Init => IInv
BY SatelliteAssumption
   DEF SatelliteAssumption, Init, IInv, TypeOK, StartInv, EncoderInv, LateInv, Alive

\* Every step of main keeps it.
LEMMA MainInv == IInv /\ Main => IInv'
<1> SUFFICES ASSUME IInv, Main PROVE IInv'
  OBVIOUS
<1> USE SatelliteAssumption
    DEF SatelliteAssumption, IInv, TypeOK, StartInv, EncoderInv, LateInv,
        Alive, counts, threads
<1>1. CASE uplink_init
  BY <1>1 DEF uplink_init, Return
<1>2. CASE downlink_init
  BY <1>2 DEF downlink_init, Return
<1>3. CASE CreateDoom
  BY <1>3 DEF CreateDoom, Return
<1>4. CASE CreateEncoder
  BY <1>4 DEF CreateEncoder
<1>5. QED
  BY <1>1, <1>2, <1>3, <1>4 DEF Main

\* Every step of the encoder thread keeps it.
LEMMA EncoderThreadInv == IInv /\ Encoder => IInv'
<1> SUFFICES ASSUME IInv, Encoder PROVE IInv'
  OBVIOUS
<1> USE SatelliteAssumption
    DEF SatelliteAssumption, IInv, TypeOK, StartInv, EncoderInv, LateInv,
        Alive, counts, threads
<1>1. CASE encoder_init
  BY <1>1 DEF encoder_init
<1>2. CASE LoopTest
  BY <1>2 DEF LoopTest
<1>3. CASE NothingToSend
  BY <1>3 DEF NothingToSend
<1>4. CASE FrameRead
  BY <1>4 DEF FrameRead
<1>5. CASE SendFrame
  BY <1>5 DEF SendFrame
<1>6. CASE Sleep
  BY <1>6 DEF Sleep
<1>7. CASE encoder_shutdown
  BY <1>7 DEF encoder_shutdown
<1>8. QED
  BY <1>1, <1>2, <1>3, <1>4, <1>5, <1>6, <1>7 DEF Encoder

\* So does every step of the process.
LEMMA InvStep == IInv /\ [Next]_vars => IInv'
<1> SUFFICES ASSUME IInv, [Next]_vars PROVE IInv'
  OBVIOUS
<1>1. CASE Main
  BY <1>1, MainInv
<1>2. CASE Encoder
  BY <1>2, EncoderThreadInv
<1>3. CASE Signalled
  BY <1>3 DEF Signalled, signal_handler, Kill, IInv, TypeOK, StartInv, EncoderInv, LateInv,
              Alive, counts, threads
<1>4. CASE Exit
  BY <1>4 DEF Exit, IInv, TypeOK, StartInv, EncoderInv, LateInv,
              Alive, counts, threads
<1>5. CASE UNCHANGED vars
  BY <1>5 DEF vars, IInv, TypeOK, StartInv, EncoderInv, LateInv,
              Alive, counts, threads
<1>6. QED
  BY <1>1, <1>2, <1>3, <1>4, <1>5 DEF Next

\* What is open, and how many frames are sent late, follows at every moment
\* from where main and the encoder thread are.
THEOREM Invariance == Spec => []IInv
BY InvInit, InvStep, PTL DEF Spec

\* The variables keep their types.
THEOREM TypeCorrect == Spec => []TypeOK
<1>1. IInv => TypeOK
  BY DEF IInv
<1>2. QED
  BY <1>1, Invariance, PTL

\* Whichever step of the start fails nothing is left open, and no thread
\* uses a socket or an encoder context that is not open.
THEOREM Resources == Spec => []ResourcesMatchThreads
<1>1. IInv => ResourcesMatchThreads
  BY DEF IInv, TypeOK, StartInv, EncoderInv, ResourcesMatchThreads, Alive
<1>2. QED
  BY <1>1, Invariance, PTL

\* At most one frame is sent after g_running is cleared.
THEOREM StopsSoon == Spec => []StopsWithinAFrame
<1>1. IInv => StopsWithinAFrame
  BY DEF IInv, LateInv, StopsWithinAFrame
<1>2. QED
  BY <1>1, Invariance, PTL
=============================================================================
