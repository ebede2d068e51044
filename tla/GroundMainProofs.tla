-------------------------- MODULE GroundMainProofs --------------------------
(***************************************************************************)
(* Proofs about GroundMain, for every size of the socket's buffer: the type *)
(* invariant, that main closes what it opens, and the bounds on what is     *)
(* shown and sent once the end has begun.                                   *)
(***************************************************************************)
EXTENDS GroundMain, TLAPS

\* The initial states satisfy the inductive invariant.
LEMMA InvInit == Init => IInv
<1> SUFFICES ASSUME Init PROVE IInv
  OBVIOUS
<1> USE DEF Init
<1>1. TypeOK
  BY GroundAssumption DEF GroundAssumption, TypeOK
<1>2. StartOpen
  BY DEF StartOpen
<1>3. LoopOpen
  BY DEF LoopOpen, InLoop
<1>4. LateInv
  BY DEF LateInv
<1>5. QED
  BY <1>1, <1>2, <1>3, <1>4 DEF IInv

\* Every step of the start keeps it, the steps that fail included.
LEMMA StartInv ==
  IInv /\ (display_init \/ receiver_init \/ input_init) => IInv'
<1> SUFFICES ASSUME IInv, display_init \/ receiver_init \/ input_init PROVE IInv'
  OBVIOUS
<1> USE DEF IInv, Try, Malloc, display_init, receiver_init, input_init, Alive,
        Display, Receiver, Decoder, world, counts
<1>1. TypeOK'
  BY DEF TypeOK, Resources
<1>2. StartOpen' /\ LoopOpen'
  <2> USE DEF StartOpen, LoopOpen, InLoop, Resources
  <2>1. CASE display_init
    BY <2>1
  <2>2. CASE Malloc
    BY <2>2
  <2>3. CASE Try("socket", {"udp_fd"}, "bind", {}, "display_shutdown")
    BY <2>3
  <2>4. CASE Try("bind", {}, "malloc", {"udp_fd"}, "display_shutdown")
    BY <2>4
  <2>5. CASE Try("avcodec_alloc", {"av_ctx"}, "avcodec_open", Receiver, "display_shutdown")
    BY <2>5
  <2>6. CASE Try("avcodec_open", {"av_frame", "av_pkt"}, "input_socket", Receiver,
                 "display_shutdown")
    BY <2>6
  <2>7. CASE input_init
    BY <2>7
  <2>8. QED
    BY <2>1, <2>2, <2>3, <2>4, <2>5, <2>6, <2>7
<1>3. LateInv'
  BY DEF TypeOK, LateInv
<1>4. QED
  BY <1>1, <1>2, <1>3

\* Every step of the loop keeps it.
LEMMA LoopInv == IInv /\ (Loop \/ PollEnd) => IInv'
<1> SUFFICES ASSUME IInv, Loop \/ PollEnd PROVE IInv'
  OBVIOUS
<1> USE DEF IInv, Loop, LoopTest, InputQuit, InputSend, Ending, Receive,
        PollEnd, Present, Delay, Alive, world, counts
<1>1. TypeOK'
  <2> USE GroundAssumption DEF GroundAssumption, TypeOK
  <2>1. CASE Receive
    BY <2>1 DEF Resources, Receiver, Decoder
  <2>2. CASE ~Receive
    BY <2>2
  <2>3. QED
    BY <2>1, <2>2
<1>2. StartOpen'
  BY DEF TypeOK, StartOpen
<1>3. LoopOpen'
  BY DEF TypeOK, LoopOpen, InLoop
<1>4. LateInv'
  BY DEF TypeOK, LateInv
<1>5. QED
  BY <1>1, <1>2, <1>3, <1>4

\* So does every step of the end.
LEMMA EndInv ==
  IInv /\ (input_shutdown \/ receiver_shutdown \/ display_shutdown \/ Return) => IInv'
<1> SUFFICES ASSUME IInv,
                    input_shutdown \/ receiver_shutdown \/ display_shutdown \/ Return
             PROVE  IInv'
  OBVIOUS
<1> USE DEF IInv, input_shutdown, receiver_shutdown, display_shutdown, Close,
        Return, Alive, world, counts
<1>1. TypeOK'
  BY DEF TypeOK
<1>2. StartOpen'
  BY DEF StartOpen
<1>3. LoopOpen'
  BY DEF TypeOK, LoopOpen, InLoop, Resources, Receiver, Decoder, Display
<1>4. LateInv'
  BY DEF TypeOK, LateInv
<1>5. QED
  BY <1>1, <1>2, <1>3, <1>4

\* And so does everything that comes from outside.
LEMMA OutsideInv == IInv /\ Outside => IInv'
<1> SUFFICES ASSUME IInv, Outside PROVE IInv'
  OBVIOUS
<1> USE DEF IInv, Outside, signal_handler, Kill, CloseWindow, Arrive, Alive,
        world, counts
<1>1. TypeOK'
  BY GroundAssumption DEF GroundAssumption, TypeOK
<1>2. StartOpen'
  BY DEF StartOpen
<1>3. LoopOpen'
  BY DEF LoopOpen, InLoop
<1>4. LateInv'
  BY DEF TypeOK, LateInv
<1>5. QED
  BY <1>1, <1>2, <1>3, <1>4

\* Every step of the program or of its surroundings is one of these.
LEMMA InvStep == IInv /\ [Next]_vars => IInv'
<1> SUFFICES ASSUME IInv, [Next]_vars PROVE IInv'
  OBVIOUS
<1>1. CASE Main
  BY <1>1, StartInv, LoopInv, EndInv DEF Main
<1>2. CASE Outside
  BY <1>2, OutsideInv
<1>3. CASE UNCHANGED vars
  BY <1>3 DEF vars, world, counts, IInv, TypeOK, StartOpen, LoopOpen, LateInv
<1>4. QED
  BY <1>1, <1>2, <1>3 DEF Next

\* What is open, and what was shown and sent late, follows at every moment
\* from where main is.
THEOREM Invariance == Spec => []IInv
BY InvInit, InvStep, PTL DEF Spec

\* The variables keep their types.
THEOREM TypeCorrect == Spec => []TypeOK
<1>1. IInv => TypeOK
  BY DEF IInv
<1>2. QED
  BY <1>1, Invariance, PTL

\* Whichever step of the start fails and however the loop ends, main closes
\* everything it opened, and the loop uses nothing that is not open.
THEOREM Closing == Spec => []ClosesWhatItOpens
<1>1. IInv => ClosesWhatItOpens
  BY DEF IInv, StartOpen, LoopOpen, ClosesWhatItOpens, InLoop
<1>2. QED
  BY <1>1, Invariance, PTL

\* Once the end has begun at most one picture is shown and one packet sent,
\* and none after the window was closed.
THEOREM StopsSoon == Spec => []StopsWithinARound
<1>1. IInv => StopsWithinARound
  BY DEF IInv, LateInv, StopsWithinARound
<1>2. QED
  BY <1>1, Invariance, PTL
=============================================================================
