---------------------------- MODULE SatelliteMain ----------------------------
(***************************************************************************)
(* satellite/main.c: the start and the end of the satellite process.  main  *)
(* opens the two sockets, starts the DOOM thread and the encoder thread and *)
(* waits for both; SIGINT and SIGTERM clear g_running, which only the       *)
(* encoder thread looks at.  The DOOM thread leaves the engine by exit()    *)
(* alone: D_DoomLoop never returns.                                         *)
(***************************************************************************)
EXTENDS Naturals

CONSTANT MaxFrames  \* bound: frames the encoder thread sends

ASSUME SatelliteAssumption == MaxFrames \in Nat

Signals == {"SIGINT", "SIGTERM"}

VARIABLES
  process,        \* "running", "returned" from main, left by exit() or
                  \* "killed" by a signal
  main, doom, encoder,  \* where the three threads are
  g_running,
  caught,               \* signals that signal_handler has handled
  open,                 \* the sockets and the encoder context that are open
  frames, late          \* frames sent, and sent since g_running was cleared

threads == <<main, doom, encoder>>
counts == <<frames, late>>
vars == <<process, threads, g_running, caught, open, counts>>

Init ==
  /\ process = "running"
  /\ main = "uplink_init" /\ doom = "none" /\ encoder = "none"
  /\ g_running = 1
  /\ caught = {}
  /\ open = {}
  /\ frames = 0 /\ late = 0

Alive == process = "running"

-----------------------------------------------------------------------------
(* main. *)

Return == process' = "returned"

uplink_init ==
  /\ Alive /\ main = "uplink_init"
  /\ \/ /\ open' = open \cup {"uplink"}
        /\ main' = "downlink_init"
        /\ UNCHANGED process
     \/ /\ Return
        /\ UNCHANGED <<main, open>>
  /\ UNCHANGED <<doom, encoder, g_running, caught, counts>>

\* Mutant: the uplink socket is left open.
downlink_init_leaks ==
  /\ Alive /\ main = "downlink_init"
  /\ \/ /\ open' = open \cup {"downlink"}
        /\ main' = "create_doom"
        /\ UNCHANGED process
     \/ /\ Return
        /\ UNCHANGED <<main, open>>
  /\ UNCHANGED <<doom, encoder, g_running, caught, counts>>

\* If it fails the uplink is shut down before main returns.
downlink_init ==
  /\ Alive /\ main = "downlink_init"
  /\ \/ /\ open' = open \cup {"downlink"}
        /\ main' = "create_doom"
        /\ UNCHANGED process
     \/ /\ open' = open \ {"uplink"}
        /\ Return
        /\ UNCHANGED main
  /\ UNCHANGED <<doom, encoder, g_running, caught, counts>>

CreateDoom ==
  /\ Alive /\ main = "create_doom"
  /\ \/ /\ doom' = "engine"
        /\ main' = "create_encoder"
        /\ UNCHANGED <<process, open>>
     \/ /\ open' = open \ {"uplink", "downlink"}
        /\ Return
        /\ UNCHANGED <<main, doom>>
  /\ UNCHANGED <<encoder, g_running, caught, counts>>

\* If the encoder thread cannot be created main clears g_running.  Either
\* way it goes on to pthread_join(g_doom_thread), and as D_DoomLoop never
\* returns neither does the join: nothing after it is ever reached.
CreateEncoder ==
  /\ Alive /\ main = "create_encoder"
  /\ main' = "join_doom"
  /\ \/ /\ encoder' = "encoder_init"
        /\ UNCHANGED g_running
     \/ /\ g_running' = 0
        /\ UNCHANGED encoder
  /\ UNCHANGED <<process, doom, open, caught, counts>>

Main == uplink_init \/ downlink_init \/ CreateDoom \/ CreateEncoder

-----------------------------------------------------------------------------
(* Signals and the DOOM thread. *)

\* SIGINT or SIGTERM, handled on whatever thread.  With -std=c99 and
\* _POSIX_C_SOURCE, signal() of the C library gives the System V semantics:
\* a handler serves once, then the default is back.
signal_handler(sig) ==
  /\ Alive /\ sig \notin caught
  /\ caught' = caught \cup {sig}
  /\ g_running' = 0
  /\ UNCHANGED <<process, threads, open, counts>>

\* A second signal of a kind ends the process.
Kill(sig) ==
  /\ Alive /\ sig \in caught
  /\ process' = "killed"
  /\ UNCHANGED <<threads, g_running, caught, open, counts>>

\* I_Quit or I_Error: exit() ends the process, wherever the others are.
Exit ==
  /\ Alive /\ doom = "engine"
  /\ process' = "exited"
  /\ UNCHANGED <<threads, g_running, open, caught, counts>>

-----------------------------------------------------------------------------
(* The encoder thread. *)

encoder_init ==
  /\ Alive /\ encoder = "encoder_init"
  /\ \/ /\ open' = open \cup {"x264"}
        /\ encoder' = "loop"
        /\ UNCHANGED g_running
     \/ /\ g_running' = 0
        /\ encoder' = "ended"
        /\ UNCHANGED open
  /\ UNCHANGED <<process, main, doom, caught, counts>>

\* while (g_running)
LoopTest ==
  /\ Alive /\ encoder = "loop"
  /\ encoder' = IF g_running = 1 THEN "read" ELSE "shutdown"
  /\ UNCHANGED <<process, main, doom, g_running, open, caught, counts>>

\* The ring is empty, or x264 makes nothing of the frame.
NothingToSend ==
  /\ Alive /\ encoder = "read"
  /\ encoder' = "sleep"
  /\ UNCHANGED <<process, main, doom, g_running, open, caught, counts>>

FrameRead ==
  /\ Alive /\ encoder = "read" /\ frames < MaxFrames
  /\ encoder' = "send"
  /\ UNCHANGED <<process, main, doom, g_running, open, caught, counts>>

\* Mutant: the frame is sent again and again.
SendFrameRepeats ==
  /\ Alive /\ encoder = "send"
  /\ frames' = frames + 1
  /\ late' = IF g_running = 1 THEN late ELSE late + 1
  /\ UNCHANGED <<process, threads, g_running, open, caught>>

SendFrame ==
  /\ Alive /\ encoder = "send"
  /\ frames' = frames + 1
  /\ late' = IF g_running = 1 THEN late ELSE late + 1
  /\ encoder' = "sleep"
  /\ UNCHANGED <<process, main, doom, g_running, open, caught>>

\* Mutant: after its sleep the loop goes on without looking at g_running.
SleepReads ==
  /\ Alive /\ encoder = "sleep"
  /\ encoder' = "read"
  /\ UNCHANGED <<process, main, doom, g_running, open, caught, counts>>

\* clock_nanosleep until the next frame is due.
Sleep ==
  /\ Alive /\ encoder = "sleep"
  /\ encoder' = "loop"
  /\ UNCHANGED <<process, main, doom, g_running, open, caught, counts>>

\* Mutant: the thread ends and leaves the encoder context open.
encoder_shutdown_skipped ==
  /\ Alive /\ encoder = "shutdown"
  /\ encoder' = "ended"
  /\ UNCHANGED <<process, main, doom, g_running, open, caught, counts>>

encoder_shutdown ==
  /\ Alive /\ encoder = "shutdown"
  /\ open' = open \ {"x264"}
  /\ encoder' = "ended"
  /\ UNCHANGED <<process, main, doom, g_running, caught, counts>>

Encoder ==
  \/ encoder_init \/ LoopTest \/ NothingToSend \/ FrameRead \/ SendFrame
  \/ Sleep \/ encoder_shutdown

-----------------------------------------------------------------------------

Signalled == \E sig \in Signals : signal_handler(sig) \/ Kill(sig)

Next == Main \/ Signalled \/ Exit \/ Encoder

Spec == Init /\ [][Next]_vars

\* Every thread that can run does; signals and the end of the game come
\* when they please.
FairSpec == Spec /\ WF_vars(Main) /\ WF_vars(Encoder)

-----------------------------------------------------------------------------
(* Properties. *)

TypeOK ==
  /\ process \in {"running", "returned", "exited", "killed"}
  /\ main \in {"uplink_init", "downlink_init", "create_doom",
               "create_encoder", "join_doom"}
  /\ doom \in {"none", "engine"}
  /\ encoder \in {"none", "encoder_init", "loop", "read", "send", "sleep",
                  "shutdown", "ended"}
  /\ g_running \in {0, 1}
  /\ caught \subseteq Signals
  /\ open \subseteq {"uplink", "downlink", "x264"}
  /\ frames \in 0 .. MaxFrames /\ late \in 0 .. frames

\* Whichever step of the start fails, main undoes the steps before it; and
\* while a thread runs, what it uses is open.
ResourcesMatchThreads ==
  /\ process = "returned" => open = {}
  /\ Alive /\ doom = "engine" => "uplink" \in open
  /\ Alive /\ encoder \in {"read", "send", "sleep"} => {"downlink", "x264"} \subseteq open
  /\ encoder = "ended" => "x264" \notin open

\* Once g_running is cleared, by whom and whenever, at most the frame in
\* hand is still sent.
StopsWithinAFrame == late <= 1

\* Once g_running is cleared the encoder thread, if it runs, closes its
\* encoder and ends, unless the process ends before.
EncoderStops ==
  g_running = 0 /\ encoder # "none"
    ~> ~Alive \/ (encoder = "ended" /\ "x264" \notin open)

\* Clearing g_running, which Ctrl+C does, ends the process.
ShutdownCompletes == g_running = 0 ~> ~Alive

-----------------------------------------------------------------------------
(* Why the first three hold: what is open follows from where main and the   *)
(* encoder thread are, and a frame sent late leaves the encoder thread at a *)
(* place from which the next test of g_running ends it.                     *)

StartInv ==
  /\ main \in {"uplink_init", "downlink_init", "create_doom"} => doom = "none"
  /\ main # "join_doom" => encoder = "none"
  /\ process = "returned" => doom = "none" /\ encoder = "none" /\ open = {}
  /\ Alive =>
       /\ "uplink" \in open <=> main # "uplink_init"
       /\ "downlink" \in open <=> main \notin {"uplink_init", "downlink_init"}

EncoderInv ==
  /\ "x264" \in open <=> encoder \in {"loop", "read", "send", "sleep", "shutdown"}
  /\ encoder = "send" => frames < MaxFrames

LateInv ==
  /\ g_running = 1 => late = 0
  /\ late <= 1
  /\ late = 1 => encoder \in {"loop", "sleep", "shutdown", "ended"}

IInv == TypeOK /\ StartInv /\ EncoderInv /\ LateInv
=============================================================================
