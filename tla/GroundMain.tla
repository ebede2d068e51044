------------------------------ MODULE GroundMain ------------------------------
(***************************************************************************)
(* ground/main.c with the start and the end of display.c, receiver.c and    *)
(* input.c: one thread opens the window, the video socket with its decoder  *)
(* and the input socket, loops, and closes them again.  A signal, or the    *)
(* window being closed, clears g_running.                                   *)
(***************************************************************************)
EXTENDS Naturals

CONSTANT SocketBuffer  \* packets that the kernel holds for the video socket

ASSUME GroundAssumption == SocketBuffer \in Nat

Signals == {"SIGINT", "SIGTERM"}

\* What the three parts of the program open and close.
Display == {"sdl", "window", "renderer", "texture"}
Decoder == {"rgb_buffer", "h264_buf", "av_ctx", "av_frame", "av_pkt", "sws_ctx"}
Receiver == {"udp_fd"} \cup Decoder
Resources == Display \cup Receiver \cup {"g_sock"}

VARIABLES
  process,   \* "running", "returned" from main or "killed" by a signal
  at,        \* where main is
  g_running,
  open,      \* the resources that are open
  caught,    \* signals that signal_handler has handled
  quit,      \* 1: an SDL_QUIT waits in SDL's event queue
  packets,   \* packets in the buffer of the video socket
  got_frame,
  shown, sent  \* history: pictures shown since g_running was cleared, inputs
               \* sent since then or since the window was closed

world == <<caught, quit, packets>>
counts == <<shown, sent>>
vars == <<process, at, g_running, open, world, got_frame, counts>>

Init ==
  /\ process = "running" /\ at = "SDL_Init"
  /\ g_running = 1
  /\ open = {}
  /\ caught = {} /\ quit = 0 /\ packets = 0
  /\ got_frame = 0
  /\ shown = 0 /\ sent = 0

Alive == process = "running"

-----------------------------------------------------------------------------
(* The start.  A step that fails closes what its function has opened;       *)
(* main then closes the parts that were opened before.                      *)

Try(place, gets, next, closes, failing) ==
  /\ Alive /\ at = place
  /\ \/ open' = open \cup gets /\ at' = next
     \/ open' = open \ closes /\ at' = failing
  /\ UNCHANGED <<process, g_running, world, got_frame, counts>>

\* Mutant: the texture cannot be created and the renderer stays open.
display_init_leaks ==
  \/ Try("SDL_Init", {"sdl"}, "SDL_CreateWindow", {}, "return")
  \/ Try("SDL_CreateWindow", {"window"}, "SDL_CreateRenderer", {"sdl"}, "return")
  \/ Try("SDL_CreateRenderer", {"renderer"}, "SDL_CreateTexture", {"window", "sdl"}, "return")
  \/ Try("SDL_CreateTexture", {"texture"}, "socket", {"window", "sdl"}, "return")

display_init ==
  \/ Try("SDL_Init", {"sdl"}, "SDL_CreateWindow", {}, "return")
  \/ Try("SDL_CreateWindow", {"window"}, "SDL_CreateRenderer", {"sdl"}, "return")
  \/ Try("SDL_CreateRenderer", {"renderer"}, "SDL_CreateTexture", {"window", "sdl"}, "return")
  \/ Try("SDL_CreateTexture", {"texture"}, "socket", {"renderer", "window", "sdl"}, "return")

\* One of the two buffers may be there when the other is not: what is opened
\* is closed again by receiver_shutdown.
Malloc ==
  /\ Alive /\ at = "malloc"
  /\ \E got \in SUBSET {"rgb_buffer", "h264_buf"} :
       IF got = {"rgb_buffer", "h264_buf"}
       THEN open' = open \cup got /\ at' = "avcodec_alloc"
       ELSE open' = (open \cup got) \ Receiver /\ at' = "display_shutdown"
  /\ UNCHANGED <<process, g_running, world, got_frame, counts>>

\* av_frame_alloc and av_packet_alloc are not checked: here they succeed.
receiver_init ==
  \/ Try("socket", {"udp_fd"}, "bind", {}, "display_shutdown")
  \/ Try("bind", {}, "malloc", {"udp_fd"}, "display_shutdown")
  \/ Malloc
  \/ Try("avcodec_alloc", {"av_ctx"}, "avcodec_open", Receiver, "display_shutdown")
  \/ Try("avcodec_open", {"av_frame", "av_pkt"}, "input_socket", Receiver, "display_shutdown")

input_init ==
  \/ Try("input_socket", {"g_sock"}, "inet_pton", {}, "receiver_shutdown")
  \/ Try("inet_pton", {}, "loop", {"g_sock"}, "receiver_shutdown")

-----------------------------------------------------------------------------
(* The loop. *)

LoopTest ==
  /\ Alive /\ at = "loop"
  /\ at' = IF g_running = 1 THEN "input_poll" ELSE "input_shutdown"
  /\ UNCHANGED <<process, g_running, open, world, got_frame, counts>>

\* SDL_QUIT ends input_poll at once; otherwise the keys are sent if it is time.
\* Then main goes on with receiver_poll, either way.
InputQuit ==
  /\ Alive /\ at = "input_poll" /\ quit = 1
  /\ g_running' = 0
  /\ quit' = 0
  /\ at' = "receiver_poll"
  /\ got_frame' = 0
  /\ UNCHANGED <<process, open, caught, packets, counts>>

Ending == g_running = 0 \/ quit = 1

\* Mutant: the transmission comes before the look at the events.
InputSendQuitting ==
  /\ Alive /\ at = "input_poll"
  /\ sent' \in {sent, IF Ending THEN sent + 1 ELSE sent}
  /\ at' = "receiver_poll"
  /\ got_frame' = 0
  /\ UNCHANGED <<process, g_running, open, world, shown>>

InputSend ==
  /\ Alive /\ at = "input_poll" /\ quit = 0
  /\ sent' \in {sent, IF Ending THEN sent + 1 ELSE sent}
  /\ at' = "receiver_poll"
  /\ got_frame' = 0
  /\ UNCHANGED <<process, g_running, open, world, shown>>

\* Mutant: what recvfrom returned is not looked at.
ReceiveUnchecked ==
  /\ Alive /\ at = "receiver_poll"
  /\ packets' = packets - 1
  /\ \/ UNCHANGED <<got_frame, open>>
     \/ got_frame' = 1 /\ open' = open \cup {"sws_ctx"}
  /\ UNCHANGED <<process, at, g_running, caught, quit, counts>>

\* One recvfrom of receiver_poll; the packet may complete a picture, for
\* which the first time sws_ctx is made.
Receive ==
  /\ Alive /\ at = "receiver_poll" /\ packets > 0
  /\ packets' = packets - 1
  /\ \/ UNCHANGED <<got_frame, open>>
     \/ got_frame' = 1 /\ open' = open \cup {"sws_ctx"}
  /\ UNCHANGED <<process, at, g_running, caught, quit, counts>>

\* recvfrom finds nothing, or fails.
PollEnd ==
  /\ Alive /\ at = "receiver_poll" /\ packets = 0
  /\ at' = IF got_frame = 1 THEN "present" ELSE "delay"
  /\ UNCHANGED <<process, g_running, open, world, got_frame, counts>>

\* Mutant: after a picture the loop goes on without looking at g_running.
PresentPolls ==
  /\ Alive /\ at = "present"
  /\ at' = "receiver_poll"
  /\ shown' = shown + (1 - g_running)
  /\ UNCHANGED <<process, g_running, open, world, got_frame, sent>>

Present ==
  /\ Alive /\ at = "present"
  /\ at' = "loop"
  /\ shown' = shown + (1 - g_running)
  /\ UNCHANGED <<process, g_running, open, world, got_frame, sent>>

Delay ==
  /\ Alive /\ at = "delay"
  /\ at' = "loop"
  /\ UNCHANGED <<process, g_running, open, world, got_frame, counts>>

Loop == LoopTest \/ InputQuit \/ InputSend \/ Receive \/ Present \/ Delay

-----------------------------------------------------------------------------
(* The end. *)

Close(place, what, next) ==
  /\ Alive /\ at = place
  /\ open' = open \ what
  /\ at' = next
  /\ UNCHANGED <<process, g_running, world, got_frame, counts>>

\* Mutant: the conversion context, opened late, is forgotten.
receiver_shutdown_forgets ==
  Close("receiver_shutdown", Receiver \ {"sws_ctx"}, "display_shutdown")

input_shutdown == Close("input_shutdown", {"g_sock"}, "receiver_shutdown")
receiver_shutdown == Close("receiver_shutdown", Receiver, "display_shutdown")
display_shutdown == Close("display_shutdown", Display, "return")

Return ==
  /\ Alive /\ at = "return"
  /\ process' = "returned"
  /\ UNCHANGED <<at, g_running, open, world, got_frame, counts>>

Main ==
  \/ display_init \/ receiver_init \/ input_init
  \/ Loop \/ PollEnd
  \/ input_shutdown \/ receiver_shutdown \/ display_shutdown \/ Return

-----------------------------------------------------------------------------
(* The outside. *)

\* With -std=c99 and _POSIX_C_SOURCE, signal() of the C library gives the
\* System V semantics: a handler serves once, then the default is back.
signal_handler(sig) ==
  /\ Alive /\ sig \notin caught
  /\ caught' = caught \cup {sig}
  /\ g_running' = 0
  /\ UNCHANGED <<process, at, open, quit, packets, got_frame, counts>>

\* A second signal of a kind ends the process.
Kill(sig) ==
  /\ Alive /\ sig \in caught
  /\ process' = "killed"
  /\ UNCHANGED <<at, g_running, open, world, got_frame, counts>>

\* The player closes the window.
CloseWindow ==
  /\ Alive /\ "window" \in open
  /\ quit' = 1
  /\ UNCHANGED <<process, at, g_running, open, caught, packets, got_frame, counts>>

Arrive ==
  /\ Alive /\ "udp_fd" \in open /\ packets < SocketBuffer
  /\ packets' = packets + 1
  /\ UNCHANGED <<process, at, g_running, open, caught, quit, got_frame, counts>>

Outside == (\E sig \in Signals : signal_handler(sig) \/ Kill(sig)) \/ CloseWindow \/ Arrive

-----------------------------------------------------------------------------

Next == Main \/ Outside

Spec == Init /\ [][Next]_vars

\* main goes on; and a poll does not miss for ever that the socket is empty.
FairSpec == Spec /\ WF_vars(Main) /\ SF_vars(PollEnd)

-----------------------------------------------------------------------------
(* Properties. *)

TypeOK ==
  /\ process \in {"running", "returned", "killed"}
  /\ at \in {"SDL_Init", "SDL_CreateWindow", "SDL_CreateRenderer", "SDL_CreateTexture",
             "socket", "bind", "malloc", "avcodec_alloc", "avcodec_open",
             "input_socket", "inet_pton", "loop", "input_poll", "receiver_poll",
             "present", "delay", "input_shutdown", "receiver_shutdown",
             "display_shutdown", "return"}
  /\ g_running \in {0, 1}
  /\ open \subseteq Resources
  /\ caught \subseteq Signals /\ quit \in {0, 1}
  /\ packets \in 0 .. SocketBuffer
  /\ got_frame \in {0, 1}
  /\ shown \in Nat /\ sent \in Nat

InLoop == {"loop", "input_poll", "receiver_poll", "present", "delay"}

\* Whichever step of the start fails, and however the loop ends, main closes
\* everything that is open; and inside the loop everything it uses is open.
ClosesWhatItOpens ==
  /\ process = "returned" => open = {}
  /\ at \in InLoop => Resources \ {"sws_ctx"} \subseteq open
  /\ at = "present" => "sws_ctx" \in open

\* Once g_running is cleared, at any point, at most one more picture is shown
\* and one more packet sent; if it was the window that was closed, none of
\* the keys still held is sent again.
StopsWithinARound ==
  /\ shown <= 1 /\ sent <= 1
  /\ g_running = 0 /\ caught = {} => sent = 0

Stopped == (process = "returned" /\ open = {}) \/ process = "killed"

\* A signal or the closed window ends the program, with everything closed
\* unless a second signal kills it, provided that packets do not always come
\* faster than they are decoded: receiver_poll only returns, and g_running is
\* only looked at, once the socket is empty.
StopsWhenTold == []<>(packets = 0) => (Ending ~> Stopped)

-----------------------------------------------------------------------------
(* Why the first three hold: what is open follows from where main is, and   *)
(* what was shown and sent late from the round in which it was.             *)

StartOpen ==
  /\ at = "SDL_Init" => open = {}
  /\ at = "SDL_CreateWindow" => open = {"sdl"}
  /\ at = "SDL_CreateRenderer" => open = {"sdl", "window"}
  /\ at = "SDL_CreateTexture" => open = {"sdl", "window", "renderer"}
  /\ at = "socket" => open = Display
  /\ at \in {"bind", "malloc"} => open = Display \cup {"udp_fd"}
  /\ at = "avcodec_alloc" => open = Display \cup {"udp_fd", "rgb_buffer", "h264_buf"}
  /\ at = "avcodec_open" =>
       open = Display \cup {"udp_fd", "rgb_buffer", "h264_buf", "av_ctx"}
  /\ at = "input_socket" => open = (Display \cup Receiver) \ {"sws_ctx"}
  /\ at = "inet_pton" => open = Resources \ {"sws_ctx"}

LoopOpen ==
  /\ at \in InLoop \cup {"input_shutdown"} => Resources \ {"sws_ctx"} \subseteq open
  /\ at \in {"receiver_poll", "present"} /\ got_frame = 1 => "sws_ctx" \in open
  /\ at = "present" => got_frame = 1
  /\ at = "receiver_shutdown" => "g_sock" \notin open
  /\ at = "display_shutdown" => open \subseteq Display
  /\ at = "return" => open = {}
  /\ process = "returned" => at = "return"

LateInv ==
  /\ g_running = 1 => shown = 0 /\ sent = 0
  /\ at = "input_poll" => shown = 0 /\ sent = 0 /\ (g_running = 0 => caught # {})
  /\ at \in {"receiver_poll", "present", "delay"} => shown = 0
  /\ shown <= 1 /\ sent <= 1
  /\ g_running = 0 /\ caught = {} => sent = 0

IInv == TypeOK /\ StartOpen /\ LoopOpen /\ LateInv
=============================================================================
