------------------------------- MODULE Monitor -------------------------------
(***************************************************************************)
(* monitoring/monitor.py: the main thread captures packets and counts them, *)
(* a daemon thread writes what was counted in each interval to InfluxDB.    *)
(* The two threads share TrafficStats, whose methods work under a lock: the *)
(* steps within a method are steps of their own, so that the lock is what   *)
(* keeps the counters right.  The bytes are counted exactly like the        *)
(* packets and left out.                                                    *)
(***************************************************************************)
EXTENDS Naturals

CONSTANT MaxPackets  \* bound: packets captured that are counted

ASSUME MonitorAssumption == MaxPackets \in Nat

Directions == {"uplink", "downlink"}
UPLINK_PORT == 5000
DOWNLINK_PORT == 5001
Ports == {UPLINK_PORT, DOWNLINK_PORT}

VARIABLES
  running,
  lock,             \* stats.lock: "free", or the thread that holds it
  main,             \* where the main thread is
  export,           \* where the export thread is
  interval, total,  \* stats: packets of this interval, and of all intervals
  adding,           \* the direction that add_uplink or add_downlink is about
  data,             \* what get_and_reset_interval gave the export thread
  final_stats,      \* what it gave the main thread
  captured,         \* history: packets sent to each of the ports
  written, lost,    \* history: packets in points written, in writes that failed
  unsent            \* history: packets of the interval that main took

stats == <<interval, total>>
history == <<written, lost, unsent>>
vars == <<running, lock, main, export, stats, adding, data, final_stats, captured, history>>

Zero == [d \in Directions |-> 0]

Init ==
  /\ running = TRUE /\ lock = "free"
  /\ main = "connect" /\ export = "none"
  /\ interval = Zero /\ total = Zero /\ adding = "uplink"
  /\ data = [interval |-> Zero, total |-> Zero]
  /\ final_stats = Zero
  /\ captured = [port \in Ports |-> 0]
  /\ written = Zero /\ lost = Zero /\ unsent = Zero

Alive == main \notin {"ended", "failed"}

-----------------------------------------------------------------------------
(* The main thread. *)

\* The database is created and the export thread started, or main exits.
Connect ==
  /\ main = "connect"
  /\ \/ main' = "sniff" /\ export' = "test"
     \/ main' = "failed" /\ UNCHANGED export
  /\ UNCHANGED <<running, lock, stats, adding, data, final_stats, captured, history>>

\* "Inverted": what goes to the uplink's port is counted as downlink.
Direction(port) == IF port = UPLINK_PORT THEN "downlink" ELSE "uplink"

\* Mutant: the counters are changed without the lock.
packet_callback_unlocked(port) ==
  /\ main = "sniff" /\ captured[UPLINK_PORT] + captured[DOWNLINK_PORT] < MaxPackets
  /\ captured' = [captured EXCEPT ![port] = @ + 1]
  /\ adding' = Direction(port)
  /\ interval' = [interval EXCEPT ![adding'] = @ + 1]
  /\ main' = "add"
  /\ UNCHANGED <<running, lock, export, total, data, final_stats, history>>

\* add_uplink, add_downlink: the lock, and the counters of the interval.
packet_callback(port) ==
  /\ main = "sniff" /\ captured[UPLINK_PORT] + captured[DOWNLINK_PORT] < MaxPackets
  /\ lock = "free" /\ lock' = "main"
  /\ captured' = [captured EXCEPT ![port] = @ + 1]
  /\ adding' = Direction(port)
  /\ interval' = [interval EXCEPT ![adding'] = @ + 1]
  /\ main' = "add"
  /\ UNCHANGED <<running, export, total, data, final_stats, history>>

\* Mutant: the packet is not added to the total.
AddNothing ==
  /\ main = "add"
  /\ main' = "stop_filter" /\ lock' = "free"
  /\ UNCHANGED <<running, export, stats, adding, data, final_stats, captured, history>>

\* The counters of all intervals, and the end of the method.
AddTotal ==
  /\ main = "add"
  /\ total' = [total EXCEPT ![adding] = @ + 1]
  /\ main' = "stop_filter" /\ lock' = "free"
  /\ UNCHANGED <<running, export, interval, adding, data, final_stats, captured, history>>

\* The capture filter takes packets from the two ports as well: ignored.
OtherPacket ==
  /\ main = "sniff"
  /\ main' = "stop_filter"
  /\ UNCHANGED <<running, lock, export, stats, adding, data, final_stats, captured, history>>

\* Mutant: the capture never stops.
stop_filter_never ==
  /\ main = "stop_filter"
  /\ main' = "sniff"
  /\ UNCHANGED <<running, lock, export, stats, adding, data, final_stats, captured, history>>

\* The only place where the capture looks at running, once for each packet.
stop_filter ==
  /\ main = "stop_filter"
  /\ main' = IF running THEN "sniff" ELSE "join"
  /\ UNCHANGED <<running, lock, export, stats, adding, data, final_stats, captured, history>>

\* sniff raises an exception: sys.exit(1).
CaptureFails ==
  /\ main = "sniff"
  /\ main' = "failed"
  /\ UNCHANGED <<running, lock, export, stats, adding, data, final_stats, captured, history>>

\* export_thread.join(timeout=2) may time out, as in the middle of a write.
Join ==
  /\ main = "join"
  /\ main' = "final"
  /\ UNCHANGED <<running, lock, export, stats, adding, data, final_stats, captured, history>>

Plus(f, g) == [d \in Directions |-> f[d] + g[d]]

\* Mutant: the final statistics are of the last interval.
FinalInterval ==
  /\ main = "final"
  /\ lock = "free" /\ lock' = "main"
  /\ final_stats' = interval
  /\ main' = "reset"
  /\ UNCHANGED <<running, export, stats, adding, data, captured, history>>

\* get_and_reset_interval for the report: the totals are read ...
Final ==
  /\ main = "final"
  /\ lock = "free" /\ lock' = "main"
  /\ final_stats' = total
  /\ main' = "reset"
  /\ UNCHANGED <<running, export, stats, adding, data, captured, history>>

\* ... and the interval is taken from under the export thread.
FinalReset ==
  /\ main = "reset"
  /\ unsent' = interval
  /\ interval' = Zero
  /\ main' = "print" /\ lock' = "free"
  /\ UNCHANGED <<running, export, total, adding, data, final_stats, captured, written, lost>>

\* The report is printed and the process ends, the daemon thread with it.
Printed ==
  /\ main = "print"
  /\ main' = "ended"
  /\ UNCHANGED <<running, lock, export, stats, adding, data, final_stats, captured, history>>

Capture == (\E port \in Ports : packet_callback(port)) \/ OtherPacket
Main == Connect \/ AddTotal \/ stop_filter \/ Join \/ Final \/ FinalReset \/ Printed

-----------------------------------------------------------------------------
(* Ctrl+C, and the export thread. *)

signal_handler ==
  /\ Alive
  /\ running' = FALSE
  /\ UNCHANGED <<lock, main, export, stats, adding, data, final_stats, captured, history>>

\* while running
LoopTest ==
  /\ Alive /\ export = "test"
  /\ export' = IF running THEN "sleep" ELSE "ended"
  /\ UNCHANGED <<running, lock, main, stats, adding, data, final_stats, captured, history>>

\* Mutant: the totals are not in the data.
WakeBare ==
  /\ Alive /\ export = "sleep"
  /\ lock = "free" /\ lock' = "export"
  /\ data' = [interval |-> interval]
  /\ export' = "reset"
  /\ UNCHANGED <<running, main, stats, adding, final_stats, captured, history>>

\* get_and_reset_interval: the lock, and all counters are read ...
Wake ==
  /\ Alive /\ export = "sleep"
  /\ lock = "free" /\ lock' = "export"
  /\ data' = [interval |-> interval, total |-> total]
  /\ export' = "reset"
  /\ UNCHANGED <<running, main, stats, adding, final_stats, captured, history>>

\* ... those of the interval are reset, and the method ends.
Reset ==
  /\ Alive /\ export = "reset"
  /\ interval' = Zero
  /\ export' = "write" /\ lock' = "free"
  /\ UNCHANGED <<running, main, total, adding, data, final_stats, captured, history>>

\* write_points succeeds, or raises an exception: the interval is lost.
Write ==
  /\ Alive /\ export = "write"
  /\ export' = "test"
  /\ \/ written' = Plus(written, data.interval) /\ UNCHANGED lost
     \/ lost' = Plus(lost, data.interval) /\ UNCHANGED written
  /\ UNCHANGED <<running, lock, main, stats, adding, data, final_stats, captured, unsent>>

Export == LoopTest \/ Wake \/ Reset \/ Write

-----------------------------------------------------------------------------

Next == Capture \/ CaptureFails \/ Main \/ signal_handler \/ Export

Spec == Init /\ [][Next]_vars

\* Both threads go on, and so does the traffic: without another packet the
\* capture does not end.
FairSpec == Spec /\ WF_vars(Capture) /\ WF_vars(Main) /\ WF_vars(Export)

-----------------------------------------------------------------------------
(* Properties. *)

Counts == [Directions -> Nat]

TypeOK ==
  /\ running \in BOOLEAN
  /\ lock \in {"free", "main", "export"}
  /\ main \in {"connect", "sniff", "add", "stop_filter", "join", "final", "reset",
               "print", "ended", "failed"}
  /\ export \in {"none", "test", "sleep", "reset", "write", "ended"}
  /\ interval \in Counts /\ total \in Counts
  /\ adding \in Directions
  /\ data \in [interval : Counts, total : Counts]
  /\ final_stats \in Counts
  /\ captured \in [Ports -> 0 .. MaxPackets]
  /\ written \in Counts /\ lost \in Counts /\ unsent \in Counts

InHand == IF export = "write" THEN data.interval ELSE Zero

\* However capture and export interleave, every packet is in exactly one
\* interval: those written, those whose write failed, the one in hand, the
\* one being counted, or the one that the final report took.
EveryPacketInOneInterval ==
  lock = "free" =>
    \A d \in Directions :
      total[d] = written[d] + lost[d] + InHand[d] + interval[d] + unsent[d]

\* A point agrees with the points before it: its total is all that the
\* intervals up to its own hold, unless the final report took one.
PointsAddUp ==
  export = "write" /\ unsent = Zero =>
    \A d \in Directions :
      data.total[d] = written[d] + lost[d] + data.interval[d]

Reported == main \in {"print", "ended"}

\* The final report covers every packet captured, and agrees for each
\* direction with the points: it counts what was exported, what was to be
\* exported but was not, and what the report itself took from under the
\* export thread, whether or not join waited long enough for that thread.
FinalIsComplete ==
  Reported =>
    /\ \A d \in Directions :
         final_stats[d] = written[d] + lost[d] + InHand[d] + unsent[d]
    /\ final_stats["uplink"] + final_stats["downlink"]
         = captured[UPLINK_PORT] + captured[DOWNLINK_PORT]

\* After Ctrl+C the monitor stops, provided that packets still arrive.
StopsOnCtrlC == ~running ~> ~Alive

\* The port that the report, and the tag of a point, name for a direction.
PortNamed(d) == IF d = "uplink" THEN UPLINK_PORT ELSE DOWNLINK_PORT

\* The report names the wrong ports: beside each port stands the number of
\* packets that were sent to the other.
ReportNamesTheOtherPort ==
  Reported =>
    \A d \in Directions, port \in Ports :
      port # PortNamed(d) => final_stats[d] = captured[port]

-----------------------------------------------------------------------------
(* Why the first four hold. *)

\* A thread that holds the lock is within a method.
LockInv ==
  /\ lock = "main" <=> main \in {"add", "reset"}
  /\ lock = "export" <=> export = "reset"

\* Within a method: a packet is not in the totals yet, or the interval that
\* was read is still in the counters.
Counted(d) == IF main = "add" /\ adding = d THEN 1 ELSE 0

IntervalsInv ==
  /\ \A d \in Directions :
       total[d] + Counted(d) = written[d] + lost[d] + InHand[d] + interval[d] + unsent[d]
  /\ export = "reset" => data = [interval |-> interval, total |-> total]

\* The totals are what was captured, and so is what the report reads.
TotalsInv ==
  /\ \A port \in Ports :
       total[Direction(port)] + Counted(Direction(port)) = captured[port]
  /\ main = "reset" \/ Reported => final_stats = total
  /\ Reported => interval = Zero

UnsentInv ==
  /\ ~Reported => unsent = Zero
  /\ main = "connect" => export = "none"

IInv == TypeOK /\ LockInv /\ IntervalsInv /\ PointsAddUp /\ TotalsInv /\ UnsentInv
=============================================================================
