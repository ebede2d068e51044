---------------------------- MODULE MonitorProofs ----------------------------
(***************************************************************************)
(* Proofs about Monitor, for every number of packets: the type invariant,   *)
(* that every packet is in exactly one interval, that the points add up,    *)
(* that the final report is complete, and which port it names for what.     *)
(* What holds while no thread is within a locked method follows from what   *)
(* each of the steps within the methods does (IntervalsInv).                *)
(***************************************************************************)
EXTENDS Monitor, TLAPS

USE DEF Directions, Ports, UPLINK_PORT, DOWNLINK_PORT

\* The two directions are those of the two ports.
LEMMA DirectionOfPort ==
  /\ \A port \in Ports : Direction(port) \in Directions
  /\ \A d \in Directions : \E port \in Ports : d = Direction(port)
BY DEF Direction

LEMMA ZeroType == Zero \in Counts
BY DEF Zero, Counts

\* Sums of counts are counts.
LEMMA PlusType ==
  ASSUME NEW f \in Counts, NEW g \in Counts
  PROVE  /\ Plus(f, g) \in Counts
         /\ \A d \in Directions : Plus(f, g)[d] = f[d] + g[d]
BY DEF Plus, Counts

\* The initial states satisfy the inductive invariant.
LEMMA InvInit == Init => IInv
<1> SUFFICES ASSUME Init PROVE IInv
  OBVIOUS
<1> USE ZeroType DEF Init
<1>1. TypeOK
  BY MonitorAssumption DEF MonitorAssumption, TypeOK
<1>2. LockInv /\ UnsentInv
  BY DEF LockInv, UnsentInv
<1>3. IntervalsInv
  BY DEF IntervalsInv, InHand, Counted, Zero
<1>4. PointsAddUp /\ TotalsInv
  BY DEF PointsAddUp, TotalsInv, Reported, Counted, Zero, Direction
<1>5. QED
  BY <1>1, <1>2, <1>3, <1>4 DEF IInv

\* Counting a packet in its interval: it is in the totals yet to be.
LEMMA CallbackInv ==
  ASSUME IInv, NEW port \in Ports, packet_callback(port)
  PROVE  IInv'
<1> DEFINE d == Direction(port)
<1> USE DEF packet_callback, history
<1>1. d \in Directions /\ total \in Counts /\ interval \in Counts
  BY DirectionOfPort DEF IInv, TypeOK
<1>2. adding' = d /\ interval' = [interval EXCEPT ![d] = @ + 1]
  OBVIOUS
<1>3. TypeOK'
  <2>1. interval' \in Counts
    BY <1>1, <1>2 DEF Counts
  <2>2. captured' \in [Ports -> 0 .. MaxPackets]
    BY MonitorAssumption DEF MonitorAssumption, IInv, TypeOK
  <2>3. QED
    BY <1>1, <2>1, <2>2 DEF IInv, TypeOK
<1>4. LockInv' /\ UnsentInv'
  BY DEF IInv, LockInv, UnsentInv, Reported
<1>5. IntervalsInv'
  BY <1>1, <1>2 DEF IInv, TypeOK, LockInv, IntervalsInv, InHand, Counted, Counts, Zero
<1>6. PointsAddUp'
  BY DEF IInv, PointsAddUp
<1>7. TotalsInv'
  BY <1>1, <1>2 DEF IInv, TypeOK, TotalsInv, Reported, Counted, Direction, Counts
<1>8. QED
  BY <1>3, <1>4, <1>5, <1>6, <1>7 DEF IInv

\* Counting it in the totals.
LEMMA AddTotalInv == ASSUME IInv, AddTotal PROVE IInv'
<1> USE DEF AddTotal, history
<1>1. adding \in Directions /\ total \in Counts
  BY DEF IInv, TypeOK
<1>2. TypeOK'
  <2>1. total' \in Counts
    BY <1>1 DEF Counts
  <2>2. QED
    BY <2>1 DEF IInv, TypeOK
<1>3. LockInv' /\ UnsentInv'
  BY DEF IInv, LockInv, UnsentInv, Reported
<1>4. IntervalsInv'
  BY <1>1 DEF IInv, TypeOK, LockInv, IntervalsInv, InHand, Counted, Counts, Zero
<1>5. PointsAddUp'
  BY DEF IInv, PointsAddUp
<1>6. TotalsInv'
  BY <1>1 DEF IInv, TypeOK, TotalsInv, Reported, Counted, Direction, Counts
<1>7. QED
  BY <1>2, <1>3, <1>4, <1>5, <1>6 DEF IInv

\* The steps that only move the main thread, and Ctrl+C.
LEMMA MoveInv ==
  ASSUME IInv,
         \/ OtherPacket \/ CaptureFails \/ Connect \/ stop_filter \/ Join \/ Printed
         \/ signal_handler
  PROVE  IInv'
<1> USE DEF IInv, OtherPacket, CaptureFails, Connect, stop_filter, Join, Printed,
        signal_handler, stats, history
<1>1. TypeOK'
  <2>1. running \in BOOLEAN
    BY DEF TypeOK
  <2>2. running' = running \/ running' = FALSE
    BY Zenon
  <2>3. running' \in BOOLEAN
    BY <2>1, <2>2, Zenon
  <2>4. main' \in {"connect", "sniff", "add", "stop_filter", "join", "final", "reset",
                   "print", "ended", "failed"}
    BY DEF TypeOK
  <2>5. export' \in {"none", "test", "sleep", "reset", "write", "ended"}
    BY DEF TypeOK
  <2>6. UNCHANGED <<lock, stats, adding, data, final_stats, captured, history>>
    OBVIOUS
  <2>7. QED
    BY <2>3, <2>4, <2>5, <2>6 DEF TypeOK
<1>2. LockInv' /\ UnsentInv'
  BY DEF LockInv, UnsentInv, Reported
<1>3. IntervalsInv'
  BY DEF IntervalsInv, InHand, Counted, UnsentInv
<1>4. PointsAddUp'
  BY DEF PointsAddUp, UnsentInv
<1>5. TotalsInv'
  BY DEF TotalsInv, Reported, Counted
<1>6. QED
  BY <1>1, <1>2, <1>3, <1>4, <1>5

\* The two steps of the final report.
LEMMA FinalInv == ASSUME IInv, Final PROVE IInv'
<1> USE DEF IInv, Final, stats, history
<1>1. TypeOK'
  BY DEF TypeOK
<1>2. LockInv' /\ UnsentInv'
  BY DEF LockInv, UnsentInv, Reported
<1>3. IntervalsInv'
  BY DEF IntervalsInv, InHand, Counted
<1>4. PointsAddUp' /\ TotalsInv'
  BY DEF PointsAddUp, TotalsInv, Reported, Counted
<1>5. QED
  BY <1>1, <1>2, <1>3, <1>4

LEMMA FinalResetInv == ASSUME IInv, FinalReset PROVE IInv'
<1> USE ZeroType DEF IInv, FinalReset
<1>1. TypeOK'
  BY DEF TypeOK
<1>2. LockInv' /\ UnsentInv'
  BY DEF LockInv, UnsentInv, Reported
<1>3. IntervalsInv'
  BY DEF TypeOK, LockInv, UnsentInv, Reported, IntervalsInv, InHand, Counted, Counts, Zero
<1>4. PointsAddUp'
  BY DEF PointsAddUp, UnsentInv, Reported
<1>5. TotalsInv'
  BY DEF TotalsInv, Reported, Counted
<1>6. QED
  BY <1>1, <1>2, <1>3, <1>4, <1>5

\* The steps of the export thread.
LEMMA ExportInv == ASSUME IInv, Export PROVE IInv'
<1> USE DEF IInv, Reported
<1>1. CASE LoopTest
  <2> USE <1>1 DEF LoopTest, stats, history
  <2>1. TypeOK'
    BY DEF TypeOK
  <2>2. LockInv' /\ UnsentInv'
    BY DEF LockInv, UnsentInv
  <2>3. IntervalsInv'
    BY DEF IntervalsInv, InHand, Counted
  <2>4. PointsAddUp' /\ TotalsInv'
    BY DEF PointsAddUp, TotalsInv, Counted
  <2>5. QED
    BY <2>1, <2>2, <2>3, <2>4
<1>2. CASE Wake
  <2> USE <1>2 DEF Wake, stats, history
  <2>1. TypeOK'
    BY DEF TypeOK
  <2>2. LockInv' /\ UnsentInv'
    BY DEF LockInv, UnsentInv
  <2>3. IntervalsInv'
    BY DEF IntervalsInv, InHand, Counted
  <2>4. PointsAddUp' /\ TotalsInv'
    BY DEF PointsAddUp, TotalsInv, Counted
  <2>5. QED
    BY <2>1, <2>2, <2>3, <2>4
<1>3. CASE Reset
  <2> USE <1>3, ZeroType DEF Reset, history
  <2>1. TypeOK'
    BY DEF TypeOK
  <2>2. LockInv' /\ UnsentInv'
    BY DEF LockInv, UnsentInv
  <2>3. IntervalsInv'
    BY DEF TypeOK, IntervalsInv, InHand, Counted, Counts, Zero
  <2>4. PointsAddUp'
    <3>1. main # "add" /\ data = [interval |-> interval, total |-> total]
      BY DEF LockInv, IntervalsInv
    <3>2. ASSUME unsent = Zero, NEW d \in Directions
          PROVE  total[d] = written[d] + lost[d] + interval[d]
      BY <3>1, <3>2 DEF TypeOK, IntervalsInv, InHand, Counted, Counts, Zero
    <3>3. QED
      BY <3>1, <3>2 DEF PointsAddUp
  <2>5. TotalsInv'
    BY DEF TotalsInv, Counted
  <2>6. QED
    BY <2>1, <2>2, <2>3, <2>4, <2>5
<1>4. CASE Write
  <2> USE <1>4 DEF Write, stats
  <2>1. /\ data.interval \in Counts /\ written \in Counts /\ lost \in Counts
        /\ Plus(written, data.interval) \in Counts
        /\ Plus(lost, data.interval) \in Counts
        /\ \A d \in Directions : Plus(written, data.interval)[d] = written[d] + data.interval[d]
        /\ \A d \in Directions : Plus(lost, data.interval)[d] = lost[d] + data.interval[d]
    BY PlusType DEF TypeOK
  <2>2. TypeOK'
    BY <2>1 DEF TypeOK
  <2>3. LockInv' /\ UnsentInv'
    BY DEF LockInv, UnsentInv
  <2>4. IntervalsInv'
    BY <2>1 DEF TypeOK, IntervalsInv, InHand, Counted, Counts, Zero
  <2>5. PointsAddUp' /\ TotalsInv'
    BY DEF PointsAddUp, TotalsInv, Counted
  <2>6. QED
    BY <2>2, <2>3, <2>4, <2>5
<1>5. QED
  BY <1>1, <1>2, <1>3, <1>4 DEF Export

\* Every step keeps it.
LEMMA InvStep == IInv /\ [Next]_vars => IInv'
<1> SUFFICES ASSUME IInv, [Next]_vars PROVE IInv'
  OBVIOUS
<1>1. ASSUME NEW port \in Ports, packet_callback(port) PROVE IInv'
  BY <1>1, CallbackInv
<1>2. CASE \/ OtherPacket \/ CaptureFails \/ Connect \/ stop_filter \/ Join \/ Printed
           \/ signal_handler
  BY <1>2, MoveInv
<1>3. CASE AddTotal
  BY <1>3, AddTotalInv
<1>4. CASE Final
  BY <1>4, FinalInv
<1>5. CASE FinalReset
  BY <1>5, FinalResetInv
<1>6. CASE Export
  BY <1>6, ExportInv
<1>7. CASE UNCHANGED vars
  BY <1>7 DEF vars, stats, history, IInv, TypeOK, LockInv, IntervalsInv, InHand, Counted,
              PointsAddUp, TotalsInv, UnsentInv, Reported
<1>8. QED
  BY <1>1, <1>2, <1>3, <1>4, <1>5, <1>6, <1>7 DEF Next, Capture, Main

\* The inductive invariant of the monitor.
THEOREM Invariance == Spec => []IInv
BY InvInit, InvStep, PTL DEF Spec

\* The variables keep their types.
THEOREM TypeCorrect == Spec => []TypeOK
<1>1. IInv => TypeOK
  BY DEF IInv
<1>2. QED
  BY <1>1, Invariance, PTL

\* No packet is counted in two intervals, or in none: the lock keeps the two
\* threads from the counters that the other is about to change.
THEOREM Once == Spec => []EveryPacketInOneInterval
<1>1. IInv => EveryPacketInOneInterval
  <2> SUFFICES ASSUME IInv, lock = "free", NEW d \in Directions
               PROVE  total[d] = written[d] + lost[d] + InHand[d] + interval[d] + unsent[d]
    BY DEF EveryPacketInOneInterval
  <2>1. main # "add"
    BY DEF IInv, LockInv
  <2>2. QED
    BY <2>1 DEF IInv, TypeOK, IntervalsInv, Counted, Counts
<1>2. QED
  BY <1>1, Invariance, PTL

\* The totals in the points are the sums of the intervals.
THEOREM Points == Spec => []PointsAddUp
<1>1. IInv => PointsAddUp
  BY DEF IInv
<1>2. QED
  BY <1>1, Invariance, PTL

\* What the report says of a direction is what was captured on its port.
LEMMA ReportIs ==
  ASSUME IInv, Reported
  PROVE  \A port \in Ports : final_stats[Direction(port)] = captured[port]
<1>1. main # "add" /\ final_stats = total
  BY DEF IInv, TotalsInv, Reported
<1>2. QED
  BY <1>1, DirectionOfPort DEF IInv, TypeOK, TotalsInv, Counted, Counts

\* The final report covers every packet captured, and agrees with the points.
THEOREM Complete == Spec => []FinalIsComplete
<1>1. IInv => FinalIsComplete
  <2> SUFFICES ASSUME IInv, Reported
               PROVE  /\ \A d \in Directions :
                           final_stats[d] = written[d] + lost[d] + InHand[d] + unsent[d]
                      /\ final_stats["uplink"] + final_stats["downlink"]
                           = captured[UPLINK_PORT] + captured[DOWNLINK_PORT]
    BY DEF FinalIsComplete
  <2>1. main # "add" /\ final_stats = total /\ interval = Zero
    BY DEF IInv, TotalsInv, Reported
  <2>2. ASSUME NEW d \in Directions
        PROVE  final_stats[d] = written[d] + lost[d] + InHand[d] + unsent[d]
    <3>1. total[d] + 0 = written[d] + lost[d] + InHand[d] + 0 + unsent[d]
      BY <2>1 DEF IInv, IntervalsInv, Counted, Zero
    <3>2. total[d] \in Nat /\ written[d] \in Nat /\ lost[d] \in Nat /\ unsent[d] \in Nat
          /\ InHand[d] \in Nat
      BY ZeroType DEF IInv, TypeOK, InHand, Counts
    <3>3. QED
      BY <2>1, <3>1, <3>2
  <2>3. /\ final_stats["uplink"] = captured[DOWNLINK_PORT]
        /\ final_stats["downlink"] = captured[UPLINK_PORT]
    BY ReportIs DEF Direction
  <2>4. captured[UPLINK_PORT] \in Nat /\ captured[DOWNLINK_PORT] \in Nat
    BY DEF IInv, TypeOK
  <2>5. QED
    BY <2>2, <2>3, <2>4
<1>2. QED
  BY <1>1, Invariance, PTL

\* The report, and with it the tags of the points, name the wrong ports: what
\* stands beside each port was captured on the other one.
THEOREM Swapped == Spec => []ReportNamesTheOtherPort
<1>1. IInv => ReportNamesTheOtherPort
  BY ReportIs DEF ReportNamesTheOtherPort, PortNamed, Direction
<1>2. QED
  BY <1>1, Invariance, PTL
=============================================================================
