---------------------------- MODULE NetmonProofs ----------------------------
(***************************************************************************)
(* Proofs about process_packet, for every set of sources and ports, every  *)
(* window, threshold, de-duplication time and queue and every bound.       *)
(***************************************************************************)
EXTENDS NetmonProperties, FiniteSetTheorems, SequenceTheorems, TLAPS

(* The event that the rules make of a packet.                              *)
LEMMA Captured ==
  ASSUME TypeOK, Capture
  PROVE  /\ packet' \subseteq Packets
         /\ event' \subseteq Rules!Events
         /\ \A a, b \in event' : a = b
         /\ \A e \in event' : e.severity = "ALERT" <=> e.kind = "tcp" /\ e.led = "LONG"
         /\ stage' \in {"observe", "record"}
         /\ UNCHANGED <<log, ledStatus, leds, played, display, counts>>
  <1>1. PICK p \in Packets :
          /\ packet' = {p}
          /\ IF p.class = "ssh" THEN EvaluateSsh(<<p.src, p.try>>) ELSE EvaluateOther(p.class)
    BY DEF Capture
  <1>2. ASSUME NEW e \in Rules!Events, event' = {e},
               e.severity = "ALERT" <=> e.kind = "tcp" /\ e.led = "LONG"
        PROVE  /\ event' \subseteq Rules!Events
               /\ \A a, b \in event' : a = b
               /\ \A x \in event' : x.severity = "ALERT" <=> x.kind = "tcp" /\ x.led = "LONG"
    BY <1>2
  <1>3. CASE p.class = "ssh"
    <2>1. event' = {Rules!SshAlert} \/ event' = {Rules!SshRepeat}
      BY <1>1, <1>3 DEF EvaluateSsh, Rules!EvaluateNoClock, Rules!EvaluateRepeat,
                        Rules!EvaluateFirst, Rules!EvaluateUntracked
    <2>2. /\ Rules!SshAlert \in Rules!Events /\ Rules!SshRepeat \in Rules!Events
          /\ Rules!SshAlert.severity = "ALERT" /\ Rules!SshAlert.kind = "tcp"
          /\ Rules!SshAlert.led = "LONG" /\ Rules!SshRepeat.severity = "INFO"
          /\ Rules!SshRepeat.led = "NONE"
      BY DEF Rules!SshAlert, Rules!SshRepeat, Rules!Events, Rules!PlainClasses
    <2> QED BY <1>1, <1>2, <2>1, <2>2 DEF Capture, ledState, displayState
  <1>4. CASE p.class # "ssh"
    <2>1. event' = Rules!PlainEvent(p.class)
      BY <1>1, <1>4 DEF EvaluateOther
    <2>2. p.class \in Rules!PlainClasses
      BY <1>1, <1>4, PlainPacketsAssumption DEF Packets, Syns, Rules!PlainClasses
    <2>3. CASE p.class \in {"broken", "other"}
      BY <1>1, <2>1, <2>3 DEF Rules!PlainEvent, Capture, ledState, displayState
    <2>4. CASE p.class \notin {"broken", "other"}
      <3> DEFINE echo == [kind |-> "icmp", severity |-> "INFO", led |-> "SHORT"]
                 plain == [kind |-> p.class, severity |-> "INFO", led |-> "NONE"]
      <3>1. event' = {echo} \/ event' = {plain}
        BY <2>1, <2>4 DEF Rules!PlainEvent
      <3>2. echo \in Rules!Events
        BY DEF Rules!Events, Rules!PlainClasses
      <3>3. p.class # "icmp_echo" => plain \in Rules!Events
        BY <2>2, <2>4 DEF Rules!Events, Rules!PlainClasses
      <3>4. p.class = "icmp_echo" => event' = {echo}
        BY <2>1, <2>4 DEF Rules!PlainEvent
      <3> QED BY <1>1, <1>2, <3>1, <3>2, <3>3, <3>4 DEF Capture, ledState, displayState
    <2> QED BY <2>3, <2>4
  <1> QED BY <1>3, <1>4

(* What Emit(e) does to the log and the queue.                             *)
LEMMA Emitted ==
  ASSUME TypeOK, NEW e \in LogEvents, Emit(e)
  PROVE  /\ log' = Append(log, e) /\ log' \in Seq(LogEvents)
         /\ UNCHANGED <<ledStatus, played>>
         /\ \/ leds' = leds
            \/ leds' = Append(leds, e.led) /\ e.led \in Lights
         /\ leds' \in Seq(Lights)
  <1>1. log' = Append(log, e)
    BY DEF Emit
  <1>2. log' \in Seq(LogEvents)
    BY <1>1, AppendProperties DEF TypeOK
  <1>3. e.led # "NONE" => e.led \in Lights
    BY DEF LogEvents, Lights, ScanEvent, Rules!Events
  <1>4. CASE e.led # "NONE" /\ Queue!Offer(e.led)
    <2>1. leds' = Append(leds, e.led) /\ UNCHANGED <<ledStatus, played>>
      BY <1>4 DEF Queue!Offer
    <2> QED BY <1>1, <1>2, <1>3, <1>4, <2>1, AppendProperties DEF TypeOK
  <1>5. CASE UNCHANGED ledState
    BY <1>1, <1>2, <1>5 DEF ledState, TypeOK
  <1> QED BY <1>4, <1>5 DEF Emit, Enqueue

(* A pattern that is begun moves from the queue to the history.            *)
LEMMA PlayedOne ==
  ASSUME TypeOK, LedPlays
  PROVE  /\ leds' \in Seq(Lights) /\ played' \in Seq(Lights)
         /\ played' \o leds' = played \o leds
         /\ ledStatus' = ledStatus
  <1>1. leds # <<>> /\ played' = Append(played, Head(leds)) /\ leds' = Tail(leds)
    BY DEF LedPlays, Queue!Play
  <1>2. leds \in Seq(Lights) /\ played \in Seq(Lights)
    BY DEF TypeOK
  <1>3. /\ Head(leds) \in Lights /\ leds' \in Seq(Lights)
    BY <1>1, <1>2, HeadTailProperties
  <1>4. played' = played \o <<Head(leds)>> /\ played' \in Seq(Lights)
    BY <1>1, <1>2, <1>3, AppendIsConcat, AppendProperties
  <1>5. <<Head(leds)>> \in Seq(Lights)
    BY <1>3
  <1>6. <<Head(leds)>> \o leds' = leds
    BY <1>1, <1>2
  <1>7. played' \o leds' = played \o (<<Head(leds)>> \o leds')
    BY <1>2, <1>3, <1>4, <1>5, ConcatAssociative
  <1>8. ledStatus' = ledStatus
    BY DEF LedPlays, Queue!Play
  <1> QED BY <1>3, <1>4, <1>6, <1>7, <1>8

(* What display_controller_record_event does to the totals.                *)
LEMMA Recorded ==
  ASSUME TypeOK, Record
  PROVE  /\ stage = "record" /\ stage' = "emit"
         /\ \E e \in event :
              counts' = IF display = "on"
                        THEN [icmp |-> counts.icmp + (IF IsEcho(e) THEN 1 ELSE 0),
                              ssh |-> counts.ssh + (IF IsSshAlert(e) THEN 1 ELSE 0)]
                        ELSE counts
         /\ UNCHANGED <<packet, event, log, ledStatus, leds, played, display>>
  <1>1. PICK e \in event : counts' = IF IsAvailable THEN CountEvent(e) ELSE counts
    BY DEF Record
  <1>2. counts \in [icmp : Nat, ssh : Nat]
    BY DEF TypeOK
  <1>3. IsSshAlert(e) <=> e.kind = "tcp" /\ e.led = "LONG"
    BY DEF TypeOK, IsSshAlert
  <1>4. CountEvent(e) = [icmp |-> counts.icmp + (IF IsEcho(e) THEN 1 ELSE 0),
                         ssh |-> counts.ssh + (IF IsSshAlert(e) THEN 1 ELSE 0)]
    BY <1>2, <1>3 DEF CountEvent, IsEcho
  <1> QED BY <1>1, <1>4 DEF Record, IsAvailable, rulesState, scanState, ledState

-----------------------------------------------------------------------------
LEMMA TypeInit == Init => TypeOK
  BY EmptySeq DEF Init, TypeOK, Rules!Init

(* Every step of the pipeline and of the workers keeps the types.          *)
LEMMA TypeStep == TypeOK /\ [Next]_vars => TypeOK'
  <1> SUFFICES ASSUME TypeOK, [Next]_vars PROVE TypeOK'
    OBVIOUS
  <1>1. CASE Tick
    BY <1>1 DEF Tick, Rules!Tick, TypeOK, ledState, displayState
  <1>2. CASE Capture
    BY <1>2, Captured DEF TypeOK
  <1>3. CASE Record
    <2>1. counts' \in [icmp : Nat, ssh : Nat]
      BY <1>3, Recorded DEF TypeOK
    <2> QED BY <1>3, <2>1, Recorded DEF TypeOK
  <1>4. CASE EmitEvent
    <2>1. PICK e \in event : Emit(e)
      BY <1>4 DEF EmitEvent
    <2>2. e \in LogEvents
      BY <2>1 DEF TypeOK, LogEvents
    <2>3. /\ log' \in Seq(LogEvents) /\ leds' \in Seq(Lights)
          /\ UNCHANGED <<ledStatus, played>>
      BY <2>1, <2>2, Emitted
    <2> QED BY <1>4, <2>3 DEF EmitEvent, rulesState, scanState, displayState, TypeOK
  <1>5. CASE Observe
    BY <1>5 DEF Observe, rulesState, ledState, displayState, TypeOK
  <1>6. CASE Alarm
    <2>1. Emit(ScanEvent) /\ ScanEvent \in LogEvents
      BY <1>6 DEF Alarm, LogEvents
    <2>2. /\ log' \in Seq(LogEvents) /\ leds' \in Seq(Lights)
          /\ UNCHANGED <<ledStatus, played>>
      BY <2>1, Emitted
    <2> QED BY <1>6, <2>2 DEF Alarm, rulesState, scanState, displayState, TypeOK
  <1>7. CASE Publish
    BY <1>7 DEF Publish, ledState, displayState, TypeOK
  <1>8. CASE LedPlays
    <2>1. leds' \in Seq(Lights) /\ played' \in Seq(Lights) /\ ledStatus' = ledStatus
      BY <1>8, PlayedOne
    <2> QED BY <1>8, <2>1 DEF LedPlays, rulesState, scanState, displayState, TypeOK
  <1>9. CASE DisplayTakes
    BY <1>9 DEF DisplayTakes, rulesState, scanState, ledState, TypeOK
  <1>10. CASE DisplayEnds
    BY <1>10 DEF DisplayEnds, rulesState, scanState, ledState, TypeOK
  <1>11. CASE UNCHANGED vars
    BY <1>11 DEF vars, rulesState, scanState, ledState, displayState, TypeOK
  <1> QED BY <1>1, <1>2, <1>3, <1>4, <1>5, <1>6, <1>7, <1>8, <1>9, <1>10, <1>11 DEF Next

(* Events, log and queue hold what their readers expect, and a packet is   *)
(* one of the five things process_packet is about to do with it.           *)
THEOREM TypeCorrect == Spec => []TypeOK
  BY TypeInit, TypeStep, PTL DEF Spec

-----------------------------------------------------------------------------
(* The totals.                                                             *)

(* How many entries of a log belong to a kind of events grows with every   *)
(* event of that kind.                                                     *)
Positions(l, kind) == {i \in DOMAIN l : l[i] \in kind}

(* The positions of a kind of event in a log are finitely many.            *)
LEMMA PositionsCount ==
  ASSUME NEW S, NEW l \in Seq(S), NEW kind
  PROVE  /\ IsFiniteSet(Positions(l, kind))
         /\ Cardinality(Positions(l, kind)) \in Nat
  <1>1. DOMAIN l = 1..Len(l) /\ Len(l) \in Nat
    BY LenProperties
  <1>2. IsFiniteSet(DOMAIN l)
    BY <1>1, FS_Interval
  <1>3. Positions(l, kind) \subseteq DOMAIN l
    BY DEF Positions
  <1>4. IsFiniteSet(Positions(l, kind))
    BY <1>2, <1>3, FS_Subset
  <1> QED BY <1>4, FS_CardinalityType

(* One more event in the log is one more of its kind and of no other.      *)
LEMMA PositionsAppend ==
  ASSUME NEW S, NEW l \in Seq(S), NEW e \in S, NEW kind
  PROVE  Cardinality(Positions(Append(l, e), kind)) =
           Cardinality(Positions(l, kind)) + IF e \in kind THEN 1 ELSE 0
  <1> DEFINE longer == Append(l, e)
             n == Len(l) + 1
             old == Positions(l, kind)
             new == Positions(longer, kind)
  <1>1. /\ Len(l) \in Nat /\ DOMAIN l = 1..Len(l)
        /\ DOMAIN longer = 1..n
        /\ \A i \in 1..Len(l) : longer[i] = l[i]
        /\ longer[n] = e
    <2>1. longer \in Seq(S) /\ Len(longer) = n
      BY AppendProperties
    <2>2. DOMAIN longer = 1..n
      BY <2>1, LenProperties
    <2> QED BY <2>2, LenProperties, AppendProperties
  <1>2. n \in Nat /\ n \notin DOMAIN l /\ \A i : i \in 1..n <=> i \in 1..Len(l) \/ i = n
    BY <1>1
  <1>3. IsFiniteSet(old) /\ Cardinality(old) \in Nat
    BY PositionsCount
  <1> HIDE DEF n, longer
  <1>4. CASE e \in kind
    <2>1. new = old \cup {n} /\ n \notin old
      BY <1>1, <1>2, <1>4 DEF Positions
    <2>2. Cardinality(new) = Cardinality(old) + 1
      <3> HIDE DEF new, old
      <3> QED BY <1>3, <2>1, FS_AddElement
    <2> QED BY <1>4, <2>2 DEF longer
  <1>5. CASE e \notin kind
    <2>1. new = old
      BY <1>1, <1>2, <1>5 DEF Positions
    <2>2. Cardinality(new) = Cardinality(old) + 0
      <3> HIDE DEF new, old
      <3> QED BY <1>3, <2>1
    <2> QED BY <1>5, <2>2 DEF longer
  <1> QED BY <1>4, <1>5

EchoEvents == {e \in LogEvents : IsEcho(e)}
SshAlertEvents == {e \in LogEvents : IsSshAlert(e)}

(* Echo requests and SSH ALERTs, as positions of a kind.                   *)
LEMMA KindsCount ==
  ASSUME NEW l \in Seq(LogEvents)
  PROVE  /\ {i \in DOMAIN l : IsEcho(l[i])} = Positions(l, EchoEvents)
         /\ {i \in DOMAIN l : IsSshAlert(l[i])} = Positions(l, SshAlertEvents)
  <1>1. \A i \in DOMAIN l : l[i] \in LogEvents
    BY LenProperties, ElementOfSeq
  <1> QED BY <1>1 DEF Positions, EchoEvents, SshAlertEvents

(* The same for the counts of the log as it is.                            *)
LEMMA LogCounts ==
  ASSUME log \in Seq(LogEvents)
  PROVE  /\ Echoes = Cardinality(Positions(log, EchoEvents)) /\ Echoes \in Nat
         /\ SshAlerts = Cardinality(Positions(log, SshAlertEvents)) /\ SshAlerts \in Nat
  BY KindsCount, PositionsCount DEF Echoes, SshAlerts

(* What an emitted event adds to the two numbers.                          *)
LEMMA EmittedCounts ==
  ASSUME TypeOK, NEW e \in LogEvents, Emit(e)
  PROVE  /\ Echoes' = Echoes + IF IsEcho(e) THEN 1 ELSE 0
         /\ SshAlerts' = SshAlerts + IF IsSshAlert(e) THEN 1 ELSE 0
  <1>1. log \in Seq(LogEvents) /\ log' = Append(log, e) /\ log' \in Seq(LogEvents)
    BY Emitted DEF TypeOK
  <1>2. /\ {i \in DOMAIN log' : IsEcho(log'[i])} = Positions(log', EchoEvents)
        /\ {i \in DOMAIN log' : IsSshAlert(log'[i])} = Positions(log', SshAlertEvents)
    BY <1>1, KindsCount
  <1>3. /\ Echoes' = Cardinality(Positions(log', EchoEvents))
        /\ SshAlerts' = Cardinality(Positions(log', SshAlertEvents))
    BY <1>2 DEF Echoes, SshAlerts, IsEcho, IsSshAlert
  <1>4. (e \in EchoEvents <=> IsEcho(e)) /\ (e \in SshAlertEvents <=> IsSshAlert(e))
    BY DEF EchoEvents, SshAlertEvents
  <1> QED BY <1>1, <1>3, <1>4, LogCounts, PositionsAppend

(* The event of the packet that is counted and not logged yet.             *)
EchoDue == IF stage = "emit" /\ \E e \in event : IsEcho(e) THEN 1 ELSE 0
SshDue == IF stage = "emit" /\ \E e \in event : IsSshAlert(e) THEN 1 ELSE 0

(* A display that stopped counting stays behind; one that works is exactly *)
(* ahead by the event that is due.                                         *)
CountInv ==
  /\ counts.icmp <= Echoes + EchoDue
  /\ counts.ssh <= SshAlerts + SshDue
  /\ display = "on" => /\ counts.icmp = Echoes + EchoDue
                       /\ counts.ssh = SshAlerts + SshDue

(* Steps between which nothing becomes due.                                *)
LEMMA CountSame ==
  ASSUME TypeOK, CountInv, log' = log, counts' = counts,
         display' = display \/ display' # "on",
         stage # "emit", stage' # "emit"
  PROVE  CountInv'
  <1>1. Echoes' = Echoes /\ SshAlerts' = SshAlerts
    BY DEF Echoes, SshAlerts, IsEcho, IsSshAlert
  <1>2. EchoDue = 0 /\ SshDue = 0 /\ EchoDue' = 0 /\ SshDue' = 0
    BY DEF EchoDue, SshDue
  <1> QED BY <1>1, <1>2 DEF CountInv

(* Nor a step that leaves log, totals and the event due as they are.       *)
LEMMA CountSameEvent ==
  ASSUME TypeOK, CountInv, log' = log, counts' = counts,
         display' = display \/ display' # "on",
         stage' = stage, event' = event
  PROVE  CountInv'
  <1>1. Echoes' = Echoes /\ SshAlerts' = SshAlerts
    BY DEF Echoes, SshAlerts, IsEcho, IsSshAlert
  <1>2. EchoDue' = EchoDue /\ SshDue' = SshDue
    BY DEF EchoDue, SshDue, IsEcho, IsSshAlert
  <1> QED BY <1>1, <1>2 DEF CountInv

(* A total is counted before its event is logged, and nothing else counts. *)
LEMMA CountStep == TypeOK /\ CountInv /\ [Next]_vars => CountInv'
  <1> SUFFICES ASSUME TypeOK, CountInv, [Next]_vars PROVE CountInv'
    OBVIOUS
  <1>1. CASE Tick
    BY <1>1, CountSameEvent DEF Tick, Rules!Tick, displayState
  <1>2. CASE Capture
    BY <1>2, Captured, CountSame DEF Capture
  <1>3. CASE Record
    <2>1. PICK e \in event :
            counts' = IF display = "on"
                      THEN [icmp |-> counts.icmp + (IF IsEcho(e) THEN 1 ELSE 0),
                            ssh |-> counts.ssh + (IF IsSshAlert(e) THEN 1 ELSE 0)]
                      ELSE counts
      BY <1>3, Recorded
    <2>2. stage = "record" /\ stage' = "emit" /\ display' = display /\ log' = log
            /\ event' = event
      BY <1>3, Recorded
    <2>3. event = {e}
      BY <2>1 DEF TypeOK
    <2>4. Echoes' = Echoes /\ SshAlerts' = SshAlerts
      BY <2>2 DEF Echoes, SshAlerts, IsEcho, IsSshAlert
    <2>5. /\ EchoDue = 0 /\ SshDue = 0
          /\ EchoDue' = IF IsEcho(e) THEN 1 ELSE 0
          /\ SshDue' = IF IsSshAlert(e) THEN 1 ELSE 0
      BY <2>2, <2>3 DEF EchoDue, SshDue, IsEcho, IsSshAlert
    <2>6. /\ Echoes \in Nat /\ SshAlerts \in Nat
          /\ counts.icmp \in Nat /\ counts.ssh \in Nat
      BY LogCounts DEF TypeOK
    <2> QED BY <2>1, <2>2, <2>4, <2>5, <2>6 DEF CountInv
  <1>4. CASE EmitEvent
    <2>1. PICK e \in event : Emit(e)
      BY <1>4 DEF EmitEvent
    <2>2. e \in LogEvents /\ event = {e}
      BY <2>1 DEF TypeOK, LogEvents
    <2>3. /\ Echoes' = Echoes + IF IsEcho(e) THEN 1 ELSE 0
          /\ SshAlerts' = SshAlerts + IF IsSshAlert(e) THEN 1 ELSE 0
      BY <2>1, <2>2, EmittedCounts
    <2>4. stage = "emit" /\ stage' = "observe" /\ counts' = counts /\ display' = display
      BY <1>4 DEF EmitEvent, displayState
    <2>5. /\ EchoDue = IF IsEcho(e) THEN 1 ELSE 0
          /\ SshDue = IF IsSshAlert(e) THEN 1 ELSE 0
          /\ EchoDue' = 0 /\ SshDue' = 0
      BY <2>2, <2>4 DEF EchoDue, SshDue
    <2>6. Echoes \in Nat /\ SshAlerts \in Nat
      BY LogCounts DEF TypeOK
    <2> QED BY <2>3, <2>4, <2>5, <2>6 DEF CountInv
  <1>5. CASE Observe
    BY <1>5, CountSame DEF Observe, displayState
  <1>6. CASE Alarm
    <2>1. Emit(ScanEvent) /\ ScanEvent \in LogEvents
      BY <1>6 DEF Alarm, LogEvents
    <2>2. ~IsEcho(ScanEvent) /\ ~IsSshAlert(ScanEvent)
      BY DEF IsEcho, IsSshAlert, ScanEvent
    <2>3. Echoes' = Echoes + 0 /\ SshAlerts' = SshAlerts + 0
      BY <2>1, <2>2, EmittedCounts
    <2>4. stage = "alarm" /\ stage' = "publish" /\ counts' = counts /\ display' = display
      BY <1>6 DEF Alarm, displayState
    <2>5. EchoDue = 0 /\ SshDue = 0 /\ EchoDue' = 0 /\ SshDue' = 0
      BY <2>4 DEF EchoDue, SshDue
    <2>6. Echoes \in Nat /\ SshAlerts \in Nat
      BY LogCounts DEF TypeOK
    <2> QED BY <2>3, <2>4, <2>5, <2>6 DEF CountInv
  <1>7. CASE Publish
    BY <1>7, CountSame DEF Publish, displayState
  <1>8. CASE LedPlays
    BY <1>8, CountSameEvent DEF LedPlays, rulesState, displayState
  <1>9. CASE DisplayTakes
    BY <1>9, CountSameEvent DEF DisplayTakes, rulesState
  <1>10. CASE DisplayEnds
    BY <1>10, CountSameEvent DEF DisplayEnds, rulesState
  <1>11. CASE UNCHANGED vars
    BY <1>11, CountSameEvent DEF vars, rulesState, displayState
  <1> QED BY <1>1, <1>2, <1>3, <1>4, <1>5, <1>6, <1>7, <1>8, <1>9, <1>10, <1>11 DEF Next

(* The pages of Type 1 and Type 2 are the numbers of echo requests and SSH *)
(* ALERTs in the log, whatever events the packets become and whenever the  *)
(* display fails.                                                          *)
THEOREM TotalsMatchLogAlways == Spec => []TotalsMatchLog
  <1>1. Init => CountInv
    <2> SUFFICES ASSUME Init PROVE CountInv
      OBVIOUS
    <2>1. log = <<>> /\ stage = "idle" /\ counts = [icmp |-> 0, ssh |-> 0]
      BY DEF Init
    <2>2. /\ {i \in DOMAIN log : IsEcho(log[i])} = {}
          /\ {i \in DOMAIN log : IsSshAlert(log[i])} = {}
      BY <2>1
    <2>3. Echoes = 0 /\ SshAlerts = 0
      BY <2>2, FS_EmptySet DEF Echoes, SshAlerts
    <2> QED BY <2>1, <2>3 DEF CountInv, EchoDue, SshDue
  <1>2. TypeOK /\ CountInv => TotalsMatchLog
    <2> SUFFICES ASSUME TypeOK, CountInv PROVE TotalsMatchLog
      OBVIOUS
    <2>1. /\ Echoes \in Nat /\ SshAlerts \in Nat
          /\ counts = [icmp |-> counts.icmp, ssh |-> counts.ssh]
          /\ counts.icmp \in Nat /\ counts.ssh \in Nat
      BY LogCounts DEF TypeOK
    <2>2. EchoDue + SshDue <= IF stage = "emit" THEN 1 ELSE 0
      <3>1. \A e \in event : ~(IsEcho(e) /\ IsSshAlert(e))
        BY DEF IsEcho, IsSshAlert
      <3>2. ~((\E e \in event : IsEcho(e)) /\ (\E e \in event : IsSshAlert(e)))
        BY <3>1 DEF TypeOK
      <3> QED BY <3>2 DEF EchoDue, SshDue
    <2>3. EchoDue \in Nat /\ SshDue \in Nat
      BY DEF EchoDue, SshDue
    <2>4. counts.icmp + counts.ssh
            <= Echoes + SshAlerts + IF stage = "emit" THEN 1 ELSE 0
      <3>1. counts.icmp + counts.ssh <= (Echoes + EchoDue) + (SshAlerts + SshDue)
        BY <2>1, <2>3 DEF CountInv
      <3> QED BY <2>1, <2>2, <2>3, <3>1
    <2>5. stage = "idle" /\ display = "on" => counts = [icmp |-> Echoes, ssh |-> SshAlerts]
      <3>1. stage = "idle" => EchoDue = 0 /\ SshDue = 0
        BY DEF EchoDue, SshDue
      <3> QED BY <2>1, <3>1 DEF CountInv
    <2> QED BY <2>4, <2>5 DEF TotalsMatchLog
  <1> QED BY <1>1, <1>2, CountStep, TypeCorrect, PTL DEF Spec

-----------------------------------------------------------------------------
(* The patterns.                                                           *)

(* The patterns shown belong to events of the log, in its order.           *)
Follows(shown, l) ==
  \E place \in [DOMAIN shown -> DOMAIN l] :
    /\ \A i, j \in DOMAIN shown : i < j => place[i] < place[j]
    /\ \A i \in DOMAIN shown : shown[i] = l[place[i]].led

(* A longer log is still followed, and a pattern of its last event may be  *)
(* added.                                                                  *)
LEMMA FollowsLonger ==
  ASSUME NEW l \in Seq(LogEvents), NEW e \in LogEvents, NEW shown \in Seq(Lights),
         Follows(shown, l)
  PROVE  /\ Follows(shown, Append(l, e))
         /\ e.led \in Lights => Follows(Append(shown, e.led), Append(l, e))
  <1> DEFINE m == Len(l)
             n == Len(shown)
             longer == Append(l, e)
             more == Append(shown, e.led)
  <1>1. m \in Nat /\ n \in Nat /\ DOMAIN l = 1..m /\ DOMAIN shown = 1..n
    BY LenProperties
  <1>2. /\ DOMAIN longer = 1..(m + 1)
        /\ \A i \in 1..m : longer[i] = l[i]
        /\ longer[m + 1] = e
    <2>1. longer \in Seq(LogEvents) /\ Len(longer) = m + 1
      BY AppendProperties
    <2>2. DOMAIN longer = 1..(m + 1)
      BY <2>1, LenProperties
    <2> QED BY <2>2, AppendProperties
  <1>3. PICK place \in [1..n -> 1..m] :
          /\ \A i, j \in 1..n : i < j => place[i] < place[j]
          /\ \A i \in 1..n : shown[i] = l[place[i]].led
    <2> HIDE DEF m, n
    <2> QED BY <1>1 DEF Follows
  <1> HIDE DEF longer
  <1>4. Follows(shown, longer)
    <2>1. place \in [1..n -> 1..(m + 1)]
      BY <1>1, <1>3
    <2>2. \A i \in 1..n : shown[i] = longer[place[i]].led
      BY <1>1, <1>2, <1>3
    <2> HIDE DEF m, n
    <2> QED BY <1>1, <1>2, <1>3, <2>1, <2>2 DEF Follows
  <1>5. ASSUME e.led \in Lights PROVE Follows(more, longer)
    <2>1. /\ DOMAIN more = 1..(n + 1)
          /\ \A i \in 1..n : more[i] = shown[i]
          /\ more[n + 1] = e.led
      <3>1. more \in Seq(Lights) /\ Len(more) = n + 1
        BY <1>5, AppendProperties
      <3>2. DOMAIN more = 1..(n + 1)
        BY <3>1, LenProperties
      <3> QED BY <1>5, <3>2, AppendProperties
    <2> HIDE DEF m, n, more
    <2> DEFINE new == [i \in 1..(n + 1) |-> IF i = n + 1 THEN m + 1 ELSE place[i]]
    <2>2. \A i \in 1..(n + 1) : i = n + 1 \/ (i \in 1..n /\ i # n + 1)
      BY <1>1
    <2>3. /\ new[n + 1] = m + 1
          /\ \A i \in 1..n : new[i] = place[i] /\ place[i] \in 1..m
      BY <1>1, <1>3
    <2>4. /\ new \in [1..(n + 1) -> 1..(m + 1)]
          /\ \A i, j \in 1..(n + 1) : i < j => new[i] < new[j]
      <3>1. new \in [1..(n + 1) -> 1..(m + 1)]
        BY <1>1, <1>3, <2>2
      <3> HIDE DEF new
      <3>2. ASSUME NEW i \in 1..(n + 1), NEW j \in 1..(n + 1), i < j
            PROVE  new[i] < new[j]
        <4>1. i \in 1..n
          BY <1>1, <3>2
        <4>2. new[i] = place[i] /\ place[i] \in 1..m
          BY <2>3, <4>1
        <4>3. CASE j = n + 1
          BY <1>1, <2>3, <4>2, <4>3
        <4>4. CASE j \in 1..n
          BY <1>3, <2>3, <3>2, <4>1, <4>2, <4>4
        <4> QED BY <2>2, <4>3, <4>4
      <3> QED BY <3>1, <3>2
    <2>5. \A i \in 1..(n + 1) : more[i] = longer[new[i]].led
      <3> HIDE DEF new
      <3> QED BY <1>2, <1>3, <2>1, <2>2, <2>3
    <2> HIDE DEF new
    <2>6. DOMAIN more = 1..(n + 1) /\ DOMAIN longer = 1..(m + 1)
      BY <1>2, <2>1
    <2> SUFFICES \E where \in [1..(n + 1) -> 1..(m + 1)] :
                   /\ \A i, j \in 1..(n + 1) : i < j => where[i] < where[j]
                   /\ \A i \in 1..(n + 1) : more[i] = longer[where[i]].led
      BY <2>6, Zenon DEF Follows
    <2> QED BY <2>4, <2>5
  <1> QED BY <1>4, <1>5 DEF longer

(* Emitting an event, whether or not the queue has room for its pattern.   *)
LEMMA EmitFollows ==
  ASSUME TypeOK, PatternsFollowLog, NEW e \in LogEvents, Emit(e)
  PROVE  PatternsFollowLog'
  <1>1. Follows(played \o leds, log)
    BY DEF PatternsFollowLog, Follows
  <1>2. /\ log \in Seq(LogEvents) /\ leds \in Seq(Lights) /\ played \in Seq(Lights)
        /\ played \o leds \in Seq(Lights)
    BY ConcatProperties DEF TypeOK
  <1>3. log' = Append(log, e) /\ played' = played
    BY Emitted
  <1>4. Follows(played' \o leds', log')
    <2>1. CASE leds' = leds
      BY <1>1, <1>2, <1>3, <2>1, FollowsLonger
    <2>2. CASE leds' = Append(leds, e.led) /\ e.led \in Lights
      <3>1. leds' = leds \o <<e.led>> /\ <<e.led>> \in Seq(Lights)
        BY <1>2, <2>2, AppendIsConcat
      <3>2. played \o leds' = (played \o leds) \o <<e.led>>
        BY <1>2, <3>1, ConcatAssociative
      <3>3. played \o leds' = Append(played \o leds, e.led)
        BY <1>2, <2>2, <3>2, AppendIsConcat
      <3> QED BY <1>1, <1>2, <1>3, <2>2, <3>3, FollowsLonger
    <2> QED BY <2>1, <2>2, Emitted
  <1> QED BY <1>4 DEF PatternsFollowLog, Follows

(* Playing moves a pattern from the queue to those begun.                  *)
LEMMA SameFollows ==
  ASSUME PatternsFollowLog, log' = log, played' \o leds' = played \o leds
  PROVE  PatternsFollowLog'
  BY DEF PatternsFollowLog

(* The LED shows nothing that was not logged, in the order of the log and  *)
(* nothing twice, for every size of the queue and every speed of its       *)
(* worker.                                                                 *)
THEOREM PatternsFollowLogAlways == Spec => []PatternsFollowLog
  <1>1. Init => PatternsFollowLog
    <2> SUFFICES ASSUME Init PROVE PatternsFollowLog
      OBVIOUS
    <2>1. played \o leds = <<>>
      BY ConcatEmptySeq, EmptySeq DEF Init
    <2>2. [i \in {} |-> 1] \in [DOMAIN (played \o leds) -> DOMAIN log]
      BY <2>1
    <2> QED BY <2>1, <2>2 DEF PatternsFollowLog
  <1>2. TypeOK /\ PatternsFollowLog /\ [Next]_vars => PatternsFollowLog'
    <2> SUFFICES ASSUME TypeOK, PatternsFollowLog, [Next]_vars PROVE PatternsFollowLog'
      OBVIOUS
    <2>1. CASE EmitEvent
      <3>1. PICK e \in event : Emit(e)
        BY <2>1 DEF EmitEvent
      <3>2. e \in LogEvents
        BY <3>1 DEF TypeOK, LogEvents
      <3> QED BY <3>1, <3>2, EmitFollows
    <2>2. CASE Alarm
      BY <2>2, EmitFollows DEF Alarm, LogEvents
    <2>3. CASE LedPlays
      <3>1. log' = log
        BY <2>3 DEF LedPlays
      <3> QED BY <2>3, <3>1, PlayedOne, SameFollows
    <2>4. CASE Tick \/ Capture \/ Record \/ Observe \/ Publish \/ DisplayTakes \/ DisplayEnds
                 \/ UNCHANGED vars
      <3>1. log' = log /\ UNCHANGED ledState
        BY <2>4 DEF Tick, Capture, Record, Observe, Publish, DisplayTakes, DisplayEnds, vars
      <3> QED BY <3>1, SameFollows DEF ledState
    <2> QED BY <2>1, <2>2, <2>3, <2>4 DEF Next
  <1> QED BY <1>1, <1>2, TypeCorrect, PTL DEF Spec

-----------------------------------------------------------------------------
(* The page of the port scan.  The theorems about the detector are taken   *)
(* from its own proofs: every step of process_packet is a step of the      *)
(* detector or leaves it alone.                                            *)
Detector == INSTANCE ScanProofs WITH MaxSyns <- MaxPackets

(* What the detector assumes of its constants holds of ours.               *)
LEMMA DetectorAssumption == Detector!ScanAssumption
  BY NetmonAssumption DEF Detector!ScanAssumption, Detector!IsFiniteSet, IsFiniteSet

(* The two instances of the detector have the same operators.              *)
LEMMA SamePruning ==
  /\ Scan!Casts = Detector!Casts
  /\ \A t, w : Scan!PruneSources(t, w) = Detector!PruneSources(t, w)
  /\ \A f, s, t, w : Scan!Seen(f, s, t, w) = Detector!Seen(f, s, t, w)
  <1>1. \A t, x, w : Scan!OutsideWindow(t, x, w) <=> Detector!OutsideWindow(t, x, w)
    BY DEF Scan!OutsideWindow, Detector!OutsideWindow
  <1>2. \A x, t, w : Scan!PrunePorts(x, t, w) = Detector!PrunePorts(x, t, w)
    BY <1>1 DEF Scan!PrunePorts, Detector!PrunePorts, Scan!Restrict, Detector!Restrict
  <1>3. \A x, t, w : Scan!Idle(x, t, w) <=> Detector!Idle(x, t, w)
    BY <1>1, <1>2 DEF Scan!Idle, Detector!Idle
  <1>4. \A t, w : Scan!PruneSources(t, w) = Detector!PruneSources(t, w)
    BY <1>2, <1>3 DEF Scan!PruneSources, Detector!PruneSources
  <1>5. \A f, s : Scan!FindOrCreateSource(f, s) = Detector!FindOrCreateSource(f, s)
    BY DEF Scan!FindOrCreateSource, Detector!FindOrCreateSource,
           Scan!NewSource, Detector!NewSource, Scan!NoPorts, Detector!NoPorts
  <1>6. \A f, s, t, w : Scan!Seen(f, s, t, w) = Detector!Seen(f, s, t, w)
    BY <1>2, <1>5 DEF Scan!Seen, Detector!Seen
  <1> QED BY <1>4, <1>6 DEF Scan!Casts, Detector!Casts

(* What a call writes, and when it raises an alert.                        *)
LEMMA SameUpdates ==
  /\ \A f, x, y : Scan!Put(f, x, y) = Detector!Put(f, x, y)
  /\ \A f, p, t : Scan!UpsertPort(f, p, t) = Detector!UpsertPort(f, p, t)
  /\ \A n, x, t, w : Scan!Raises(n, x, t, w) <=> Detector!Raises(n, x, t, w)
  /\ \A S : Scan!Cardinality(S) = Detector!Cardinality(S)
  <1>1. \A f, x, y : Scan!Put(f, x, y) = Detector!Put(f, x, y)
    BY DEF Scan!Put, Detector!Put
  <1>2. \A n, x, t, w : Scan!Raises(n, x, t, w) <=> Detector!Raises(n, x, t, w)
    BY DEF Scan!Raises, Detector!Raises, Scan!OutsideWindow, Detector!OutsideWindow
  <1>3. \A S : Scan!Cardinality(S) = Detector!Cardinality(S)
    BY DEF Scan!Cardinality, Detector!Cardinality
  <1> QED BY <1>1, <1>2, <1>3 DEF Scan!UpsertPort, Detector!UpsertPort

(* An ending of scan_detector_observe in one instance is the same ending   *)
(* in the other: no memory for the bucket ...                              *)
LEMMA SameSourceLost ==
  ASSUME NEW s \in Sources, Scan!ObserveSourceLost(s)
  PROVE  Detector!ObserveSourceLost(s)
  BY SamePruning DEF Scan!ObserveSourceLost, Detector!ObserveSourceLost,
                     Scan!StartObserve, Detector!StartObserve

(* ... no memory for the port ...                                          *)
LEMMA SamePortLost ==
  ASSUME NEW s \in Sources, NEW p \in Ports, Scan!ObservePortLost(s, p)
  PROVE  Detector!ObservePortLost(s, p)
  BY SamePruning, SameUpdates DEF Scan!ObservePortLost, Detector!ObservePortLost,
                                  Scan!StartObserve, Detector!StartObserve

(* ... and recorded.                                                       *)
LEMMA SameRecorded ==
  ASSUME NEW s \in Sources, NEW p \in Ports, Scan!HRecorded(s, p)
  PROVE  Detector!HRecorded(s, p)
  <1>1. PICK w \in Scan!Casts :
          LET pruned == Scan!PruneSources(now, w)
              entry == Scan!Seen(pruned, s, now, w)
              ports == Scan!UpsertPort(entry.ports, p, now)
              count == Scan!Cardinality(DOMAIN ports)
              raise == Scan!Raises(count, entry.lastAlert, now, w)
          IN  /\ Scan!StartObserve
              /\ sources' = Scan!Put(pruned, s,
                              [entry EXCEPT !.ports = ports,
                                            !.lastAlert = IF raise THEN now ELSE @])
              /\ alert' = IF raise THEN {[src |-> s, uniquePorts |-> count]} ELSE {}
    BY DEF Scan!HRecorded, Scan!ObserveRecorded
  <1>2. Detector!StartObserve
    BY <1>1 DEF Scan!StartObserve, Detector!StartObserve
  <1>3. Detector!ObserveRecorded(s, p)
    BY <1>1, <1>2, SamePruning, SameUpdates DEF Detector!ObserveRecorded
  <1> QED BY <1>3 DEF Scan!HRecorded, Detector!HRecorded

(* What the snapshots and their counts are, in both instances.             *)
LEMMA SameSnapshots == Scan!Snapshots = Detector!Snapshots
  BY DEF Scan!Snapshots, Detector!Snapshots, Scan!Nodes, Detector!Nodes,
         Scan!Tracked, Detector!Tracked, Scan!SnapshotOf, Detector!SnapshotOf,
         Scan!BucketByBucket, Detector!BucketByBucket,
         Scan!Bijection, Detector!Bijection, Scan!Injection, Detector!Injection,
         Scan!Surjection, Detector!Surjection, Scan!IsInjective, Detector!IsInjective,
         Scan!Cardinality, Detector!Cardinality

(* The counting loop.                                                      *)
LEMMA SamePage == \A x, t, w : Scan!MaxPorts(x, t, w) = Detector!MaxPorts(x, t, w)
  BY DEF Scan!MaxPorts, Detector!MaxPorts, Scan!Counted, Detector!Counted,
         Scan!CountPort, Detector!CountPort, Scan!CountedBefore, Detector!CountedBefore,
         Scan!OutsideWindow, Detector!OutsideWindow

(* The number of ports of one source that are inside the window.           *)
Alive(s) == Cardinality(Scan!Promise!LivePorts(touched[s], now))

(* The reference count.                                                    *)
LEMMA SameLiveCount == \A s : Alive(s) = Detector!LiveCount(s)
  <1>1. \A S : Detector!Cardinality(S) = Cardinality(S)
    BY DEF Detector!Cardinality, Cardinality
  <1>2. \A s : Scan!Promise!LivePorts(touched[s], now) = Detector!Promise!LivePorts(touched[s], now)
    BY DEF Scan!Promise!LivePorts, Detector!Promise!LivePorts,
           Scan!Promise!Never, Detector!Promise!Never
  <1> QED BY <1>1, <1>2 DEF Alive, Detector!LiveCount

(* process_packet implements the detector it composes.                     *)
LEMMA DetectorInit == Init => Detector!HInit
  BY DEF Init, Scan!HInit, Detector!HInit, Scan!Init, Detector!Init,
         Scan!NewSource, Detector!NewSource, Scan!NoPorts, Detector!NoPorts,
         Scan!Never, Detector!Never, Scan!Promise!Never, Detector!Promise!Never

(* A packet, a tick or a call reaches the detector as one of its own       *)
(* steps.                                                                  *)
LEMMA DetectorStep == [Next]_vars => [Detector!HNext]_(Detector!hvars)
  <1> SUFFICES ASSUME [Next]_vars PROVE [Detector!HNext]_(Detector!hvars)
    OBVIOUS
  <1>1. CASE Tick
    <2>1. Detector!Tick /\ Detector!HSame
      BY <1>1 DEF Tick, Rules!Tick, scanState, Detector!Tick, Detector!HSame,
                  Rules!Time, Detector!Time
    <2> QED BY <2>1 DEF Detector!HNext
  <1>2. CASE Observe
    <2>1. CASE ObserveNothing
      <3>1. Detector!ObserveNothing /\ Detector!HSame
        BY <2>1 DEF ObserveNothing, Scan!ObserveNothing, Scan!HSame,
                    Detector!ObserveNothing, Detector!HSame
      <3> QED BY <3>1 DEF Detector!HNext
    <2>2. CASE \E p \in packet \cap Syns : ObserveSyn(p.src, p.port)
      <3>1. PICK p \in Syns : ObserveSyn(p.src, p.port)
        BY <2>2
      <3>2. p.src \in Sources /\ p.port \in Ports
        BY <3>1, NetmonAssumption DEF Syns
      <3>3. CASE Scan!HRecorded(p.src, p.port)
        BY <3>2, <3>3, SameRecorded DEF Detector!HNext
      <3>4. CASE Scan!HSame /\ Scan!ObserveSourceLost(p.src)
        BY <3>2, <3>4, SameSourceLost DEF Detector!HNext, Scan!HSame, Detector!HSame
      <3>5. CASE Scan!HSame /\ Scan!ObservePortLost(p.src, p.port)
        BY <3>2, <3>5, SamePortLost DEF Detector!HNext, Scan!HSame, Detector!HSame
      <3> QED BY <3>1, <3>3, <3>4, <3>5 DEF ObserveSyn
    <2> QED BY <1>2, <2>1, <2>2 DEF Observe
  <1>3. CASE Publish
    <2>1. Detector!ObserveNothing /\ Detector!HSame
      BY <1>3 DEF Publish, Detector!ObserveNothing, Detector!HSame
    <2> QED BY <2>1 DEF Detector!HNext
  <1>4. CASE Capture
    <2>1. now' = now
      BY <1>4 DEF Capture, EvaluateSsh, EvaluateOther, Rules!EvaluateNoClock,
                  Rules!EvaluateRepeat, Rules!EvaluateFirst, Rules!EvaluateUntracked,
                  Rules!Evaluate
    <2> QED BY <1>4, <2>1 DEF Capture, scanState, Detector!hvars
  <1>5. CASE Record \/ EmitEvent \/ Alarm \/ LedPlays \/ DisplayTakes \/ DisplayEnds
               \/ UNCHANGED vars
    BY <1>5 DEF Record, EmitEvent, Alarm, LedPlays, DisplayTakes, DisplayEnds, vars,
                scanState, Detector!hvars
  <1> QED BY <1>1, <1>2, <1>3, <1>4, <1>5 DEF Next

(* The scan detector inside process_packet does what it does alone, with   *)
(* the packets that the rules and the parser leave it and the clock that   *)
(* all share.                                                              *)
THEOREM PipelineRunsDetector == Spec => Detector!HSpec
  BY DetectorInit, DetectorStep, PTL DEF Spec, Detector!HSpec

(* The invariant of the detector holds in the pipeline.                    *)
LEMMA DetectorSane == ASSUME Scan!WallClockSane PROVE Spec => []Detector!SaneInv
  <1>1. Detector!WallClockSane
    BY DEF Scan!WallClockSane, Detector!WallClockSane
  <1>2. Detector!HSpec => []Detector!SaneInv
    BY <1>1, DetectorAssumption, Detector!SaneAlways
  <1> QED BY <1>2, PipelineRunsDetector, PTL

(* What is promised of the detector alone is kept inside process_packet:   *)
(* with a wall clock that does not jump, Threshold ports of one source in  *)
(* one window are reported in that window, whatever other packets come     *)
(* between and whatever the two workers do.                                *)
THEOREM PipelineReportsScans ==
  ASSUME Scan!WallClockSane PROVE Spec => []Detector!ScanReported
  <1>1. Detector!WallClockSane
    BY DEF Scan!WallClockSane, Detector!WallClockSane
  <1>2. Detector!HSpec => []Detector!ScanReported
    BY <1>1, DetectorAssumption, Detector!ScanReportedAlways
  <1> QED BY <1>2, PipelineRunsDetector, PTL

(* The snapshot that the display will show next.                           *)
Newest == IF pending = {} THEN {active} ELSE pending

(* A snapshot of the detector as it is now is current until the next SYN   *)
(* is observed; any snapshot is sound for ever.                            *)
PageInv ==
  /\ published \in Nat /\ published <= revision
  /\ Detector!Sound(active, touched)
  /\ \A x \in pending : Detector!Sound(x, touched)
  /\ display = "on" /\ stage \notin {"alarm", "publish"} => published = revision
  /\ display = "on" /\ published = revision
       => \A x \in Newest : Detector!Current(x, touched, now)

(* A snapshot without entries shows nothing that is not there.             *)
LEMMA NothingSound ==
  \A t : /\ Detector!Lists(<<>>, <<>>)
         /\ Detector!Sound(<<>>, t)
  <1>1. Detector!Lists(<<>>, <<>>)
    <2>1. <<>> \in Seq([src : Sources, seen : Detector!Time]) /\ DOMAIN <<>> = {}
      BY EmptySeq
    <2>2. <<>> \in Detector!Injection({}, Sources \X Ports)
      BY DEF Detector!Injection, Detector!IsInjective
    <2> QED BY <2>1, <2>2 DEF Detector!Lists, Detector!Grouped
  <1> QED BY <1>1 DEF Detector!Sound

(* Before the first packet the page is empty, and so is the window.        *)
LEMMA PageInit == Init => PageInv
  <1> SUFFICES ASSUME Init PROVE PageInv
    OBVIOUS
  <1>1. /\ published = 0 /\ pending = {} /\ active = <<>> /\ revision = 0
        /\ touched = [s \in Sources |-> [p \in Ports |-> -1]]
    BY DEF Init, Scan!HInit, Scan!Init, Scan!Never, Scan!Promise!Never
  <1>2. Detector!Current(active, touched, now)
    BY <1>1, NothingSound DEF Detector!Current, Detector!Never, Detector!Promise!Never
  <1> QED BY <1>1, <1>2, NothingSound DEF PageInv, Newest

(* The detector and the page, in a step that leaves the page's state alone *)
(* or only moves it towards the worker.                                    *)
LEMMA PageStep ==
  ASSUME Scan!WallClockSane, Detector!SaneInv, PageInv, [Next]_vars
  PROVE  PageInv'
  <1>1. /\ Detector!WallClockSane
        /\ [Detector!HNext]_(Detector!hvars)
        /\ revision \in Nat
    BY DetectorStep, DetectorAssumption
       DEF Scan!WallClockSane, Detector!WallClockSane, Detector!SaneInv,
           Detector!HTypeOK, Detector!TypeOK
  <1>2. \A x : Detector!Sound(x, touched) => Detector!Sound(x, touched')
    BY <1>1, DetectorAssumption, Detector!SoundKept
  <1>3. ASSUME revision' = revision
        PROVE  \A x : Detector!Current(x, touched, now) => Detector!Current(x, touched', now')
    BY <1>1, <1>3, DetectorAssumption, Detector!CurrentKept
  <1>4. ASSUME published' = published, revision' = revision,
               display' = display \/ display' # "on",
               stage' \notin {"alarm", "publish"} => stage \notin {"alarm", "publish"},
               \/ pending' = pending /\ active' = active
               \/ active' \in pending /\ pending' = {}
               \/ active' = <<>> /\ pending' = pending /\ display' # "on"
        PROVE  PageInv'
    <2>1. display' = "on" => Newest' \subseteq Newest
      BY <1>4 DEF Newest
    <2>2. Detector!Sound(active', touched')
      BY <1>2, <1>4, NothingSound DEF PageInv
    <2>3. \A x \in pending' : Detector!Sound(x, touched')
      BY <1>2, <1>4 DEF PageInv
    <2>4. ASSUME display' = "on", published' = revision', NEW x \in Newest'
          PROVE  Detector!Current(x, touched', now')
      BY <1>3, <1>4, <2>1, <2>4 DEF PageInv
    <2> QED BY <1>4, <2>2, <2>3, <2>4 DEF PageInv
  <1>5. CASE Observe
    <2>1. /\ stage = "observe" /\ stage' \in {"alarm", "publish"}
          /\ UNCHANGED <<published, pending, active, display>>
      BY <1>5 DEF Observe, displayState
    <2>2. CASE revision' = revision
      BY <1>4, <2>1, <2>2
    <2>3. CASE revision' = revision + 1
      <3>1. published' # revision' /\ published' <= revision'
        BY <1>1, <2>1, <2>3 DEF PageInv
      <3> QED BY <1>2, <2>1, <3>1 DEF PageInv
    <2>4. revision' = revision \/ revision' = revision + 1
      BY <1>5 DEF Observe, ObserveNothing, ObserveSyn, Scan!ObserveNothing, Scan!HRecorded,
                  Scan!ObserveRecorded, Scan!ObserveSourceLost, Scan!ObservePortLost,
                  Scan!StartObserve
    <2> QED BY <2>2, <2>3, <2>4
  <1>6. CASE Publish
    <2>1. /\ stage' = "idle" /\ revision' = revision /\ touched' = touched /\ now' = now
      BY <1>6 DEF Publish
    <2>2. CASE ~(IsAvailable /\ Unpublished) /\ UNCHANGED displayState
      <3>1. display' = "on" => published' = revision'
        BY <2>1, <2>2 DEF IsAvailable, Unpublished, displayState
      <3> QED BY <1>3, <2>1, <2>2, <3>1 DEF PageInv, Newest, displayState
    <2>3. CASE display' = "failed" /\ UNCHANGED <<published, pending, active>>
      BY <2>1, <2>3 DEF PageInv
    <2>4. CASE /\ \E snapshot \in Scan!Snapshots : pending' = {snapshot}
               /\ published' = revision
               /\ UNCHANGED <<display, active>>
      <3>1. PICK x \in Detector!Snapshots : pending' = {x}
        BY <2>4, SameSnapshots
      <3>2. Detector!IsFiniteSet(Sources)
        BY NetmonAssumption DEF IsFiniteSet, Detector!IsFiniteSet
      <3>3. Detector!Sound(x, touched) /\ Detector!Current(x, touched, now)
        BY <3>1, <3>2, DetectorAssumption, Detector!SnapshotCurrent
      <3>4. Newest' = {x}
        BY <3>1 DEF Newest
      <3> QED BY <1>1, <2>1, <2>4, <3>1, <3>3, <3>4 DEF PageInv
    <2> QED BY <1>6, <2>2, <2>3, <2>4 DEF Publish
  <1>7. CASE Tick \/ Capture \/ Record \/ EmitEvent \/ Alarm \/ LedPlays
               \/ UNCHANGED vars
    <2>1. /\ UNCHANGED <<published, revision, display, pending, active>>
          /\ stage' \notin {"alarm", "publish"} => stage \notin {"alarm", "publish"}
      BY <1>7 DEF Tick, Capture, Record, EmitEvent, Alarm, LedPlays, vars,
                  scanState, displayState
    <2> QED BY <1>4, <2>1
  <1>8. CASE DisplayTakes \/ DisplayEnds
    <2>1. /\ UNCHANGED <<published, revision, stage>>
          /\ display' = display \/ display' # "on"
          /\ \/ active' \in pending /\ pending' = {}
             \/ active' = <<>> /\ pending' = pending /\ display' # "on"
      BY <1>8 DEF DisplayTakes, DisplayEnds, scanState
    <2> QED BY <1>4, <2>1
  <1> QED BY <1>5, <1>6, <1>7, <1>8 DEF Next

(* One number is the largest of all sources.                               *)
LEMMA LargestAlive ==
  ASSUME Detector!SaneInv
  PROVE  /\ \A s \in Sources : Alive(s) \in 0..Cardinality(Ports)
         /\ \E n \in 0..Cardinality(Ports) : TrueMaximum(n)
  <1> DEFINE Above(n) == \A s \in Sources : Alive(s) <= n
             N == Cardinality(Ports)
  <1>1. N \in Nat
    BY NetmonAssumption, FS_CardinalityType
  <1>2. \A s \in Sources : Alive(s) \in 0..N
    <2>1. Detector!HTypeOK /\ Detector!Cardinality(Ports) = N
      BY DEF Detector!SaneInv, Detector!Cardinality, Cardinality
    <2>2. \A s \in Sources : Detector!LiveCount(s) \in 0..Detector!Cardinality(Ports)
      BY <2>1, DetectorAssumption, Detector!LiveCounts
    <2> QED BY <2>1, <2>2, SameLiveCount
  <1>3. PICK n \in Nat : Above(n) /\ \A m \in Nat : Above(m) => n <= m
    <2> DEFINE Uppers == {n \in Nat : Above(n)}
    <2>1. N \in Uppers
      BY <1>1, <1>2
    <2>2. PICK n \in Uppers : \A m \in Uppers : n <= m
      <3>1. Uppers \subseteq Nat /\ Uppers # {}
        BY <2>1
      <3> HIDE DEF Uppers
      <3> QED BY <3>1, DetectorAssumption, Detector!Least
    <2> QED BY <2>2
  <1>4. n \in 0..N
    BY <1>1, <1>2, <1>3
  <1>5. n = 0 \/ \E s \in Sources : Alive(s) = n
    <2>1. CASE n # 0 /\ \A s \in Sources : Alive(s) # n
      <3>1. n - 1 \in Nat /\ ~ n <= n - 1
        BY <1>3, <2>1
      <3>2. Above(n - 1)
        BY <1>1, <1>2, <1>3, <2>1
      <3> QED BY <1>3, <3>1, <3>2
    <2> QED BY <2>1
  <1>6. TrueMaximum(n)
    BY <1>3, <1>5 DEF TrueMaximum, Alive
  <1> QED BY <1>2, <1>4, <1>6

(* The page of the Type 3 patterns tells the truth, if the wall clock does *)
(* not jump: what the worker shows, however old, is never more than is     *)
(* inside the window, and between packets the newest snapshot shows        *)
(* exactly that.                                                           *)
THEOREM PageTruthfulAlways ==
  ASSUME Scan!WallClockSane PROVE Spec => []PageTruthful
  <1>1. Init => PageInv
    BY PageInit
  <1>2. Detector!SaneInv /\ PageInv /\ [Next]_vars => PageInv'
    BY PageStep
  <1>3. Detector!SaneInv /\ PageInv => PageTruthful
    <2> SUFFICES ASSUME Detector!SaneInv, PageInv, NEW cast \in Rules!Casts
                 PROVE  /\ \E n \in 0..Cardinality(Ports) :
                             TrueMaximum(n) /\ Page(active, cast) <= n
                        /\ stage = "idle" /\ display = "on"
                             => \A newest \in Newest : TrueMaximum(Page(newest, cast))
      BY DEF PageTruthful, Newest
    <2>1. PICK n \in 0..Cardinality(Ports) : TrueMaximum(n)
      BY LargestAlive
    <2>2. /\ n \in Nat
          /\ \A s \in Sources : Alive(s) <= n /\ Alive(s) \in Nat
      BY <2>1, LargestAlive DEF TrueMaximum, Alive
    <2>3. Page(active, cast) <= n
      <3>1. /\ Page(active, cast) \in Nat
            /\ Page(active, cast) = 0 \/ \E s \in Sources : Page(active, cast) <= Alive(s)
        BY DetectorAssumption, Detector!SoundPage, SamePage, SameLiveCount DEF PageInv, Page
      <3> QED BY <2>2, <3>1
    <2>4. ASSUME stage = "idle", display = "on", NEW newest \in Newest
          PROVE  TrueMaximum(Page(newest, cast))
      <3>1. Detector!Current(newest, touched, now)
        BY <2>4 DEF PageInv
      <3>2. /\ \A s \in Sources : Alive(s) <= Page(newest, cast)
            /\ \/ Page(newest, cast) = 0
               \/ \E s \in Sources : Alive(s) = Page(newest, cast)
        BY <3>1, DetectorAssumption, Detector!CurrentPage, SamePage, SameLiveCount DEF Page
      <3> QED BY <3>2 DEF TrueMaximum, Alive
    <2> QED BY <2>1, <2>3, <2>4
  <1> QED BY <1>1, <1>2, <1>3, DetectorSane, PTL DEF Spec
=============================================================================
