------------------------------- MODULE Netmon -------------------------------
(***************************************************************************)
(* process_packet of src/src/main.c: one packet goes through the rules,    *)
(* the display counters, the log, the LED queue, the scan detector and the *)
(* display's snapshot, while the clock moves, the LED worker plays and the *)
(* display worker takes snapshots or fails.  Rules and detector are the    *)
(* modules of these components; of LED and display it is what they were    *)
(* shown to promise (LedQueue, SnapshotMailbox).                           *)
(***************************************************************************)
EXTENDS Integers, Sequences, FiniteSets

CONSTANTS
  Sources,       \* IPv4 source addresses
  Ports,         \* TCP destination ports
  SshPort,       \* port 22
  Tries,         \* tells the SSH attempts of a source apart
  PlainPackets,  \* classes of the packets that are no initial SYN
  Window, Threshold, DedupSeconds,
  QueueCapacity,
  StartTime, ClockSteps,
  MaxTime,       \* bound: the last second explored
  MaxPackets     \* bound: packets captured

(* What the composed modules assume, for the constants they are given.     *)
ASSUME NetmonAssumption ==
  /\ IsFiniteSet(Sources) /\ IsFiniteSet(Ports)
  /\ SshPort \in Ports
  /\ Window \in Nat \ {0} /\ Threshold \in Nat \ {0}
  /\ DedupSeconds \in Nat
  /\ QueueCapacity \in Nat \ {0}
  /\ MaxTime \in Nat /\ StartTime \in 0..MaxTime
  /\ ClockSteps \subseteq Int
  /\ MaxPackets \in Nat

VARIABLES
  now,                                                 \* time(NULL)
  attempts, evaluated, event,                          \* RulesEngine
  sources, revision, alert, touched, alertedAt,        \* ScanHistory
  packet,                                              \* the packet in process_packet, {} or one
  stage,                                               \* what process_packet does next
  log,                                                 \* history: the events emitted
  ledStatus, leds, played,                             \* LedQueue; "new" while the LED is off
  display,     \* "on", "failed" (no snapshot could be allocated) or "ended"
  counts,      \* controller->icmp_count and ssh_count
  published,   \* controller->published_revision
  pending,     \* controller->pending: {} or one snapshot
  active       \* the snapshot of the display worker, empty at first

rulesState == <<attempts, evaluated, event>>
scanState == <<sources, revision, alert, touched, alertedAt>>
ledState == <<ledStatus, leds, played>>
displayState == <<display, counts, published, pending, active>>
vars == <<now, rulesState, scanState, packet, stage, log, ledState, displayState>>

Rules == INSTANCE RulesEngine WITH Attempts <- Sources \X Tries
Scan == INSTANCE ScanSnapshot WITH MaxSyns <- MaxPackets
Queue == INSTANCE LedQueue WITH
  Actions <- {"SHORT", "LONG", "RAPID"}, Capacity <- QueueCapacity,
  status <- ledStatus, pending <- leds, late <- 0

(* What the rules make of a packet that is no initial SYN.                 *)
ASSUME PlainPacketsAssumption == PlainPackets \subseteq Rules!PlainClasses

(* An initial SYN to port 22 is an SSH attempt and a probe of the scan.    *)
Syns ==
  [class : {"ssh"}, src : Sources, port : {SshPort}, try : Tries]
    \cup [class : {"tcp"}, src : Sources, port : Ports \ {SshPort}]
Packets == Syns \cup [class : PlainPackets]

-----------------------------------------------------------------------------
Init ==
  /\ Rules!Init
  /\ Scan!HInit
  /\ packet = {} /\ stage = "idle" /\ log = <<>>
  /\ ledStatus \in {"new", "open"} /\ leds = <<>> /\ played = <<>>
  /\ display = "on" /\ counts = [icmp |-> 0, ssh |-> 0]
  /\ published = 0 /\ pending = {} /\ active = <<>>

Tick ==
  /\ Rules!Tick
  /\ UNCHANGED <<scanState, packet, stage, log, ledState, displayState>>

(* rules_engine_evaluate_packet for an initial SYN to port 22.             *)
EvaluateSsh(attempt) ==
  \/ Rules!EvaluateNoClock
  \/ Rules!EvaluateRepeat(attempt)
  \/ Rules!EvaluateFirst(attempt)
  \/ Rules!EvaluateUntracked(attempt)

EvaluateOther(class) ==
  /\ Rules!Evaluate
  /\ event' = Rules!PlainEvent(class)
  /\ UNCHANGED attempts

(* A packet is captured, parsed and evaluated.                             *)
Capture ==
  /\ stage = "idle"
  /\ \E p \in Packets :
       /\ packet' = {p}
       /\ IF p.class = "ssh" THEN EvaluateSsh(<<p.src, p.try>>) ELSE EvaluateOther(p.class)
  /\ stage' = IF event' = {} THEN "observe" ELSE "record"
  /\ UNCHANGED <<scanState, log, ledState, displayState>>

IsAvailable == display = "on"

CountByKind(e) ==
  CASE e.kind = "icmp" -> [counts EXCEPT !.icmp = @ + 1]
    [] e.kind = "tcp" -> [counts EXCEPT !.ssh = @ + 1]
    [] OTHER -> counts

(* display_controller_record_event: the LED action tells echo requests and *)
(* new SSH attempts from other ICMP and TCP events.                        *)
CountEvent(e) ==
  CASE e.kind = "icmp" /\ e.led = "SHORT" -> [counts EXCEPT !.icmp = @ + 1]
    [] e.kind = "tcp" /\ e.led = "LONG" -> [counts EXCEPT !.ssh = @ + 1]
    [] OTHER -> counts

Record ==
  /\ stage = "record"
  /\ \E e \in event : counts' = IF IsAvailable THEN CountEvent(e) ELSE counts
  /\ stage' = "emit"
  /\ UNCHANGED <<now, rulesState, scanState, packet, log, ledState,
                 display, published, pending, active>>

(* led_controller_enqueue drops what it has no room for, and everything    *)
(* when the LED is disabled or could not be opened.                        *)
Enqueue(action) ==
  \/ action # "NONE" /\ Queue!Offer(action)
  \/ /\ ledStatus # "open" \/ action = "NONE" \/ Len(leds) = QueueCapacity
     /\ UNCHANGED ledState

EmitStale(e) ==
  /\ log' = Append(log, e)
  /\ \E last \in IF event = {} THEN {e} ELSE event : Enqueue(last.led)

(* logger_emit and led_controller_enqueue, for one event.                  *)
Emit(e) == log' = Append(log, e) /\ Enqueue(e.led)

EmitEvent ==
  /\ stage = "emit"
  /\ \E e \in event : Emit(e)
  /\ stage' = "observe"
  /\ UNCHANGED <<now, rulesState, scanState, packet, displayState>>

(* scan_detector_observe: each end of it for an initial SYN, and its early *)
(* return for other packets or a failed time().                            *)
ObserveSyn(s, p) ==
  \/ Scan!HRecorded(s, p)
  \/ Scan!HSame /\ (Scan!ObserveSourceLost(s) \/ Scan!ObservePortLost(s, p))

ObserveNothing == Scan!ObserveNothing /\ Scan!HSame

Observe ==
  /\ stage = "observe"
  /\ \/ ObserveNothing
     \/ \E p \in packet \cap Syns : ObserveSyn(p.src, p.port)
  /\ stage' = IF alert' = {} THEN "publish" ELSE "alarm"
  /\ UNCHANGED <<rulesState, packet, log, ledState, displayState>>

(* rules_make_scan_alert                                                   *)
ScanEvent == [kind |-> "port_scan", severity |-> "ALERT", led |-> "RAPID"]

Alarm ==
  /\ stage = "alarm"
  /\ Emit(ScanEvent)
  /\ stage' = "publish"
  /\ UNCHANGED <<now, rulesState, scanState, packet, displayState>>

UnpublishedAlert == alert # {}
Unpublished == revision # published

(* display_controller_publish_scan, and the return: packet, event and      *)
(* alert are locals of process_packet.                                     *)
Publish ==
  /\ stage = "publish"
  /\ \/ /\ ~(IsAvailable /\ Unpublished)
        /\ UNCHANGED displayState
     \/ /\ IsAvailable /\ Unpublished
        /\ display' = "failed"
        /\ UNCHANGED <<counts, published, pending, active>>
     \/ /\ IsAvailable /\ Unpublished
        /\ \E snapshot \in Scan!Snapshots : pending' = {snapshot}
        /\ published' = revision
        /\ UNCHANGED <<display, counts, active>>
  /\ stage' = "idle" /\ packet' = {} /\ event' = {} /\ alert' = {}
  /\ UNCHANGED <<now, attempts, evaluated, sources, revision, touched, alertedAt,
                 log, ledState>>

-----------------------------------------------------------------------------
(* The two worker threads.                                                 *)
LedPlays ==
  /\ Queue!Play
  /\ UNCHANGED <<now, rulesState, scanState, packet, stage, log, displayState>>

DisplayTakes ==
  /\ display # "ended" /\ pending # {}
  /\ active' \in pending
  /\ pending' = {}
  /\ UNCHANGED <<now, rulesState, scanState, packet, stage, log, ledState,
                 display, counts, published>>

(* A failure or the end of the program: the worker frees its snapshot.     *)
DisplayEnds ==
  /\ display # "ended"
  /\ display' = "ended"
  /\ active' = <<>>
  /\ UNCHANGED <<now, rulesState, scanState, packet, stage, log, ledState,
                 counts, published, pending>>

Next ==
  \/ Tick
  \/ Capture \/ Record \/ EmitEvent \/ Observe \/ Alarm \/ Publish
  \/ LedPlays
  \/ DisplayTakes \/ DisplayEnds

Spec == Init /\ [][Next]_vars
=============================================================================
