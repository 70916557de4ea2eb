---------------------------- MODULE ScanDetector ----------------------------
(***************************************************************************)
(* The port-scan detector of src/src/scan_detector.c.  It keeps one bucket *)
(* per source address with the time each destination port was last touched *)
(* by an initial SYN, and raises an alert when a source has touched        *)
(* Threshold distinct ports inside a sliding window of Window seconds.     *)
(*                                                                         *)
(* The linked lists of buckets and ports are functions: a key that is not  *)
(* in the DOMAIN has no list node.  List order is invisible here: every    *)
(* operation walks a whole list, and a key occurs at most once in it.      *)
(***************************************************************************)
EXTENDS Integers, FiniteSets, Functions

CONSTANTS
  Sources,     \* IPv4 source addresses
  Ports,       \* TCP destination ports
  Window,      \* detector->window_seconds
  Threshold,   \* detector->threshold
  StartTime,   \* wall clock (seconds since the epoch) when the program starts
  ClockSteps,  \* by how much the wall clock may move at once
  MaxTime,     \* bound: the last second explored
  MaxSyns      \* bound: initial SYNs observed in one behaviour

(* main.c:120,130 refuse a zero window or threshold, and                   *)
(* scan_detector_create replaces a zero by its default.                    *)
ASSUME ScanAssumption ==
  /\ IsFiniteSet(Ports)
  /\ Window \in Nat \ {0}
  /\ Threshold \in Nat \ {0}
  /\ MaxTime \in Nat
  /\ StartTime \in 0..MaxTime
  /\ ClockSteps \subseteq Int
  /\ MaxSyns \in Nat

VARIABLES
  now,       \* time(NULL)
  sources,   \* detector->sources: source |-> bucket
  revision,  \* detector->revision
  alert      \* what the last observe call returned: {} or one ScanAlert

vars == <<now, sources, revision, alert>>

Time == 0..MaxTime
Casts == {"saturates", "wraps"}
NoPorts == [p \in {} |-> 0]
PortTimes == UNION {[P -> Time] : P \in SUBSET Ports}
SourceEntry == [lastSeen : Time, lastAlert : Time, ports : PortTimes]
ScanAlert == [src : Sources, uniquePorts : Nat]

TypeOK ==
  /\ now \in Time
  /\ DOMAIN sources \subseteq Sources
  /\ sources \in [DOMAIN sources -> SourceEntry]
  /\ revision \in 0..MaxSyns
  /\ \A a, b \in alert : a \in ScanAlert /\ a = b

-----------------------------------------------------------------------------
OutsideWindowEarly(t, seen, cast) ==
  IF seen <= t THEN t - seen >= Window ELSE cast = "wraps"

(* (unsigned int)difftime(t, seen) > window.  When seen lies in the future *)
(* the conversion of a negative double is undefined: AArch64 saturates to  *)
(* 0, x86-64 wraps to a huge value.  cast says which one happens.          *)
OutsideWindow(t, seen, cast) ==
  IF seen <= t THEN t - seen > Window ELSE cast = "wraps"

PrunePortsNever(ports, t, cast) == ports

PrunePorts(ports, t, cast) ==
  Restrict(ports, {p \in DOMAIN ports : ~OutsideWindow(t, ports[p], cast)})

Idle(entry, t, cast) ==
  /\ DOMAIN PrunePorts(entry.ports, t, cast) = {}
  /\ OutsideWindow(t, entry.lastSeen, cast)
  /\ OutsideWindow(t, entry.lastAlert, cast)

PruneSourcesKeepIdle(t, cast) ==
  [s \in DOMAIN sources |->
     [sources[s] EXCEPT !.ports = PrunePorts(@, t, cast)]]

(* Prune every bucket, then drop the buckets that are idle.                *)
PruneSources(t, cast) ==
  [s \in {x \in DOMAIN sources : ~Idle(sources[x], t, cast)} |->
     [sources[s] EXCEPT !.ports = PrunePorts(@, t, cast)]]

Put(f, key, value) ==
  [x \in DOMAIN f \cup {key} |-> IF x = key THEN value ELSE f[x]]

(* A fresh bucket comes zeroed from calloc: both times are the epoch.      *)
NewSource == [lastSeen |-> 0, lastAlert |-> 0, ports |-> NoPorts]

FindOrCreateSource(tracked, s) ==
  IF s \in DOMAIN tracked THEN tracked[s] ELSE NewSource

(* The bucket of s after its last_seen_at update and its own pruning.      *)
Seen(tracked, s, t, cast) ==
  [FindOrCreateSource(tracked, s) EXCEPT
     !.lastSeen = t, !.ports = PrunePorts(@, t, cast)]

(* A port touched again is refreshed and does not grow the set.            *)
UpsertPort(ports, p, t) == Put(ports, p, t)

RaisesLate(count, lastAlert, t, cast) ==
  count > Threshold /\ OutsideWindow(t, lastAlert, cast)
RaisesAlways(count, lastAlert, t, cast) == count >= Threshold

(* Threshold reached, and the cooldown after the last alert is over.       *)
Raises(count, lastAlert, t, cast) ==
  count >= Threshold /\ OutsideWindow(t, lastAlert, cast)

-----------------------------------------------------------------------------
Init ==
  /\ now = StartTime
  /\ sources = [s \in {} |-> NewSource]
  /\ revision = 0
  /\ alert = {}

(* The wall clock moves.  A negative step is an NTP or operator correction.*)
Tick ==
  /\ \E d \in ClockSteps :
       /\ now + d \in Time
       /\ now' = now + d
  /\ UNCHANGED <<sources, revision, alert>>

(* A packet that is not an initial SYN, or a failed time(): early return.  *)
ObserveNothing ==
  /\ alert' = {}
  /\ UNCHANGED <<now, sources, revision>>

(* What every observed SYN does before it looks up its bucket.             *)
StartObserve ==
  /\ revision < MaxSyns
  /\ revision' = revision + 1
  /\ UNCHANGED now

(* The bucket of a new source cannot be allocated.                         *)
ObserveSourceLost(s) ==
  \E cast \in Casts :
    LET pruned == PruneSources(now, cast)
    IN  /\ StartObserve
        /\ s \notin DOMAIN pruned
        /\ sources' = pruned
        /\ alert' = {}

(* The entry of a new port cannot be allocated.                            *)
ObservePortLost(s, p) ==
  \E cast \in Casts :
    LET pruned == PruneSources(now, cast)
        entry == Seen(pruned, s, now, cast)
    IN  /\ StartObserve
        /\ p \notin DOMAIN entry.ports
        /\ sources' = Put(pruned, s, entry)
        /\ alert' = {}

(* The port is recorded; the alert needs the threshold and the cooldown.   *)
ObserveRecorded(s, p) ==
  \E cast \in Casts :
    LET pruned == PruneSources(now, cast)
        entry == Seen(pruned, s, now, cast)
        ports == UpsertPort(entry.ports, p, now)
        count == Cardinality(DOMAIN ports)
        raise == Raises(count, entry.lastAlert, now, cast)
    IN  /\ StartObserve
        /\ sources' = Put(pruned, s,
                        [entry EXCEPT !.ports = ports,
                                      !.lastAlert = IF raise THEN now ELSE @])
        /\ alert' = IF raise THEN {[src |-> s, uniquePorts |-> count]} ELSE {}

Observe ==
  \/ ObserveNothing
  \/ \E s \in Sources : ObserveSourceLost(s)
  \/ \E s \in Sources, p \in Ports : ObservePortLost(s, p)
  \/ \E s \in Sources, p \in Ports : ObserveRecorded(s, p)

Next == Tick \/ Observe

Spec == Init /\ [][Next]_vars

(* A clock that was set before the program started and is never set back. *)
WallClockSane ==
  /\ ClockSteps \subseteq Nat
  /\ StartTime > Window
=============================================================================
