----------------------------- MODULE RulesEngine -----------------------------
(***************************************************************************)
(* The packet rules of src/src/rules.c: every packet becomes at most one   *)
(* event, and an initial SSH SYN becomes an ALERT unless the same attempt  *)
(* (addresses, ports and TCP sequence number) was seen DedupSeconds ago or *)
(* less, in which case it is a capture duplicate and only an INFO.         *)
(*                                                                         *)
(* A packet is its class: the flags of PacketInfo that the rules read, in  *)
(* the order they read them.  The list of attempts is a function, as in    *)
(* ScanDetector: a lookup walks the whole list and a key occurs once.      *)
(***************************************************************************)
EXTENDS Integers, Functions

CONSTANTS
  Attempts,      \* SSH attempts: (src, dst, src port, dst port, sequence)
  DedupSeconds,  \* SSH_ALERT_DEDUP_SECONDS
  StartTime,     \* wall clock when the program starts
  ClockSteps,    \* by how much the wall clock may move at once
  MaxTime,       \* bound: the last second explored
  MaxPackets     \* bound: packets evaluated in one behaviour

ASSUME RulesAssumption ==
  /\ DedupSeconds \in Nat
  /\ MaxTime \in Nat
  /\ StartTime \in 0..MaxTime
  /\ ClockSteps \subseteq Int
  /\ MaxPackets \in Nat

VARIABLES
  now,       \* time(NULL)
  attempts,  \* engine->ssh_attempts: attempt |-> seen_at
  evaluated, \* packets evaluated so far
  event      \* what the last evaluation returned: {} or one event

rulesVars == <<now, attempts, evaluated, event>>

Time == 0..MaxTime
Casts == {"saturates", "wraps"}

(* The classes that need no engine state.  "broken" is malformed or        *)
(* truncated; "other" has none of the flags set.                           *)
PlainClasses == {"broken", "arp", "ipv6", "icmp_echo", "icmp", "tcp", "udp",
                 "ipv4", "other"}

Events == [kind : PlainClasses \ {"broken", "icmp_echo", "other"},
           severity : {"INFO", "ALERT"},
           led : {"NONE", "SHORT", "LONG"}]

TypeOK ==
  /\ now \in Time
  /\ DOMAIN attempts \subseteq Attempts
  /\ attempts \in [DOMAIN attempts -> Time]
  /\ evaluated \in 0..MaxPackets
  /\ \A a, b \in event : a \in Events /\ a = b

-----------------------------------------------------------------------------
(* (unsigned int)difftime(t, seen) > SSH_ALERT_DEDUP_SECONDS; see          *)
(* ScanDetector!OutsideWindow for the time that lies in the future.        *)
Expired(t, seen, cast) ==
  IF seen <= t THEN t - seen > DedupSeconds ELSE cast = "wraps"

PruneEager(t, cast) ==
  Restrict(attempts, {k \in DOMAIN attempts : t - attempts[k] < DedupSeconds})

PruneSshAttempts(t, cast) ==
  Restrict(attempts, {k \in DOMAIN attempts : ~Expired(t, attempts[k], cast)})

TrackFirstOnly(kept, k, t) ==
  [x \in DOMAIN kept \cup {k} |-> IF x \in DOMAIN kept THEN kept[x] ELSE t]

(* Both a new entry and a duplicate end with seen_at = now.                *)
Track(kept, k, t) ==
  [x \in DOMAIN kept \cup {k} |-> IF x = k THEN t ELSE kept[x]]

(* rules_evaluate_packet, for the packets that are no initial SSH SYN.     *)
PlainEvent(class) ==
  IF class \in {"broken", "other"} THEN {}
  ELSE IF class = "icmp_echo" THEN {[kind |-> "icmp", severity |-> "INFO", led |-> "SHORT"]}
  ELSE {[kind |-> class, severity |-> "INFO", led |-> "NONE"]}

SshAlert == [kind |-> "tcp", severity |-> "ALERT", led |-> "LONG"]

(* The ALERT is rebuilt as a plain INFO event without an LED pattern.      *)
SshRepeat == [kind |-> "tcp", severity |-> "INFO", led |-> "NONE"]

-----------------------------------------------------------------------------
Init ==
  /\ now = StartTime
  /\ attempts = [k \in {} |-> 0]
  /\ evaluated = 0
  /\ event = {}

Tick ==
  /\ \E d \in ClockSteps :
       /\ now + d \in Time
       /\ now' = now + d
  /\ UNCHANGED <<attempts, evaluated, event>>

Evaluate ==
  /\ evaluated < MaxPackets
  /\ evaluated' = evaluated + 1
  /\ UNCHANGED now

EvaluatePlain ==
  /\ Evaluate
  /\ \E class \in PlainClasses : event' = PlainEvent(class)
  /\ UNCHANGED attempts

(* An initial SSH SYN while time() fails: escalate, nothing pruned.        *)
EvaluateNoClock ==
  /\ Evaluate
  /\ event' = {SshAlert}
  /\ UNCHANGED attempts

EvaluateRepeatAny(k) ==
  /\ Evaluate
  /\ attempts' = Track(PruneSshAttempts(now, "saturates"), k, now)
  /\ event' = {SshRepeat}

(* An attempt already in the list: refreshed and downgraded.               *)
EvaluateRepeat(k) ==
  \E cast \in Casts :
    LET kept == PruneSshAttempts(now, cast)
    IN  /\ Evaluate
        /\ k \in DOMAIN kept
        /\ attempts' = Track(kept, k, now)
        /\ event' = {SshRepeat}

(* An attempt not in the list: escalated and tracked.                      *)
EvaluateFirst(k) ==
  \E cast \in Casts :
    LET kept == PruneSshAttempts(now, cast)
    IN  /\ Evaluate
        /\ k \notin DOMAIN kept
        /\ attempts' = Track(kept, k, now)
        /\ event' = {SshAlert}

(* rules.c:110 "keep the alert rather than missing it": the entry of a new *)
(* attempt cannot be allocated.                                            *)
EvaluateUntracked(k) ==
  \E cast \in Casts :
    LET kept == PruneSshAttempts(now, cast)
    IN  /\ Evaluate
        /\ k \notin DOMAIN kept
        /\ attempts' = kept
        /\ event' = {SshAlert}

Next ==
  \/ Tick
  \/ EvaluatePlain
  \/ EvaluateNoClock
  \/ \E k \in Attempts :
       EvaluateRepeat(k) \/ EvaluateFirst(k) \/ EvaluateUntracked(k)

Spec == Init /\ [][Next]_rulesVars

(* A clock that is never set back.                                         *)
ClockNeverBack == ClockSteps \subseteq Nat
=============================================================================
