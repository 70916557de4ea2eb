----------------------------- MODULE ScanPromise -----------------------------
(***************************************************************************)
(* What the port-scan detector promises (src/README.md:13, the header of   *)
(* src/include/scan_detector.h and the comments of scan_detector.c),       *)
(* with no buckets, no pruning and no memory to manage: the time each      *)
(* source last touched each port, and when the source was last reported.   *)
(***************************************************************************)
EXTENDS Integers, FiniteSets

CONSTANTS Sources, Ports, Window, Threshold

VARIABLES
  now,        \* the wall clock
  touched,    \* touched[s][p]: when source s last touched port p
  alertedAt,  \* alertedAt[s]: when source s was last reported
  alert       \* what the last observation reported: {} or one alert

promiseVars == <<now, touched, alertedAt, alert>>

Never == -1

(* The ports of source s inside the window that ends at time t.            *)
LivePorts(row, t) == {p \in Ports : row[p] # Never /\ t - row[p] <= Window}

(* Source s was not reported inside the window that ends at time t.        *)
Quiet(s, t) == alertedAt[s] = Never \/ t - alertedAt[s] > Window

PromiseInit ==
  /\ now \in Nat
  /\ touched = [s \in Sources |-> [p \in Ports |-> Never]]
  /\ alertedAt = [s \in Sources |-> Never]
  /\ alert = {}

Touch(s, p) ==
  LET row == [touched[s] EXCEPT ![p] = now]
      count == Cardinality(LivePorts(row, now))
      report == count >= Threshold /\ Quiet(s, now)
  IN  /\ touched' = [touched EXCEPT ![s] = row]
      /\ alert' = IF report THEN {[src |-> s, uniquePorts |-> count]} ELSE {}
      /\ alertedAt' = [alertedAt EXCEPT ![s] = IF report THEN now ELSE @]
      /\ UNCHANGED now

(* Nothing to report: an unrelated packet, or a SYN lost for want of memory.*)
Overlook ==
  /\ alert' = {}
  /\ UNCHANGED <<now, touched, alertedAt>>

PassTime ==
  /\ now' \in Nat
  /\ now' >= now
  /\ UNCHANGED <<touched, alertedAt, alert>>

PromiseNext ==
  \/ \E s \in Sources, p \in Ports : Touch(s, p)
  \/ Overlook
  \/ PassTime

PromiseSpec == PromiseInit /\ [][PromiseNext]_promiseVars
=============================================================================
