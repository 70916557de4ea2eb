----------------------------- MODULE ScanHistory -----------------------------
(***************************************************************************)
(* The scan detector with two history variables that never forget, used    *)
(* only to state what the bucket lists must agree with:                    *)
(*   touched[s][p]  when a SYN of source s to port p was last recorded     *)
(*   alertedAt[s]   when an alert for source s was last returned           *)
(***************************************************************************)
EXTENDS ScanDetector

VARIABLES touched, alertedAt

hvars == <<now, sources, revision, alert, touched, alertedAt>>

Promise == INSTANCE ScanPromise

Never == Promise!Never

HInit ==
  /\ Init
  /\ touched = [s \in Sources |-> [p \in Ports |-> Never]]
  /\ alertedAt = [s \in Sources |-> Never]

HRecorded(s, p) ==
  /\ ObserveRecorded(s, p)
  /\ touched' = [touched EXCEPT ![s][p] = now]
  /\ alertedAt' = IF alert' = {} THEN alertedAt
                  ELSE [alertedAt EXCEPT ![s] = now]

HSame == UNCHANGED <<touched, alertedAt>>

HNext ==
  \/ Tick /\ HSame
  \/ ObserveNothing /\ HSame
  \/ \E s \in Sources : ObserveSourceLost(s) /\ HSame
  \/ \E s \in Sources, p \in Ports : ObservePortLost(s, p) /\ HSame
  \/ \E s \in Sources, p \in Ports : HRecorded(s, p)

HSpec == HInit /\ [][HNext]_hvars

-----------------------------------------------------------------------------
HTypeOK ==
  /\ TypeOK
  /\ touched \in [Sources -> [Ports -> Time \cup {Never}]]
  /\ alertedAt \in [Sources -> Time \cup {Never}]

Tracked(s, p) == s \in DOMAIN sources /\ p \in DOMAIN sources[s].ports

(* Every port entry of a bucket carries the time of the last recorded SYN  *)
(* of that source to that port: upsert_port refreshes, pruning and bucket  *)
(* reuse never leave an old or foreign time behind.  Holds whatever the    *)
(* clock does.                                                             *)
BucketsTruthful ==
  \A s \in Sources, p \in Ports :
    Tracked(s, p) => sources[s].ports[p] = touched[s][p]

(* Pruning is invisible: a port touched inside the window that ends now is *)
(* still in the bucket of its source, however many prune_sources calls,    *)
(* dropped buckets and failed allocations came in between.                 *)
NoLivePortForgotten ==
  \A s \in Sources, p \in Ports :
    /\ touched[s][p] # Never
    /\ now - touched[s][p] <= Window
    => Tracked(s, p)

(* No cooldown is lost with its bucket: the last_alert_at of a bucket is   *)
(* the time of the last alert of its source, or is still the zero of a new *)
(* bucket and then no alert of that source lies inside the window; nor     *)
(* does one when the source has no bucket.                                 *)
CooldownKept ==
  \A s \in Sources :
    \/ s \in DOMAIN sources /\ sources[s].lastAlert = alertedAt[s]
    \/ /\ s \in DOMAIN sources => sources[s].lastAlert = 0
       /\ Promise!Quiet(s, now)

(* src/README.md:13 "10 seconds, 20 ports: a Port Scan ALERT": when the    *)
(* window that ends at a source's last SYN holds Threshold of its ports,   *)
(* an alert for that source was raised inside that same window.            *)
ScanReported ==
  \A s \in Sources, p \in Ports :
    LET last == touched[s][p]
    IN  /\ last # Never
        /\ \A q \in Ports : touched[s][q] <= last
        /\ Cardinality(Promise!LivePorts(touched[s], last)) >= Threshold
        => /\ alertedAt[s] # Never
           /\ last - alertedAt[s] <= Window

(* scan_detector.c:244 "Cooldown prevents one ongoing scan from raising an *)
(* alert on every packet": a SYN raises an alert only when no alert of its *)
(* source was raised inside the window that ends now, not in this very     *)
(* second either, even when the bucket was dropped and created again.      *)
AlertSpacing ==
  [][revision' # revision =>
       \A a \in alert' : Promise!Quiet(a.src, now)]_hvars

(* scan_detector.c:161 "keep memory bounded over long runs": after an      *)
(* observed SYN only sources and ports seen inside the window are stored.  *)
MemoryBounded ==
  [][revision' # revision =>
       \A s \in DOMAIN sources' :
         /\ now - sources'[s].lastSeen <= Window
         /\ \A p \in DOMAIN sources'[s].ports :
              now - sources'[s].ports[p] <= Window]_hvars

(* The detector, seen through its history, is the sliding-window promise.  *)
ImplementsPromise == Promise!PromiseSpec
=============================================================================
