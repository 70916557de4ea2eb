---------------------------- MODULE ScanSnapshot ----------------------------
(***************************************************************************)
(* What the display gets of the scan detector: scan_detector_snapshot      *)
(* copies the port times of all buckets into one array, which              *)
(* scan_snapshot_max_ports later counts at the reader's own time.          *)
(***************************************************************************)
EXTENDS ScanHistory, Sequences

(* The port nodes of all buckets.                                          *)
Nodes == {n \in Sources \X Ports : Tracked(n[1], n[2])}

(* The nodes of a bucket come one after the other.                         *)
BucketByBucket(order) ==
  \A i, k \in DOMAIN order :
    order[i][1] = order[k][1] => \A j \in i..k : order[j][1] = order[i][1]

SnapshotOf(order) ==
  [i \in DOMAIN order |->
     [src |-> order[i][1], seen |-> sources[order[i][1]].ports[order[i][2]]]]

(* The snapshots scan_detector_snapshot may return: the model leaves the   *)
(* order of the lists open.                                                *)
Snapshots ==
  LET orders == Bijection(1..Cardinality(Nodes), Nodes)
  IN  {SnapshotOf(order) : order \in {o \in orders : BucketByBucket(o)}}

CountedTogether(run, snapshot, i) == run.count

(* A new source starts a new count.                                        *)
CountedBefore(run, snapshot, i) ==
  IF i > 1 /\ snapshot[i].src = snapshot[i - 1].src THEN run.count ELSE 0

CountPort(run, snapshot, i, t, cast) ==
  LET before == CountedBefore(run, snapshot, i)
      count == IF OutsideWindow(t, snapshot[i].seen, cast) THEN before ELSE before + 1
  IN  [count |-> count,
       maximum |-> IF count > run.maximum THEN count ELSE run.maximum]

(* The counters of the loop after its first i entries.                     *)
Counted(snapshot, t, cast) ==
  LET run[i \in 0..Len(snapshot)] ==
        IF i = 0 THEN [count |-> 0, maximum |-> 0]
        ELSE CountPort(run[i - 1], snapshot, i, t, cast)
  IN  run

MaxPorts(snapshot, t, cast) == Counted(snapshot, t, cast)[Len(snapshot)].maximum
=============================================================================
