-------------------------- MODULE DisplayController --------------------------
(***************************************************************************)
(* The display controller of src/src/display.c: the capture thread         *)
(* ("main") counts events and publishes snapshots of the scan detector     *)
(* through atomics only, and a worker thread that owns the output shows    *)
(* them.  A mutex and a condition variable serve the start-up alone.  A    *)
(* step is one atomic operation with the thread-local work around it.      *)
(***************************************************************************)
EXTENDS Integers

CONSTANTS
  Failures,      \* the worker's and the producer's operations that may fail
  MaxRevisions,  \* bound: revisions of the scan detector
  MaxEvents,     \* bound: calls of display_controller_record_event
  MaxSpurious,   \* bound: spurious wake-ups of pthread_cond_wait
  CounterMax,    \* UINT64_MAX
  DigitsMax      \* the largest number three digits show

ASSUME DisplayAssumption ==
  /\ Failures \subseteq {"open", "write", "clock", "timer", "snapshot"}
  /\ MaxRevisions \in Nat /\ MaxEvents \in Nat /\ MaxSpurious \in Nat
  /\ CounterMax \in Nat \ {0} /\ DigitsMax \in Nat

VARIABLES
  main,        \* where the capture thread is
  counting,    \* main: the kind of event being counted
  loaded,      \* main: the counter it has loaded
  replaced,    \* main: the snapshot it took back from pending
  published,   \* published_revision
  revision,    \* scan_detector_revision, external
  worker,      \* where the worker thread is
  ready,       \* worker: the output works
  active,      \* worker: its own snapshot
  render,      \* worker: the counts it has loaded
  previous,    \* worker: what the output shows
  output,      \* whether the output was opened and closed
  available, running, snapshotFailed,   \* the atomic flags
  counts,      \* icmp_count and ssh_count
  pending,     \* the snapshot waiting for the worker
  initialized, warned,                  \* the start-up handshake
  heap,        \* the life of every snapshot
  events, spurious   \* counters behind the bounds

callVars == <<counting, loaded, replaced, published, revision, events>>
mainVars == <<main, callVars>>
workerVars == <<worker, ready, active, render, previous, output>>
flagVars == <<available, running, snapshotFailed>>
startVars == <<initialized, warned, spurious>>
sharedVars == <<flagVars, counts, pending, heap>>
vars == <<mainVars, workerVars, sharedVars, startVars>>

Kinds == {"icmp", "ssh"}
NoSnapshot == 0
Revisions == 1..MaxRevisions
Snapshots == {NoSnapshot} \cup Revisions   \* a snapshot is named by its revision
MainStates == {"create", "start", "startWait", "idle", "count", "take", "discard",
               "join", "release", "freed"}
WorkerStates == {"unborn", "open", "first", "report", "head", "check", "take",
                 "icmp", "ssh", "write", "sleep", "stop", "close", "done"}

TypeOK ==
  /\ main \in MainStates /\ counting \in Kinds /\ loaded \in 0..CounterMax
  /\ replaced \in Snapshots
  /\ published \in Snapshots /\ revision \in Snapshots /\ events \in 0..MaxEvents
  /\ worker \in WorkerStates /\ ready \in BOOLEAN /\ active \in Snapshots
  /\ render \in [Kinds -> 0..CounterMax] /\ previous \in [page : 1..3, value : 0..DigitsMax]
  /\ output \in {"unused", "used", "closed"}
  /\ available \in BOOLEAN /\ running \in BOOLEAN /\ snapshotFailed \in BOOLEAN
  /\ counts \in [Kinds -> 0..CounterMax] /\ pending \in Snapshots
  /\ heap \in [Revisions -> {"none", "live", "freed", "corrupt"}]
  /\ initialized \in BOOLEAN /\ warned \in BOOLEAN /\ spurious \in 0..MaxSpurious

Init ==
  /\ main = "create" /\ counting = "icmp" /\ loaded = 0 /\ replaced = NoSnapshot
  /\ published = 0 /\ revision = 0 /\ events = 0
  /\ worker = "unborn" /\ ready = FALSE /\ active = NoSnapshot
  /\ render = [k \in Kinds |-> 0] /\ previous = [page |-> 1, value |-> 0]
  /\ output = "unused"
  /\ available = FALSE /\ running = FALSE /\ snapshotFailed = FALSE
  /\ counts = [k \in Kinds |-> 0] /\ pending = NoSnapshot
  /\ heap = [r \in Revisions |-> "none"]
  /\ initialized = FALSE /\ warned = FALSE /\ spurious = 0

(* scan_snapshot_destroy: freeing NULL is nothing, freeing twice ruins the *)
(* heap.                                                                   *)
Destroyed(snapshot) ==
  [r \in Revisions |->
     IF r # snapshot THEN heap[r] ELSE IF heap[r] = "live" THEN "freed" ELSE "corrupt"]

-----------------------------------------------------------------------------
(* Not enabled; an output that is not valid or an operation of             *)
(* start_controller that fails, with a warning; no memory for a            *)
(* controller, after which every call returns at once.                     *)
CreateDisabled ==
  /\ main = "create"
  /\ \/ main' = "idle" /\ warned' = FALSE
     \/ main' = "idle" /\ warned' = TRUE
     \/ main' = "freed" /\ warned' = TRUE
  /\ UNCHANGED <<callVars, workerVars, sharedVars, initialized, spurious>>

CreateWorker ==
  /\ main = "create"
  /\ running' = TRUE
  /\ worker' = "open"
  /\ main' = "start"
  /\ UNCHANGED <<callVars, ready, active, render, previous, output, available,
                 snapshotFailed, counts, pending, heap, startVars>>

StartAssumed == TRUE
StartKnown == initialized

(* while (!initialized) pthread_cond_wait, from lock to wait or unlock.    *)
StartChecks ==
  /\ main = "start"
  /\ main' = IF StartKnown THEN "idle" ELSE "startWait"
  /\ UNCHANGED <<callVars, workerVars, sharedVars, startVars>>

StartSpurious ==
  /\ main = "startWait"
  /\ spurious < MaxSpurious
  /\ spurious' = spurious + 1
  /\ main' = "start"
  /\ UNCHANGED <<callVars, workerVars, sharedVars, initialized, warned>>

-----------------------------------------------------------------------------
(* display_controller_is_available, which every call of the producer asks. *)
IsAvailable == available /\ ~snapshotFailed

(* scan_detector_observe counts a probe: ++detector->revision.             *)
DetectorObserves ==
  /\ main = "idle"
  /\ revision < MaxRevisions
  /\ revision' = revision + 1
  /\ UNCHANGED <<main, counting, loaded, replaced, published, events, workerVars,
                 sharedVars, startVars>>

(* display_controller_record_event: load the counter of the event, then    *)
(* store the sum, after which the loaded value is dead.                    *)
RecordEvent ==
  /\ main = "idle" /\ IsAvailable
  /\ events < MaxEvents
  /\ events' = events + 1
  /\ counting' \in Kinds
  /\ loaded' = counts[counting']
  /\ main' = "count"
  /\ UNCHANGED <<replaced, published, revision, workerVars, sharedVars, startVars>>

IncrementWraps(value) == (value + 1) % (CounterMax + 1)
Increment(value) == IF value = CounterMax THEN value ELSE value + 1

CountEvent ==
  /\ main = "count"
  /\ counts' = [counts EXCEPT ![counting] = Increment(loaded)]
  /\ loaded' = 0
  /\ main' = "idle"
  /\ UNCHANGED <<counting, replaced, published, revision, events, workerVars, flagVars,
                 pending, heap, startVars>>

(* display_controller_publish_scan                                         *)
PublishScan ==
  /\ main = "idle" /\ IsAvailable
  /\ revision # published
  /\ main' = "take"
  /\ UNCHANGED <<callVars, workerVars, sharedVars, startVars>>

SnapshotFails ==
  /\ main = "take" /\ "snapshot" \in Failures
  /\ snapshotFailed' = TRUE
  /\ main' = "idle"
  /\ UNCHANGED <<callVars, workerVars, available, running, counts, pending, heap,
                 startVars>>

PostedIfEmpty(old, new) == IF old = NoSnapshot THEN new ELSE old
Posted(old, new) == new

(* The new snapshot goes out and the one it replaces comes back.           *)
SnapshotTaken ==
  /\ main = "take"
  /\ heap' = [heap EXCEPT ![revision] = "live"]
  /\ published' = revision
  /\ pending' = Posted(pending, revision)
  /\ replaced' = pending
  /\ main' = "discard"
  /\ UNCHANGED <<counting, loaded, revision, events, workerVars, flagVars, counts,
                 startVars>>

DiscardReplacedWaits ==
  /\ main = "discard"
  /\ pending = NoSnapshot
  /\ heap' = Destroyed(replaced)
  /\ replaced' = NoSnapshot
  /\ main' = "idle"
  /\ UNCHANGED <<counting, loaded, published, revision, events, workerVars, flagVars,
                 counts, pending, startVars>>

DiscardReplaced ==
  /\ main = "discard"
  /\ heap' = Destroyed(replaced)
  /\ replaced' = NoSnapshot
  /\ main' = "idle"
  /\ UNCHANGED <<counting, loaded, published, revision, events, workerVars, flagVars,
                 counts, pending, startVars>>

-----------------------------------------------------------------------------
(* display_worker.  output.open, the first write and the first clock.      *)
WorkerOpens ==
  /\ worker = "open"
  /\ output' = "used"
  /\ \/ worker' = "first" /\ UNCHANGED ready
     \/ "open" \in Failures /\ worker' = "report" /\ ready' = FALSE
  /\ UNCHANGED <<mainVars, active, render, previous, sharedVars, startVars>>

WorkerFirstWrite ==
  /\ worker = "first"
  /\ \/ ready' = TRUE
     \/ Failures \cap {"write", "clock"} # {} /\ ready' = FALSE
  /\ worker' = "report"
  /\ UNCHANGED <<mainVars, active, render, previous, output, sharedVars, startVars>>

StartSignalsNobody == UNCHANGED main
StartSignals == main' = IF main = "startWait" THEN "start" ELSE main

(* The outcome, under init_mutex: nobody else looks before the unlock.     *)
WorkerReports ==
  /\ worker = "report"
  /\ warned' = ~ready
  /\ available' = ready
  /\ initialized' = TRUE
  /\ StartSignals
  /\ worker' = IF ready THEN "head" ELSE "stop"
  /\ UNCHANGED <<callVars, ready, active, render, previous, output, running, snapshotFailed,
                 counts, pending, heap, spurious>>

WorkerHeadForever == worker = "head" /\ worker' = "check"
                     /\ UNCHANGED <<mainVars, ready, active, render, previous, output,
                                    sharedVars, startVars>>

(* while (ready && running)                                                *)
WorkerHead ==
  /\ worker = "head"
  /\ worker' = IF running THEN "check" ELSE "stop"
  /\ UNCHANGED <<mainVars, ready, active, render, previous, output, sharedVars, startVars>>

SnapshotsWorkAlways == TRUE
SnapshotsWork == ~snapshotFailed

WorkerChecksSnapshots ==
  /\ worker = "check"
  /\ worker' = IF SnapshotsWork THEN "take" ELSE "stop"
  /\ UNCHANGED <<mainVars, ready, active, render, previous, output, sharedVars, startVars>>

LeftPending == pending
TakenAway == NoSnapshot

(* Exchange the pending snapshot for the active one; then the clocks.      *)
WorkerTakes ==
  /\ worker = "take"
  /\ pending' = TakenAway
  /\ IF pending = NoSnapshot
     THEN UNCHANGED <<active, heap>>
     ELSE active' = pending /\ heap' = Destroyed(active)
  /\ \/ worker' = "icmp"
     \/ "clock" \in Failures /\ worker' = "stop"
  /\ UNCHANGED <<mainVars, ready, render, previous, output, flagVars, counts, startVars>>

(* display_controller_counts: two loads, one after the other.              *)
WorkerLoads(kind, next) ==
  /\ worker = kind
  /\ render' = [render EXCEPT ![kind] = counts[kind]]
  /\ worker' = next
  /\ UNCHANGED <<mainVars, ready, active, previous, output, sharedVars, startVars>>

Shown(value) == IF value > DigitsMax THEN DigitsMax ELSE value

(* display_render.  A page lasts a second and a thread may be held up for  *)
(* longer, so any page may follow any; the ports of the active snapshot    *)
(* leave the window as the wall clock goes on.                             *)
Segments(page, ports) ==
  [page |-> page,
   value |-> Shown(CASE page = 1 -> render["icmp"]
                     [] page = 2 -> render["ssh"]
                     [] page = 3 -> ports)]

(* What differs from what is shown is written.                             *)
WorkerWrites ==
  /\ worker = "write"
  /\ \E page \in 1..3, ports \in {0, active} :
       \/ previous' = Segments(page, ports) /\ worker' = "sleep"
       \/ /\ "write" \in Failures /\ Segments(page, ports) # previous
          /\ worker' = "stop" /\ UNCHANGED previous
  /\ UNCHANGED <<mainVars, ready, active, render, output, sharedVars, startVars>>

(* A tenth of a second, which a signal cuts short only after the stop.     *)
WorkerSleeps ==
  /\ worker = "sleep"
  /\ \/ worker' = "head"
     \/ "timer" \in Failures /\ worker' = "stop"
  /\ UNCHANGED <<mainVars, ready, active, render, previous, output, sharedVars, startVars>>

WorkerStops ==
  /\ worker = "stop"
  /\ available' = FALSE
  /\ worker' = "close"
  /\ UNCHANGED <<mainVars, ready, active, render, previous, output, running, snapshotFailed,
                 counts, pending, heap, startVars>>

WorkerCloses ==
  /\ worker = "close"
  /\ heap' = Destroyed(active)
  /\ output' = "closed"
  /\ worker' = "done"
  /\ UNCHANGED <<mainVars, ready, active, render, previous, flagVars, counts, pending,
                 startVars>>

-----------------------------------------------------------------------------
(* display_controller_destroy                                              *)
DestroyStops ==
  /\ main = "idle"
  /\ running' = FALSE
  /\ main' = IF worker = "unborn" THEN "release" ELSE "join"
  /\ UNCHANGED <<callVars, workerVars, available, snapshotFailed, counts, pending, heap,
                 startVars>>

JoinedEarly == worker \in {"close", "done"}
Joined == worker = "done"

DestroyJoins ==
  /\ main = "join"
  /\ Joined
  /\ main' = "release"
  /\ UNCHANGED <<callVars, workerVars, sharedVars, startVars>>

DestroyReleases ==
  /\ main = "release"
  /\ heap' = Destroyed(pending)
  /\ pending' = NoSnapshot
  /\ main' = "freed"
  /\ UNCHANGED <<callVars, workerVars, flagVars, counts, startVars>>

Finished == main = "freed" /\ UNCHANGED vars

-----------------------------------------------------------------------------
Calls == CreateDisabled \/ CreateWorker \/ DetectorObserves \/ RecordEvent
           \/ PublishScan \/ DestroyStops

MainSteps == StartChecks \/ CountEvent \/ SnapshotFails \/ SnapshotTaken \/ DiscardReplaced
               \/ DestroyJoins \/ DestroyReleases

WorkerSteps == WorkerOpens \/ WorkerFirstWrite \/ WorkerReports \/ WorkerHead
                 \/ WorkerChecksSnapshots \/ WorkerTakes \/ WorkerLoads("icmp", "ssh")
                 \/ WorkerLoads("ssh", "write") \/ WorkerWrites \/ WorkerSleeps
                 \/ WorkerStops \/ WorkerCloses

Next == Calls \/ MainSteps \/ WorkerSteps \/ StartSpurious \/ Finished

Spec == Init /\ [][Next]_vars

(* The capture thread is scheduled.  The worker may stop for ever in a     *)
(* transfer or a sleep.                                                    *)
FairSpec == Spec /\ WF_vars(MainSteps)

(* The worker is scheduled too, and the output's callbacks return.         *)
WorkerRuns == WF_vars(WorkerSteps)
=============================================================================
