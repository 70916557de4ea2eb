---------------------------- MODULE DisplayProofs ----------------------------
(***************************************************************************)
(* Proofs about the display controller, for any number of revisions,       *)
(* events and spurious wake-ups, any counter width and whatever fails.     *)
(***************************************************************************)
EXTENDS DisplayProperties, TLAPS

(* How far the two threads are apart.                                      *)
StageInv ==
  /\ available => worker \notin {"unborn", "close", "done"}
  /\ worker = "unborn" => main \in {"create", "idle", "release", "freed"} /\ published = 0
  /\ worker = "unborn" => active = NoSnapshot
  /\ main = "create" => worker = "unborn"
  /\ main \in {"release", "freed"} => worker \in {"unborn", "done"}
  /\ output = "used" => worker \notin {"unborn", "done"}

(* A snapshot is new when it is taken, and the one it replaces is held for *)
(* one step.                                                               *)
RevisionInv ==
  /\ published <= revision
  /\ main = "take" => published < revision
  /\ \A r \in Revisions : r > published => heap[r] = "none"
  /\ replaced # NoSnapshot => main = "discard"
  /\ main = "freed" => pending = NoSnapshot

(* OwnedOnce, holder by holder.                                            *)
Held == IF worker = "done" THEN NoSnapshot ELSE active

OwnerInv ==
  /\ \A r \in Revisions :
       /\ heap[r] = "live" <=> r = pending \/ r = Held \/ r = replaced
       /\ heap[r] # "corrupt"
  /\ pending # NoSnapshot => pending # Held /\ pending # replaced
  /\ Held # NoSnapshot => Held # replaced

DisplayInv ==
  /\ TypeOK
  /\ StageInv
  /\ RevisionInv
  /\ OwnerInv
  /\ NewestKept

LEMMA DisplayInit == Init => DisplayInv
  <1> SUFFICES ASSUME Init PROVE DisplayInv
    OBVIOUS
  <1>1. TypeOK
    <2>1. /\ counts \in [Kinds -> 0..CounterMax] /\ render \in [Kinds -> 0..CounterMax]
          /\ previous \in [page : 1..3, value : 0..DigitsMax]
          /\ heap \in [Revisions -> {"none", "live", "freed", "corrupt"}]
      BY DisplayAssumption DEF Init
    <2>2. 0 \in Snapshots /\ 0 \in 0..MaxEvents /\ 0 \in 0..MaxSpurious
      BY DisplayAssumption DEF Snapshots, NoSnapshot
    <2> QED BY <2>1, <2>2 DEF Init, TypeOK, NoSnapshot, Kinds, MainStates, WorkerStates
  <1>2. StageInv /\ RevisionInv /\ OwnerInv /\ NewestKept
    BY DisplayAssumption
       DEF Init, StageInv, RevisionInv, OwnerInv, NewestKept, Held, NoSnapshot, Revisions
  <1> QED BY <1>1, <1>2 DEF DisplayInv

(* Types first.  A counter stays within its width, what is shown within    *)
(* three digits.                                                           *)
LEMMA CountInRange == ASSUME NEW v \in 0..CounterMax PROVE Increment(v) \in 0..CounterMax
  BY DisplayAssumption DEF Increment

LEMMA ShownInRange == ASSUME NEW v \in Nat PROVE Shown(v) \in 0..DigitsMax
  BY DisplayAssumption DEF Shown

LEMMA SegmentsType ==
  ASSUME TypeOK, NEW page \in 1..3, NEW ports \in {0, active}
  PROVE  Segments(page, ports) \in [page : 1..3, value : 0..DigitsMax]
  <1>1. render["icmp"] \in Nat /\ render["ssh"] \in Nat /\ ports \in Nat
    BY DisplayAssumption DEF TypeOK, Kinds, Snapshots, Revisions, NoSnapshot
  <1>2. CASE page = 1
    BY <1>1, <1>2, ShownInRange DEF Segments
  <1>3. CASE page = 2
    BY <1>1, <1>3, ShownInRange DEF Segments
  <1>4. CASE page = 3
    BY <1>1, <1>4, ShownInRange DEF Segments
  <1> QED BY <1>2, <1>3, <1>4

LEMMA DestroyedType ==
  ASSUME heap \in [Revisions -> {"none", "live", "freed", "corrupt"}], NEW s
  PROVE  Destroyed(s) \in [Revisions -> {"none", "live", "freed", "corrupt"}]
  BY DEF Destroyed

LEMMA TypeStep == TypeOK /\ StageInv /\ [Next]_vars => TypeOK'
  <1> SUFFICES ASSUME TypeOK, StageInv, [Next]_vars PROVE TypeOK'
    OBVIOUS
  <1> USE DisplayAssumption DEF TypeOK, MainStates, WorkerStates,
          callVars, mainVars, workerVars, flagVars, startVars, sharedVars
  <1>0. NoSnapshot \in Snapshots /\ Revisions \subseteq Snapshots
    BY DEF Snapshots
  <1>1. CASE Calls
    <2>1. CASE CreateDisabled
      <3>1. main' \in MainStates /\ warned' \in BOOLEAN
        BY <2>1 DEF CreateDisabled
      <3>2. UNCHANGED <<callVars, workerVars, sharedVars,
                        initialized, spurious>>
        BY <2>1 DEF CreateDisabled
      <3> QED BY <3>1, <3>2
    <2>2. CASE CreateWorker
      BY <2>2 DEF CreateWorker
    <2>3. CASE DetectorObserves
      <3>1. revision' \in Snapshots
        BY <2>3 DEF DetectorObserves, Snapshots, Revisions, NoSnapshot
      <3> QED BY <2>3, <3>1 DEF DetectorObserves
    <2>4. CASE RecordEvent
      <3>1. main' \in MainStates /\ counting' \in Kinds /\ loaded' \in 0..CounterMax
        BY <2>4 DEF RecordEvent
      <3>2. events' \in 0..MaxEvents
        <4>1. events \in 0..MaxEvents /\ events < MaxEvents /\ events' = events + 1
          BY <2>4 DEF RecordEvent
        <4> QED BY <4>1
      <3>3. UNCHANGED <<replaced, published, revision, workerVars, sharedVars, startVars>>
        BY <2>4 DEF RecordEvent
      <3> QED BY <3>1, <3>2, <3>3
    <2>5. CASE PublishScan
      BY <2>5 DEF PublishScan
    <2>6. CASE DestroyStops
      <3>1. main' \in MainStates /\ running' \in BOOLEAN
        BY <2>6 DEF DestroyStops
      <3> QED BY <2>6, <3>1 DEF DestroyStops
    <2> QED BY <1>1, <2>1, <2>2, <2>3, <2>4, <2>5, <2>6 DEF Calls
  <1>2. CASE MainSteps
    <2>1. CASE StartChecks
      <3>1. main' \in MainStates
        BY <2>1 DEF StartChecks
      <3>2. UNCHANGED <<callVars, workerVars, sharedVars,
                        startVars>>
        BY <2>1 DEF StartChecks
      <3> QED BY <3>1, <3>2
    <2>2. CASE CountEvent
      <3>1. counts' \in [Kinds -> 0..CounterMax]
        BY <2>2, CountInRange DEF CountEvent
      <3>2. loaded' = 0 /\ main' \in MainStates
        BY <2>2 DEF CountEvent
      <3> QED BY <2>2, <3>1, <3>2 DEF CountEvent
    <2>3. CASE SnapshotFails
      BY <2>3 DEF SnapshotFails
    <2>4. CASE SnapshotTaken
      <3>1. heap' \in [Revisions -> {"none", "live", "freed", "corrupt"}]
        BY <2>4 DEF SnapshotTaken
      <3> QED BY <2>4, <3>1 DEF SnapshotTaken, Posted
    <2>5. CASE DiscardReplaced
      BY <1>0, <2>5, DestroyedType DEF DiscardReplaced
    <2>6. CASE DestroyJoins
      BY <2>6 DEF DestroyJoins
    <2>7. CASE DestroyReleases
      BY <1>0, <2>7, DestroyedType DEF DestroyReleases
    <2> QED BY <1>2, <2>1, <2>2, <2>3, <2>4, <2>5, <2>6, <2>7 DEF MainSteps
  <1>3. CASE WorkerSteps
    <2>1. CASE WorkerOpens
      <3>1. worker' \in WorkerStates /\ ready' \in BOOLEAN /\ output' \in {"unused", "used", "closed"}
        BY <2>1 DEF WorkerOpens
      <3>2. UNCHANGED <<mainVars, active, render, previous, sharedVars, startVars>>
        BY <2>1 DEF WorkerOpens
      <3> QED BY <3>1, <3>2
    <2>2. CASE WorkerFirstWrite
      <3>1. worker' \in WorkerStates /\ ready' \in BOOLEAN
        BY <2>2 DEF WorkerFirstWrite
      <3>2. UNCHANGED <<mainVars, active, render, previous, output, sharedVars, startVars>>
        BY <2>2 DEF WorkerFirstWrite
      <3> QED BY <3>1, <3>2
    <2>3. CASE WorkerReports
      BY <2>3 DEF WorkerReports, StartSignals
    <2>4. CASE WorkerHead
      BY <2>4 DEF WorkerHead
    <2>5. CASE WorkerChecksSnapshots
      BY <2>5 DEF WorkerChecksSnapshots
    <2>6. CASE WorkerTakes
      BY <1>0, <2>6, DestroyedType DEF WorkerTakes, TakenAway
    <2>7. CASE WorkerLoads("icmp", "ssh") \/ WorkerLoads("ssh", "write")
      <3>1. render' \in [Kinds -> 0..CounterMax]
        BY <2>7 DEF WorkerLoads, Kinds
      <3> QED BY <2>7, <3>1 DEF WorkerLoads
    <2>8. CASE WorkerWrites
      <3>1. previous' \in [page : 1..3, value : 0..DigitsMax]
        BY <2>8, SegmentsType DEF WorkerWrites
      <3> QED BY <2>8, <3>1 DEF WorkerWrites
    <2>9. CASE WorkerSleeps
      BY <2>9 DEF WorkerSleeps
    <2>10. CASE WorkerStops
      BY <2>10 DEF WorkerStops
    <2>11. CASE WorkerCloses
      BY <2>11, DestroyedType DEF WorkerCloses
    <2> QED BY <1>3, <2>1, <2>2, <2>3, <2>4, <2>5, <2>6, <2>7, <2>8, <2>9, <2>10, <2>11
            DEF WorkerSteps
  <1>4. CASE StartSpurious
    BY <1>4 DEF StartSpurious
  <1>5. CASE Finished \/ UNCHANGED vars
    BY <1>5 DEF Finished, vars
  <1> QED BY <1>1, <1>2, <1>3, <1>4, <1>5 DEF Next

-----------------------------------------------------------------------------
LEMMA StageStep == TypeOK /\ StageInv /\ [Next]_vars => StageInv'
  <1> SUFFICES ASSUME TypeOK, StageInv, [Next]_vars PROVE StageInv'
    OBVIOUS
  <1> USE DEF StageInv, callVars, mainVars, workerVars, flagVars, startVars, sharedVars
  <1>1. CASE Calls
    BY <1>1 DEF Calls, CreateDisabled, CreateWorker, DetectorObserves, RecordEvent,
         PublishScan, DestroyStops, IsAvailable, TypeOK, WorkerStates
  <1>2. CASE MainSteps
    BY <1>2 DEF MainSteps, StartChecks, CountEvent, SnapshotFails, SnapshotTaken,
         DiscardReplaced, DestroyJoins, DestroyReleases, Joined
  <1>3. CASE WorkerSteps
    BY <1>3 DEF WorkerSteps, WorkerOpens, WorkerFirstWrite, WorkerReports, StartSignals,
         WorkerHead, WorkerChecksSnapshots, WorkerTakes, WorkerLoads, WorkerWrites,
         WorkerSleeps, WorkerStops, WorkerCloses
  <1>4. CASE StartSpurious \/ Finished \/ UNCHANGED vars
    BY <1>4 DEF StartSpurious, Finished, vars
  <1> QED BY <1>1, <1>2, <1>3, <1>4 DEF Next

(* The steps that move no snapshot.                                        *)
LEMMA NothingMoves ==
  ASSUME DisplayInv,
         main' = "take" /\ main # "take" => revision # published,
         main' = "freed" => pending = NoSnapshot,
         main = "freed" => main' = "freed",
         main = "discard" => main' = "discard",
         worker' = "done" <=> worker = "done",
         UNCHANGED <<heap, pending, active, replaced, published, revision>>
  PROVE  RevisionInv' /\ OwnerInv' /\ NewestKept'
  <1>1. published \in Int /\ revision \in Int
    BY DisplayAssumption DEF DisplayInv, TypeOK, Snapshots, Revisions, NoSnapshot
  <1>2. RevisionInv'
    BY <1>1 DEF DisplayInv, RevisionInv
  <1>3. OwnerInv'
    BY DEF DisplayInv, OwnerInv, Held
  <1>4. NewestKept'
    BY DEF DisplayInv, NewestKept, RevisionInv
  <1> QED BY <1>2, <1>3, <1>4

LEMMA SnapshotSteps ==
  ASSUME DisplayInv, TypeOK', StageInv', [Next]_vars
  PROVE  RevisionInv' /\ OwnerInv' /\ NewestKept'
  <1> USE DEF callVars, mainVars, workerVars, flagVars, startVars, sharedVars
  <1>0. /\ published \in Nat /\ revision \in Nat /\ pending \in Nat /\ active \in Nat
        /\ replaced \in Nat /\ Revisions = 1..MaxRevisions /\ NoSnapshot = 0
        /\ revision \in Snapshots /\ pending \in Snapshots
    BY DisplayAssumption DEF DisplayInv, TypeOK, Snapshots, Revisions, NoSnapshot
  <1>00. heap \in [Revisions -> {"none", "live", "freed", "corrupt"}]
    BY DEF DisplayInv, TypeOK
  <1>1. CASE CreateDisabled \/ CreateWorker
    <2>1. pending = NoSnapshot
      BY <1>0, <1>1 DEF CreateDisabled, CreateWorker, DisplayInv, StageInv, NewestKept
    <2> QED BY <1>1, <2>1, NothingMoves
            DEF CreateDisabled, CreateWorker, DisplayInv, StageInv
  <1>2. CASE DetectorObserves
    <2>1. RevisionInv'
      BY <1>0, <1>2 DEF DetectorObserves, DisplayInv, RevisionInv
    <2>2. OwnerInv' /\ NewestKept'
      BY <1>2 DEF DetectorObserves, DisplayInv, OwnerInv, NewestKept, Held
    <2> QED BY <2>1, <2>2
  <1>3. CASE RecordEvent \/ PublishScan \/ DestroyStops \/ StartChecks \/ CountEvent
              \/ SnapshotFails \/ DestroyJoins \/ StartSpurious
    BY <1>3, NothingMoves
       DEF RecordEvent, PublishScan, DestroyStops, StartChecks, CountEvent, SnapshotFails,
           DestroyJoins, StartSpurious
  <1>4. CASE SnapshotTaken
    <2>1. revision \in Revisions /\ published < revision /\ replaced = NoSnapshot
      BY <1>0, <1>4 DEF SnapshotTaken, DisplayInv, RevisionInv, Snapshots
    <2>2. RevisionInv'
      BY <1>0, <1>00, <1>4, <2>1 DEF SnapshotTaken, Posted, DisplayInv, RevisionInv
    <2>3. heap[revision] = "none"
      BY <2>1 DEF DisplayInv, RevisionInv
    <2>4. revision # pending /\ revision # Held
      BY <1>0, <2>1, <2>3 DEF DisplayInv, OwnerInv
    <2>5. OwnerInv'
      BY <1>0, <1>00, <1>4, <2>1, <2>3, <2>4
         DEF SnapshotTaken, Posted, DisplayInv, OwnerInv, Held
    <2>6. NewestKept'
      BY <1>0, <1>4, <2>1 DEF SnapshotTaken, Posted, NewestKept
    <2> QED BY <2>2, <2>5, <2>6
  <1>5. CASE DiscardReplaced
    <2>1. RevisionInv'
      BY <1>0, <1>00, <1>5 DEF DiscardReplaced, Destroyed, DisplayInv, RevisionInv, OwnerInv
    <2>2. OwnerInv'
      BY <1>0, <1>00, <1>5 DEF DiscardReplaced, Destroyed, DisplayInv, OwnerInv, Held
    <2>3. NewestKept'
      BY <1>5 DEF DiscardReplaced, DisplayInv, NewestKept
    <2> QED BY <2>1, <2>2, <2>3
  <1>6. CASE DestroyReleases
    <2>1. RevisionInv'
      BY <1>0, <1>00, <1>6 DEF DestroyReleases, Destroyed, DisplayInv, RevisionInv, OwnerInv
    <2>2. OwnerInv'
      BY <1>0, <1>00, <1>6 DEF DestroyReleases, Destroyed, DisplayInv, OwnerInv, Held
    <2>3. NewestKept'
      BY <1>6 DEF DestroyReleases, NewestKept
    <2> QED BY <2>1, <2>2, <2>3
  <1>7. CASE WorkerTakes
    <2>1. CASE pending = NoSnapshot
      BY <1>7, <2>1, NothingMoves DEF WorkerTakes, TakenAway, DisplayInv, RevisionInv
    <2>2. CASE pending # NoSnapshot
      <3>1. /\ active' = pending /\ pending' = NoSnapshot /\ heap' = Destroyed(active)
            /\ UNCHANGED <<main, published, revision, replaced>>
            /\ worker = "take" /\ worker' # "done"
        BY <1>7, <2>2 DEF WorkerTakes, TakenAway
      <3>2. RevisionInv'
        BY <1>0, <1>00, <3>1 DEF Destroyed, DisplayInv, RevisionInv, OwnerInv, Held
      <3>3. OwnerInv'
        BY <1>0, <1>00, <2>2, <3>1 DEF Destroyed, DisplayInv, OwnerInv, Held
      <3>4. NewestKept'
        BY <1>0, <2>2, <3>1 DEF DisplayInv, NewestKept
      <3> QED BY <3>2, <3>3, <3>4
    <2> QED BY <2>1, <2>2
  <1>8. CASE WorkerCloses
    <2>1. RevisionInv'
      BY <1>0, <1>00, <1>8 DEF WorkerCloses, Destroyed, DisplayInv, RevisionInv, OwnerInv, Held
    <2>2. OwnerInv'
      BY <1>0, <1>00, <1>8 DEF WorkerCloses, Destroyed, DisplayInv, OwnerInv, Held
    <2>3. NewestKept'
      BY <1>8 DEF WorkerCloses, DisplayInv, NewestKept
    <2> QED BY <2>1, <2>2, <2>3
  <1>9. CASE WorkerReports
    BY <1>9, NothingMoves DEF WorkerReports, StartSignals, DisplayInv, RevisionInv
  <1>10. CASE WorkerOpens \/ WorkerFirstWrite \/ WorkerHead \/ WorkerChecksSnapshots
              \/ WorkerLoads("icmp", "ssh") \/ WorkerLoads("ssh", "write") \/ WorkerWrites
              \/ WorkerSleeps \/ WorkerStops
    <2>1. /\ UNCHANGED <<heap, pending, active, replaced, published, revision, main>>
          /\ worker # "done" /\ worker' # "done"
      BY <1>10 DEF WorkerOpens, WorkerFirstWrite, WorkerHead, WorkerChecksSnapshots,
           WorkerLoads, WorkerWrites, WorkerSleeps, WorkerStops
    <2> QED BY <2>1, NothingMoves DEF DisplayInv, RevisionInv
  <1>11. CASE Finished \/ UNCHANGED vars
    BY <1>11, NothingMoves DEF Finished, vars, DisplayInv, RevisionInv
  <1> QED BY <1>1, <1>2, <1>3, <1>4, <1>5, <1>6, <1>7, <1>8, <1>9, <1>10, <1>11
          DEF Next, Calls, MainSteps, WorkerSteps

LEMMA DisplayInvAlways == Spec => []DisplayInv
  <1>1. DisplayInv /\ [Next]_vars => DisplayInv'
    BY TypeStep, StageStep, SnapshotSteps DEF DisplayInv
  <1> QED BY DisplayInit, <1>1, PTL DEF Spec

-----------------------------------------------------------------------------
(* TypeOK holds of every behaviour: the counters keep their width and the  *)
(* display is never asked for more than its three digits show.             *)
THEOREM TypeCorrect == Spec => []TypeOK
  BY DisplayInvAlways, PTL DEF DisplayInv

(* No snapshot of display.c leaks while it is held, is freed twice or used *)
(* after it was freed, however the two threads interleave.                 *)
THEOREM OwnedOnceAlways == Spec => []OwnedOnce
  <1>1. OwnerInv => OwnedOnce
    BY DEF OwnerInv, OwnedOnce, Holder, Held
  <1> QED BY DisplayInvAlways, <1>1, PTL DEF DisplayInv

(* The newest published snapshot is never lost between the threads.        *)
THEOREM NewestKeptAlways == Spec => []NewestKept
  BY DisplayInvAlways, PTL DEF DisplayInv

(* display_controller_destroy leaves no snapshot and no open output.       *)
THEOREM NothingLeftAlways == Spec => []NothingLeft
  <1>1. DisplayInv => NothingLeft
    <2> SUFFICES ASSUME DisplayInv, main = "freed" PROVE NothingLeft
      BY DEF NothingLeft
    <2>1. pending = NoSnapshot /\ Held = NoSnapshot /\ replaced = NoSnapshot
      BY DEF DisplayInv, StageInv, RevisionInv, Held
    <2>2. NoSnapshot \notin Revisions
      BY DisplayAssumption DEF NoSnapshot, Revisions
    <2> QED BY <2>1, <2>2 DEF DisplayInv, StageInv, OwnerInv, NothingLeft
  <1> QED BY DisplayInvAlways, <1>1, PTL

(* What the start-up waits for is there once it is announced.              *)
StartInv ==
  /\ worker # "unborn" => initialized \/ main \in {"start", "startWait"}
  /\ initialized => worker \notin {"unborn", "open", "first", "report"}
  /\ initialized => warned = ~ready

LEMMA StartStep == TypeOK /\ StageInv /\ StartInv /\ [Next]_vars => StartInv'
  <1> SUFFICES ASSUME TypeOK, StageInv, StartInv, [Next]_vars PROVE StartInv'
    OBVIOUS
  <1> USE DEF StartInv, callVars, mainVars, workerVars, flagVars, startVars, sharedVars
  <1>1. CASE Calls
    BY <1>1 DEF Calls, CreateDisabled, CreateWorker, DetectorObserves, RecordEvent,
         PublishScan, DestroyStops, StageInv
  <1>2. CASE MainSteps
    BY <1>2 DEF MainSteps, StartChecks, StartKnown, CountEvent, SnapshotFails, SnapshotTaken,
         DiscardReplaced, DestroyJoins, DestroyReleases
  <1>3. CASE WorkerReports
    BY <1>3 DEF WorkerReports
  <1>4. CASE WorkerOpens \/ WorkerFirstWrite
    BY <1>4 DEF WorkerOpens, WorkerFirstWrite
  <1>5. CASE WorkerSteps /\ ~(WorkerOpens \/ WorkerFirstWrite \/ WorkerReports)
    BY <1>5 DEF WorkerSteps, WorkerHead, WorkerChecksSnapshots, WorkerTakes, WorkerLoads,
         WorkerWrites, WorkerSleeps, WorkerStops, WorkerCloses
  <1>6. CASE StartSpurious \/ Finished \/ UNCHANGED vars
    BY <1>6 DEF StartSpurious, Finished, vars
  <1> QED BY <1>1, <1>2, <1>3, <1>4, <1>5, <1>6 DEF Next

(* display_controller_create returns what the worker has reported, however *)
(* the two threads meet at the handshake.                                  *)
THEOREM StartReportedAlways == Spec => []StartReported
  <1>1. Init => StartInv
    BY DEF Init, StartInv
  <1>2. DisplayInv /\ StartInv /\ [Next]_vars => StartInv'
    BY StartStep DEF DisplayInv
  <1>3. StartInv => StartReported
    BY DEF StartInv, StartReported
  <1> QED BY <1>1, <1>2, <1>3, DisplayInvAlways, PTL DEF Spec

(* The worker reads nothing but the newest snapshot: the atomic exchanges  *)
(* and the revision check implement the mailbox.                           *)
THEOREM DisplayImplementsMailbox == Spec => ImplementsMailbox
  <1>1. Init => Mailbox!MailboxInit
    BY DEF Init, Mailbox!MailboxInit, NoSnapshot
  <1>2. DisplayInv /\ [Next]_vars => [Mailbox!Post \/ Mailbox!Read]_<<published, active>>
    <2> SUFFICES ASSUME DisplayInv, [Next]_vars
                 PROVE  [Mailbox!Post \/ Mailbox!Read]_<<published, active>>
      OBVIOUS
    <2> USE DEF callVars, mainVars, workerVars, flagVars, startVars, sharedVars
    <2>1. CASE SnapshotTaken
      <3>1. published < revision /\ revision \in Nat
        BY <2>1, DisplayAssumption
           DEF SnapshotTaken, DisplayInv, RevisionInv, TypeOK, Snapshots, Revisions, NoSnapshot
      <3>2. published \in Nat
        BY DisplayAssumption DEF DisplayInv, TypeOK, Snapshots, Revisions, NoSnapshot
      <3> QED BY <2>1, <3>1, <3>2 DEF SnapshotTaken, Mailbox!Post
    <2>2. CASE WorkerTakes
      <3>1. CASE pending = NoSnapshot
        BY <2>2, <3>1 DEF WorkerTakes
      <3>2. CASE pending # NoSnapshot
        BY <2>2, <3>2 DEF WorkerTakes, DisplayInv, NewestKept, Mailbox!Read
      <3> QED BY <3>1, <3>2
    <2>3. CASE Calls
      BY <2>3 DEF Calls, CreateDisabled, CreateWorker, DetectorObserves, RecordEvent,
           PublishScan, DestroyStops
    <2>4. CASE MainSteps
      BY <2>1, <2>4 DEF MainSteps, StartChecks, CountEvent, SnapshotFails, DiscardReplaced,
           DestroyJoins, DestroyReleases
    <2>5. CASE WorkerSteps
      BY <2>2, <2>5 DEF WorkerSteps, WorkerOpens, WorkerFirstWrite, WorkerReports,
           StartSignals, WorkerHead, WorkerChecksSnapshots, WorkerLoads, WorkerWrites,
           WorkerSleeps, WorkerStops, WorkerCloses
    <2>6. CASE StartSpurious \/ Finished \/ UNCHANGED vars
      BY <2>6 DEF StartSpurious, Finished, vars
    <2> QED BY <2>3, <2>4, <2>5, <2>6 DEF Next
  <1> QED BY <1>1, <1>2, DisplayInvAlways, PTL DEF Spec, ImplementsMailbox, Mailbox!MailboxSpec

-----------------------------------------------------------------------------
(* What main has loaded is still the count when it stores the sum.         *)
LoadInv == main = "count" => loaded = counts[counting]

LEMMA LoadStep == LoadInv /\ [Next]_vars => LoadInv'
  <1> SUFFICES ASSUME LoadInv, [Next]_vars PROVE LoadInv'
    OBVIOUS
  <1> USE DEF LoadInv, callVars, mainVars, workerVars, flagVars, startVars, sharedVars
  <1>1. CASE Calls
    BY <1>1 DEF Calls, CreateDisabled, CreateWorker, DetectorObserves, RecordEvent,
         PublishScan, DestroyStops
  <1>2. CASE MainSteps
    BY <1>2 DEF MainSteps, StartChecks, CountEvent, SnapshotFails, SnapshotTaken,
         DiscardReplaced, DestroyJoins, DestroyReleases
  <1>3. CASE WorkerSteps
    BY <1>3 DEF WorkerSteps, WorkerOpens, WorkerFirstWrite, WorkerReports, StartSignals,
         WorkerHead, WorkerChecksSnapshots, WorkerTakes, WorkerLoads, WorkerWrites,
         WorkerSleeps, WorkerStops, WorkerCloses
  <1>4. CASE StartSpurious \/ Finished \/ UNCHANGED vars
    BY <1>4 DEF StartSpurious, Finished, vars
  <1> QED BY <1>1, <1>2, <1>3, <1>4 DEF Next

(* What is shown lags behind what was loaded, which lags behind the count. *)
LagInv ==
  /\ \A k \in Kinds : render[k] <= counts[k]
  /\ previous.page = 1 => previous.value <= Shown(render["icmp"])
  /\ previous.page = 2 => previous.value <= Shown(render["ssh"])

LEMMA ShownGrows ==
  ASSUME NEW v \in Nat, NEW w \in Nat, v <= w
  PROVE  Shown(v) <= Shown(w)
  BY DisplayAssumption DEF Shown

LEMMA IncrementGrows ==
  ASSUME NEW v \in 0..CounterMax PROVE v <= Increment(v)
  BY DisplayAssumption DEF Increment

LEMMA CountsAreNumbers ==
  ASSUME TypeOK
  PROVE  /\ \A k \in Kinds : counts[k] \in 0..CounterMax /\ counts[k] \in Nat
         /\ \A k \in Kinds : render[k] \in Nat
         /\ previous.page \in 1..3 /\ previous.value \in Nat
         /\ "icmp" \in Kinds /\ "ssh" \in Kinds
  BY DisplayAssumption DEF TypeOK, Kinds

LEMMA WriteShows ==
  ASSUME WorkerWrites
  PROVE  \/ previous' = previous
         \/ previous'.page = 1 /\ previous'.value = Shown(render["icmp"])
         \/ previous'.page = 2 /\ previous'.value = Shown(render["ssh"])
         \/ previous'.page = 3
  <1>1. PICK page \in 1..3, ports \in {0, active} :
          previous' = previous \/ previous' = Segments(page, ports)
    BY DEF WorkerWrites
  <1> QED BY <1>1 DEF Segments

LEMMA PreviousStep ==
  ASSUME [Next]_vars
  PROVE  WorkerWrites \/ previous' = previous
  BY DEF Next, Calls, MainSteps, WorkerSteps, CreateDisabled, CreateWorker, DetectorObserves,
         RecordEvent, PublishScan, DestroyStops, StartChecks, CountEvent, SnapshotFails,
         SnapshotTaken, DiscardReplaced, DestroyJoins, DestroyReleases, WorkerOpens,
         WorkerFirstWrite, WorkerReports, WorkerHead, WorkerChecksSnapshots, WorkerTakes,
         WorkerLoads, WorkerSleeps, WorkerStops, WorkerCloses, StartSpurious, Finished,
         vars, callVars, mainVars, workerVars, flagVars, startVars, sharedVars

LEMMA CountsStep ==
  ASSUME [Next]_vars
  PROVE  \/ CountEvent /\ render' = render
         \/ (\E k \in Kinds : render' = [render EXCEPT ![k] = counts[k]]) /\ counts' = counts
         \/ UNCHANGED <<render, counts>>
  BY DEF Next, Calls, MainSteps, WorkerSteps, CreateDisabled, CreateWorker, DetectorObserves,
         RecordEvent, PublishScan, DestroyStops, StartChecks, CountEvent, SnapshotFails,
         SnapshotTaken, DiscardReplaced, DestroyJoins, DestroyReleases, WorkerOpens,
         WorkerFirstWrite, WorkerReports, WorkerHead, WorkerChecksSnapshots, WorkerTakes,
         WorkerLoads, WorkerWrites, WorkerSleeps, WorkerStops, WorkerCloses, StartSpurious,
         Finished, Kinds, vars, callVars, mainVars, workerVars, flagVars, startVars, sharedVars

LEMMA LagStep == TypeOK /\ TypeOK' /\ LoadInv /\ LagInv /\ [Next]_vars => LagInv'
  <1> SUFFICES ASSUME TypeOK, TypeOK', LoadInv, LagInv, [Next]_vars PROVE LagInv'
    OBVIOUS
  <1>1. \A k \in Kinds : render[k] <= render'[k] /\ render'[k] <= counts'[k]
    <2>1. CASE CountEvent /\ render' = render
      <3>1. \A k \in Kinds : counts[k] <= counts'[k] /\ counts'[k] \in Nat
        <4> TAKE k \in Kinds
        <4>1. counts[k] \in 0..CounterMax /\ counts \in [Kinds -> 0..CounterMax]
          BY CountsAreNumbers DEF TypeOK
        <4>2. counts'[k] = counts[k] \/ counts'[k] = Increment(counts[k])
          BY <2>1, <4>1 DEF CountEvent, LoadInv
        <4> QED BY <4>1, <4>2, IncrementGrows, CountInRange, DisplayAssumption
      <3> QED BY <2>1, <3>1, CountsAreNumbers DEF LagInv
    <2>2. CASE (\E k \in Kinds : render' = [render EXCEPT ![k] = counts[k]]) /\ counts' = counts
      <3>1. PICK j \in Kinds : render' = [render EXCEPT ![j] = counts[j]]
        BY <2>2
      <3>2. render \in [Kinds -> 0..CounterMax]
        BY DEF TypeOK
      <3> QED BY <2>2, <3>1, <3>2, CountsAreNumbers DEF LagInv
    <2>3. CASE UNCHANGED <<render, counts>>
      BY <2>3, CountsAreNumbers DEF LagInv
    <2> QED BY <2>1, <2>2, <2>3, CountsStep
  <1>2. \A k \in Kinds : render'[k] \in Nat /\ Shown(render[k]) <= Shown(render'[k])
    <2> TAKE k \in Kinds
    <2>1. render'[k] \in 0..CounterMax
      BY DEF TypeOK
    <2> QED BY <1>1, <2>1, ShownGrows, CountsAreNumbers, DisplayAssumption
  <1>3. /\ Shown(render["icmp"]) \in Nat /\ Shown(render'["icmp"]) \in Nat
        /\ Shown(render["ssh"]) \in Nat /\ Shown(render'["ssh"]) \in Nat
    BY <1>2, CountsAreNumbers, ShownInRange, DisplayAssumption
  <1>4. previous'.value \in Nat
    BY DisplayAssumption DEF TypeOK
  <1>5. /\ previous'.page = 1 => previous'.value <= Shown(render["icmp"])
        /\ previous'.page = 2 => previous'.value <= Shown(render["ssh"])
    BY <1>3, PreviousStep, WriteShows DEF LagInv
  <1> QED BY <1>1, <1>2, <1>3, <1>4, <1>5, CountsAreNumbers DEF LagInv

(* The ICMP and SSH pages never count down, whatever the width of the      *)
(* counters and however counting and rendering interleave.                 *)
THEOREM NeverCountsDownAlways == Spec => NeverCountsDown
  <1>1. Init => LoadInv /\ LagInv
    BY DisplayAssumption DEF Init, LoadInv, LagInv, Shown, Kinds
  <1>2. TypeOK /\ LagInv /\ [Next]_vars
          => (previous'.page = previous.page /\ previous.page # 3
                => previous'.value >= previous.value)
    <2> SUFFICES ASSUME TypeOK, LagInv, [Next]_vars,
                        previous'.page = previous.page, previous.page # 3
                 PROVE  previous'.value >= previous.value
      OBVIOUS
    <2>1. Shown(render["icmp"]) \in Nat /\ Shown(render["ssh"]) \in Nat
      BY CountsAreNumbers, ShownInRange, DisplayAssumption
    <2> QED BY <2>1, PreviousStep, WriteShows, CountsAreNumbers DEF LagInv
  <1>3. Spec => []TypeOK
    BY TypeCorrect
  <1> QED BY <1>1, <1>2, <1>3, LoadStep, LagStep, PTL DEF Spec, NeverCountsDown
=============================================================================
