# netmon: TLA+ models, model checking and proofs

netmon (`src/src`) is a passive network monitor for a Raspberry Pi: libpcap
hands packets to one callback, which parses them, applies rules and a port-scan
detector, logs the events, blinks an LED and feeds a four-digit display. The
LED and the display each have a worker thread. This directory holds TLA+
modules of its components, TLC runs that check them on small instances and
TLAPS proofs about them for all values of their constants.

Paths such as `scan_detector.c:47` mean `src/src/scan_detector.c`, line 47.

## 1. Inventory

| component | state | operations | interacts with |
| --- | --- | --- | --- |
| command line (`main.c:83`) | `AppConfig` | `parse_arguments` | `main` |
| start, stop, signals (`main.c:220,259`) | `g_stop_requested`, `g_capture_handle`, the subsystems in `AppContext`, the exit status | `main`, `handle_signal` | creates and destroys all others; the handler runs on any thread |
| capture (`capture.c`) | a libpcap handle | open, loop, break, close | calls `process_packet`; broken out of by the handler |
| packet pipeline (`main.c:230`) | none | `process_packet` | parser, rules, display, logger, LED, detector, in this order |
| parser (`parser.c`) | none | `parse_packet` | fills a `PacketInfo` |
| rules engine (`rules.c`) | list of SSH attempts with times | `rules_engine_evaluate_packet`, `rules_make_scan_alert` | reads `time()`; returns an `Event` |
| scan detector (`scan_detector.c`) | per-source buckets: port times, last seen, last alert; a revision | `scan_detector_observe`, `_revision`, `_snapshot` | reads `time()`; read by the display's producer |
| scan snapshot (`scan_detector.c:261`) | a flat copy of the port times | `scan_snapshot_max_ports`, `_destroy` | passed from the capture thread to the display worker |
| logger (`logger.c`) | an open file | `logger_emit` | terminal and log file |
| LED controller (`gpio_led.c`) | ring buffer, mutex, condition, `running`, GPIO line | create, enqueue, destroy; a worker thread | capture thread and worker |
| display controller (`display.c`) | atomic counters, flags and snapshot pointer; start-up mutex and condition | create, record_event, publish_scan, destroy; a worker thread | capture thread and worker; writes to an output |
| TM1637 driver (`tm1637.c`) | two bus lines | open, write, clear, close, encode | used by the display worker alone |

What is hard here, and what makes each component correct:

* **Detector and rules** run on one thread but against a wall clock that may
  jump, and every allocation may fail in the middle of an operation. Pruning
  must be invisible: the lists must behave like a memory that forgets nothing.
  Scans must be reported, and not twice in a window; a duplicated SYN must not
  raise a second ALERT, and a first attempt must never be silenced.
* **LED and display** are two threads each. No wake-up may be lost, no snapshot
  freed twice or leaked, no resource released while the other thread may use
  it, and the capture callback must never wait for a pattern or a transfer.
* **The pipeline** sends one packet through six receivers in a fixed order. What
  they show must agree: totals, log, LED and third page tell of the same packets,
  although the queue drops, the display lags behind and allocations fail.
* **The parser** must read no byte that was not captured, whatever the length
  fields claim, and two readers of its flags (rules and detector) test them
  differently and must still agree.
* **The command line** takes options in any order and repetition; two controllers
  must never get the same GPIO line.
* **Start and stop** is a signal handler against the whole of `main()`: every
  failure path tears down its own prefix, and a stop may come at any point and
  on any thread.

`PROJECT.json` lists the hazards one by one, at the line where they bite.

## 2. Modules

| module | what it is |
| --- | --- |
| `ScanDetector` | the detector: buckets, pruning, cooldown, allocation failures, wall clock |
| `ScanPromise` | abstract: a sliding window over a memory that forgets nothing |
| `ScanHistory` | detector plus history variables; its properties; the refinement |
| `MCScan` | model values for TLC |
| `ScanProofs` | theorems about the detector and its snapshots (EXTENDS `ScanSnapshot`) |
| `RulesEngine`, `DedupPromise`, `RulesHistory`, `MCRules`, `RulesProofs` | the same for the rules engine |
| `LedController` | capture thread and worker of the LED, step by step |
| `LedQueue` | abstract: a lossy first-in first-out queue that plays at most one pattern after it is closed |
| `LedProperties`, `LedProofs` | properties, refinement, theorems |
| `DisplayController` | capture thread and worker of the display, one atomic operation per step |
| `SnapshotMailbox` | abstract: a mailbox for one message, read only at its newest |
| `DisplayProperties`, `DisplayProofs` | properties, refinement, theorems |
| `Tm1637`, `Tm1637Properties`, `MCTm1637`, `Tm1637Proofs` | the bit-banged bus of the display against a chip that decodes it; pages for TLC; theorems |
| `CommandLine` | the options of `parse_arguments` and what is accepted of them |
| `Lifecycle`, `LifecycleProperties`, `LifecycleProofs` | `main()` (EXTENDS `CommandLine`) and `handle_signal`; properties; theorems |
| `Parser` | `parse_packet`, one layer per step |
| `ParserProperties`, `MCParser`, `ParserProofs` | the reference definition of what a packet holds; packets for TLC; theorems |
| `ScanSnapshot` | `scan_detector_snapshot` and `scan_snapshot_max_ports` over the detector's buckets |
| `Netmon` | `process_packet`: composes `RulesEngine` and `ScanSnapshot` with the detector (INSTANCE), and `LedQueue` as what the LED controller was shown to implement |
| `NetmonProperties`, `MCNetmon`, `NetmonProofs` | what log, totals, LED and page say of the same packets; values for TLC; theorems |

Operators whose names extend that of a neighbour (`PrunePortsNever` beside
`PrunePorts`, `SignalNobody` beside `Signal`, ...) are not part of the model:
each is the neighbour with a plausible bug, used to confirm that a property
notices it (`mutants` in `PROJECT.json`).

### How state and actions correspond to the code

**Scan detector.** `sources` is the list of buckets as a function, a bucket is
a record of `last_seen_at`, `last_alert_at` and the ports with their times.
List order is left out: every operation walks whole lists and keys are unique.
`ObserveRecorded`, `ObserveSourceLost` and `ObservePortLost` are the three ends
of `scan_detector_observe_at` for an initial SYN (recorded; no memory for the
bucket; no memory for the port), each with the pruning of *all* buckets, the
update of `last_seen_at` and the second pruning; `ObserveNothing` is every
early return. `alert` is what the call returned. The comparison
`(unsigned int)difftime(now, t) > window` is `OutsideWindow`: for a time in the
future the conversion of a negative double is undefined in C, and the model
takes either outcome the builds produce (saturation to 0 on AArch64, wrap-around
on x86-64), one per call.

**Rules engine.** `attempts` is the list of SSH attempts; an attempt is the
whole key (addresses, ports, sequence number) as one model value. The four
actions for an SSH SYN are the four ends of `ssh_alert_should_escalate`; all
other packets are `EvaluatePlain` over the classes that
`rules_evaluate_packet` tells apart. Of the history variables `doubted` says whether
`time()` failed at the last packet: then the code escalates whatever the list holds.

**LED controller** (built with `ENABLE_GPIO`). A thread's step ends where it
takes the mutex, gives it up, blocks or drives the line; what it does while it
holds the mutex is invisible to the other thread. `Acquired` and `Cleanup` are
the two sides of each failure path of `led_controller_create`. A pattern is the
list of levels it drives; sleeping is the time between two steps.

**Display controller.** A step is one atomic operation with the work around it that the
other thread does not see: `RecordEvent` loads a counter (`loaded`), `CountEvent` stores
the sum, and the worker loads the two counters in two steps of its own.
A snapshot is named by its revision, `heap` follows its life, and freeing one
that is not live corrupts the heap. The start-up mutex is not a variable:
both sides hold it over one step each. The output's open and write may fail, as
may the clocks, the timer and the snapshot; all ways out of the worker loop
lead to the same exit. The page shown is any page at any rendering, because a
thread may be delayed past a page's second.

**TM1637.** `Acquire` and `OpenFails` are the acquisitions of `tm1637_open` and its
single failure path; `held` is what `tm1637_close` has to give back. Write requests
encode pages as `tm1637_encode_number` does, capped at 999. One step drives one line (`clk`, `dio`, with the delay after it).
`ops` are the line operations left of the current start, byte or stop, `unsent`
the bytes left of the transaction, `plan` the transactions left of the call.
Any operation may fail, with or without effect on its line; an acknowledgement
may be missing. A failed start or byte goes on with the stop (`SendFails`), a
failed operation of the stop with the rest of it (`StopFails`), a failed
transaction ends the write but not the clear's last command (`Remaining`). The
chip is external: it sees the edges of the lines only, and decodes them as the
fake bus of `tests/display_synthetic.c:53` does; `chip.meant` is history.

**Parser.** A packet is the record of the fields the parser decides on;
`captured` alone says which bytes exist, so the other fields are what a read
beyond it would find. One step parses one layer; `offset` is where the layer's
buffer begins, `available` is the length passed down, `touched` (history) the
furthest byte read. `info` is the set of the boolean members of `PacketInfo`
that are true. `Class` and `Counted` are how `rules.c` and `scan_detector.c` read
them, and give the packet classes of `RulesEngine` and the SYNs of `ScanDetector`.
The IPv4 total length is compared with the header length only, as in the code:
Ethernet padding after a short packet is decoded as if it belonged to it.

**Scan snapshot.** A snapshot is a sequence of source and time. The detector model
has no list order, so `Snapshots` are the copies for every order of the port `Nodes`
in which the nodes of one bucket come together. `Counted` is the counting loop of
`scan_snapshot_max_ports` as a function of the number of entries passed: its count
restarts where the source changes, its maximum grows.

**Netmon.** `stage` is the next call of `process_packet`; the calls are `Capture`
(parse and evaluate), `Record`, `EmitEvent`, `Observe`, `Alarm`, `Publish`, and
between any two of them the clock may move and the workers may act. `event`, `alert`
and `packet` are its locals. An SSH SYN is both an attempt of the rules and a
probe of the detector. The LED controller is the queue it implements. The
display is its two counters, the mailbox and the worker's own snapshot,
with every failure of the worker as `DisplayEnds` and the failed allocation as `failed`.
A disabled LED (`ledStatus` stays `"new"`) ignores every pattern.
The log is the history of emitted events; writing it cannot fail the pipeline.

**Command line.** `config` starts from the defaults and `MainReadsOption` applies any
well-formed option, again and again; a malformed one is the failure of the stage
`arguments`. `Accepted` is the test after the loop, `Granted` what `main()` then passes
to the two constructors (the LED without a line, or a display that is not enabled,
starts no worker). A line is `{}` until provided.

**Lifecycle.** `main` is the stage of `main()`; `todo` is what the failure path
of that stage (or the end) still destroys. `handle_signal` is two further steps
(its test and its use of `g_capture_handle`), on the main thread, which it
suspends, or on a worker. `g_capture_handle` is a plain pointer read twice;
the compiler may reuse the first value, so `HandlerBreaks` allows both. A second
handler does not start before the first returns. In the program the handler of the other
signal could nest in it or run beside it; both set the same flag and break the same
capture, so what they do together one of them does alone. The build defines
`_DEFAULT_SOURCE`, so `signal()` leaves the handler installed.

## 3. Runs

| run | bounds | question |
| --- | --- | --- |
| `scan_window` | 2 sources, 3 ports, window 2 s, threshold 2, 7 s, 5 SYNs | with a sane clock, is the detector the sliding window? |
| `scan_epoch` | clock starts at 0 | *violation*: the first scan near the epoch is not reported |
| `scan_clock_back` | steps of +1 and -2 s | *violation*: a scan across a clock correction is not reported |
| `rules_dedup` | 3 attempts, 2 s, 8 s, 6 packets, steps of 1 and 2 s | is the attempt list a de-duplication? |
| `led_queue` | capacity 2, 4 enqueues, 2 spurious wake-ups | is the controller a lossy queue that leaks nothing, never blocks capture and stops? |
| `display` | 3 revisions, 2 events, 1 spurious wake-up, every failure | is the pointer a mailbox, with one owner per snapshot, and does everything end? |
| `tm1637` | 2 pages (one number past 999), every failing open, 2 writes and the clear, 4 failures | does the chip get what the driver says it sent, and is the bus released after failures? |
| `parser` | 26,562 packets: 19 lengths just around the end of each header, IHL 4 to 6, data offset 4 to 6, total length and UDP length around their limits | is nothing read beyond the capture, and exactly what is there reported? |
| `netmon` | 2 sources, ports 22 and 80, window and de-duplication 1 s, threshold 2, queue of 1, LED on or off, 3 s, 3 packets | do log, totals, LED and third page agree? |
| `life` | 3 GPIO lines, both workers, 3 signals, every failure | are the lines apart, and does every start and stop clean up? |
| `life_lost_stop` | 1 signal | *violation*: a stop request before the capture exists is forgotten |
| `life_closed_capture` | 1 signal | *violation*: the handler uses a freed capture |

Why the bounds are enough. In `scan_window` a window of 2 seconds inside 7 lets
ports expire, buckets be dropped with their cooldown and be created again;
3 ports with threshold 2 let a set grow past the threshold, shrink and grow
again; two sources let one source's SYN prune the other. The start time is
just past the window, the earliest clock for which the promise holds. In
`rules_dedup` an attempt can be seen, refreshed, expire and come back, with a
second being pruned meanwhile. Its clock only moves forward: that no attempt is silenced
unalerted when the clock is set back is left to the theorem about `SilencedWasAlerted`. In `led_queue` four offers wrap a ring of two
and overflow it; two spurious wake-ups suffice to wake the worker before and
after the stop. In `display` three revisions are the least for which pending,
active and replaced snapshot all differ; `CounterMax` is 1 so that two events
reach saturation. In `tm1637` two
writes suffice for one after another, and four failures for one in a transfer,
two in its stop and one in the next start: `FrameArrived` holds for two failures of any
kind and its second part is false for three (a failed bit, a stop that cannot pull DIO low,
and a failed start leave the chip counting bits across two
transactions, and it takes a byte nobody sent). The code reports every such
transaction as failed and closes the display, so this is a limit of the promise, not a defect.
In `parser` every comparison has a packet on each side of it and at
equality; what a longer packet adds is proved. In `netmon` three packets are a scan of
two ports and one more of either kind, a queue of one overflows with the second
pulse, and three seconds let ports expire between the snapshot and its showing. In
`life` three lines are the least with which LED, CLK and DIO can be apart, with two
collisions left to make. A third signal can arrive after a stop and its
repetition. The proofs remove these bounds for the safety properties.
Symmetry is used only over sources, ports and attempts, which the modules treat
alike, and only in runs without liveness.

`CHECK_DEADLOCK FALSE` appears where the bound on packets or time stops the
model; LED, parser, display and lifecycle models end in an explicit final state and
are checked for deadlock.

### Fairness

* LED: `FairSpec` schedules both threads (`MainSteps`, `WorkerSteps`), not
  the calls main may make and not the playing of a pattern. `EnqueueReturns` is
  thus checked against a pattern that never ends. Properties that need `usleep`
  to return say so in their premise (`PatternsEnd`). Weak fairness for taking the
  mutex is enough: the worker comes back to it only for a queued action, and
  enqueues are bounded, so no thread can keep it from the other for ever. It
  is justified by the kernel's scheduling of two runnable threads of equal
  priority.
* Display: `FairSpec` schedules the capture thread alone, so
  `ProducerNeverWaits` covers a worker stuck for ever; the others assume
  `WorkerRuns`.
* Netmon and Parser have no fairness: their properties are invariants.
* Lifecycle: `main()` and the handler are scheduled, and a `pcap_loop` that
  was asked to break returns. The last is libpcap's promise; when the handler
  runs on a worker thread it depends on the read timeout of `main.c:329`.
  Nothing forces a signal or a failure.

### What the violations show

1. `scan_epoch`: `last_alert_at` of a fresh bucket is 0, which the cooldown test
   reads as an alert at the epoch, so for the first `window_seconds` of 1970 no
   scan is reported (`README.md:13` promises one). The target has no battery-backed
   clock: the log in `finalTest/verification` starts at 1970-01-01T00:53:18.
2. `scan_clock_back`: with a clock set back and a build that wraps, live ports
   are pruned and the scan goes unreported.
3. `life_lost_stop`: a signal after `main.c:319` and before the handle is
   assigned at `main.c:329` sets `g_stop_requested`, which nothing reads before
   `capture_loop`. The program has to be interrupted again.
4. `life_closed_capture`: between `capture_close` and the reset of
   `g_capture_handle` the handler still finds the pointer; on one thread
   that takes a signal between `main.c:357` and `358`: the first one, when the loop was
   ended by a failure of libpcap, or another one after the stop.

## 4. Proofs

All theorems are checked by TLAPS for every value of the constants that
satisfies the `ASSUME` of the component's module (`ScanAssumption`,
`RulesAssumption`, `LedAssumption`, `DisplayAssumption`, `ParserAssumption`,
`LifecycleAssumption`, `Tm1637Assumption`, `NetmonAssumption` and
`PlainPacketsAssumption`); nothing else is assumed but what a theorem states.

* **`ScanProofs`.** Two invariants. The first needs no assumption on the clock:
  types, and `BucketsTruthful` (each port entry carries the time of the last recorded
  SYN of that source and port). The second needs `WallClockSane` (the clock
  starts past one window and is never set back) and adds what pruning must
  preserve: no live port is forgotten, no cooldown is lost with its bucket,
  no time lies in the future. It is inductive only with these together: whether a
  bucket may be dropped depends on its ports *and* its cooldown. From it follow
  `ScanReported`, `AlertSpacing` (no alert for a source that was reported inside the window,
  in the same second either), and that every step of the detector is a step of `ScanPromise`. `WallClockSane` is necessary: `scan_epoch` and
  `scan_clock_back` drop one half of it each.
  `MemoryBounded` needs one fact more, `SeenInv`: the bucket of a source was last seen no
  earlier than its last alert and its ports. Only with it is a bucket that survives
  pruning, for whatever reason, one that was seen inside the window.
* **Snapshots, in `ScanProofs`.** `MaxPortsExact` says what the counting loop returns for
  a snapshot of any length whose entries stand bucket by bucket. It is a proof about a
  recursive function without induction: the loop's claim (`RunExact`) holds at 0 and
  is kept by each entry, so a least counterexample cannot exist (`Least`). A snapshot
  is `Sound` when no entry is younger than the history, and `Current` when it also
  holds every live port. `SnapshotCurrent` gives both when it is taken; being sound is
  kept by every step (`SoundKept`), being current until a SYN is observed
  (`CurrentKept`). `SoundPage` and `CurrentPage` turn this into what is shown.
* **`RulesProofs`.** `ListInv` (types, truthful entries, entries only for alerted
  attempts) holds for any clock and gives `SilencedWasAlerted`. With
  `ClockNeverBack` the pruned list holds exactly what the promise calls recent
  (`KeptIsRecent`), which gives the refinement of `DedupPromise` and the spacing of alerts:
  an ALERT other than for want of a clock is for an attempt not alerted and noted in the
  last `DedupSeconds`, the same second included.
* **`LedProofs`.** `ControlInv` ties the two program counters to the mutex, the
  flags and the resources held; `RingInv` ties the ring to the histories of
  accepted and played actions (tail is count slots after head). The ring lemmas rest on
  `WrapOnce`: a sum below twice the capacity wraps at most once. The refinement of
  `LedQueue` is proved step by step from both.
* **`DisplayProofs`.** `DisplayInv`: types, how far the threads are apart
  (`StageInv`), revisions only grow (`RevisionInv`), one owner per snapshot
  (`OwnerInv`), the newest is kept. It gives ownership, release and
  the mailbox refinement. `StartReported` rests on `StartInv`: what is announced is
  there. `NeverCountsDown` needs two more invariants: what is shown is never more than what
  the worker loaded, nor that more than the counter (`LagInv`); and what the only writer
  has loaded is still the count when it stores the sum (`LoadInv`).
* **`ParserProofs`.** For every captured length and all values of the header fields.
  `ParserInv` adds to the two properties where the parser stands and what it knows
  of the layers below (`LayerInv`): inside a transport header the
  IPv4 header is valid, captured whole, and ends at `offset`. Without it the
  subtraction `available_length - ihl_bytes` could not be bounded. The lemmas
  `Finished` and `Descended` are the two ways a step may end; each layer is
  shown to end in one of them. `CountedIsReported` follows from `Clean`.
* **`Tm1637Proofs`.** For any pages, number of writes and failures. `ShapeInv` says which
  part of start, byte or stop is left, `StopInv` which line levels the operations of a
  stop have left behind, each unless it failed: this gives `BusReleased`. `FailInv` keeps
  every failure in sight of the result: this gives `FailureReported`. For `FrameArrived`,
  `SyncInv` follows the chip bit by bit through a transfer without failure, and
  `AdriftInv` bounds how many clock edges a chip that missed a stop may still
  mistake for bits: after one failure it holds at most one bit, after two it can
  complete no byte but the one that was meant. `MaxFailures` is any number; the two of `FrameArrived` are in the property.
* **`NetmonProofs`.** `TotalsMatchLog` follows from `CountInv`: between `Record` and
  `EmitEvent` the totals are ahead of the log by exactly the event that is due, as long
  as the display works. `PatternsFollowLog` is inductive itself: an accepted pattern takes
  the new last place of the log. `PipelineRunsDetector` shows that every step of
  `process_packet` is a step of the detector or leaves it alone, so that the theorems of
  `ScanProofs` hold in the pipeline (`PipelineReportsScans`). `PageTruthful` then needs
  `PageInv`: what the worker has and what waits for it is sound, and while the display
  works and `published` is the detector's revision the newer of the two is current.
  `ScanProofs` is instantiated for it (`Detector`); `Same...` lemmas identify its
  operators with those of `Netmon`'s own instance `Scan`.
* **`LifecycleProofs`.** For any set of lines, any options and any number of signals.
  `BuiltInv` says what exists at each stage of `main()`, `LeftInv` that the list still
  to be torn down is one of the six tails of the full list and names all that exists;
  neither is inductive alone, since a failing stage turns the first into the second.
  They give `CallbackSafe`, `ExitsClean` and `ReverseOrder`. `DevicesApart` rests on
  `AcceptedIsApart`: the lines of an accepted configuration never coincide.

Theorem and run are listed side by side in `PROJECT.json` ("theorems").
`BucketsTruthful`, `NoRecentAttemptForgotten`, `FifoExact`, `NewestKept`, `CallbackSafe` and the
types of detector, rules, display, `Tm1637`, `Netmon` and `Lifecycle` are proved and
appear in no run; they are parts or consequences of the invariants above.

Only model-checked: all liveness (`DestroyCompletes`, `AcceptedIsPlayed`,
`EnqueueReturns`, `StartCompletes`, `PublishedIsTaken`, `FailureCloses`,
`ProducerNeverWaits`, `BreakExits`), which is out of the prover's reach. Every
invariant and every action property of the passing runs is proved. The four violations
are counterexamples; the theorems that exclude them name the assumption they break.
Not proved either: that the queue of `Netmon` is the controller of `LedController`
and its display the one of `DisplayController`. Each is composed as what the proofs of
its component show it to be.

## 5. Not modelled

* `service_hint` and the addresses the parser copies: they only go into log lines.
* `logger.c`: formatting and file output; its open and close are stages of
  `Lifecycle`. Failing writes are ignored by the code.
* Texts and numbers of options: only whether one is well formed. Scan window and
  threshold are constants of `ScanDetector`.
* `tests/`, the build and `scripts/run_pi_evidence.sh`: not part of the program.
* libpcap, libgpiod, pthreads, the clocks: external, used as the code uses them.
* The build without `ENABLE_GPIO`: the LED controller is then never available.
* The timing of the TM1637 bus (10 µs per operation).
* Counters as wide as `revision` (64 bits) are not wrapped: at one packet per
  nanosecond it takes five centuries.

## 6. Plan

Done, in this order: `ScanDetector`, `RulesEngine`, `LedController`,
`DisplayController`, `Lifecycle`, `Tm1637`, `Parser`, `ScanSnapshot`, `Netmon`,
`CommandLine`, each with properties and runs; proofs of every invariant and action
property that a run checks.

Next:

1. The rules engine inside the pipeline, as `PipelineRunsDetector` does for the
   detector: the alert spacing of one attempt in the log.
2. `Netmon` as an abstract pipeline whose receivers see each packet in one step, with the
   stages of `process_packet` shown to implement it.
3. In `Lifecycle`, what holds of a run without signals between the two steps of the
   handler, as the positive counterpart of the two violations.
