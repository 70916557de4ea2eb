---------------------------- MODULE LedController ----------------------------
(***************************************************************************)
(* The LED controller of src/src/gpio_led.c, built with ENABLE_GPIO: the   *)
(* capture thread ("main") hands LED actions to a worker thread through a  *)
(* ring buffer under a mutex and a condition variable, and the worker      *)
(* plays them on a GPIO line.  A thread's step ends where it takes the     *)
(* mutex, gives it up, blocks or drives the line.                          *)
(***************************************************************************)
EXTENDS Integers, Sequences

CONSTANTS
  QueueCapacity,  \* length of controller->queue
  DriveMayFail,   \* whether gpiod_line_set_value may fail
  MaxOffers,      \* bound: calls of led_controller_enqueue
  MaxSpurious     \* bound: spurious wake-ups of pthread_cond_wait

ASSUME LedAssumption ==
  /\ QueueCapacity \in Nat \ {0}
  /\ DriveMayFail \in BOOLEAN
  /\ MaxOffers \in Nat
  /\ MaxSpurious \in Nat

VARIABLES
  main,       \* where the capture thread is
  offered,    \* the action it is enqueueing
  worker,     \* where the worker thread is
  script,     \* line levels of the current pattern still to be driven
  mutex,      \* who holds controller->mutex
  available,  \* controller->available
  running,    \* controller->running
  queue, head, tail, count,  \* controller->queue and its three indexes
  held,       \* what the controller has acquired and not given back
  level,      \* the level of the GPIO line
  offers, spurious,   \* counters behind the bounds
  accepted, played,   \* history: actions stored in and taken from the queue
  lateStarts          \* history: patterns begun after running was cleared

mainVars == <<main, offered, offers>>
workerVars == <<worker, script, spurious>>
ringVars == <<queue, head, tail, count>>
lineVars == <<held, level>>
historyVars == <<accepted, played, lateStarts>>
vars == <<mainVars, workerVars, mutex, available, running, ringVars, lineVars, historyVars>>

Actions == {"SHORT", "LONG", "RAPID"}
NoAction == "NONE"
Slots == 0..(QueueCapacity - 1)
MainStates == {"create", "idle", "enqueue", "store", "destroy", "stop", "join",
               "release", "freed"}
WorkerStates == {"unborn", "lock", "head", "pop", "waiting", "woken", "play", "off", "done"}
Resources == {"chip", "line", "mutex", "condition"}

TypeOK ==
  /\ main \in MainStates /\ offered \in Actions \cup {NoAction}
  /\ worker \in WorkerStates /\ script \in Seq({0, 1})
  /\ mutex \in {"free", "main", "worker"}
  /\ available \in BOOLEAN /\ running \in BOOLEAN
  /\ queue \in [Slots -> Actions \cup {NoAction}]
  /\ head \in Slots /\ tail \in Slots /\ count \in 0..QueueCapacity
  /\ held \subseteq Resources /\ level \in {0, 1}
  /\ offers \in 0..MaxOffers /\ spurious \in 0..MaxSpurious
  /\ accepted \in Seq(Actions) /\ played \in Seq(Actions) /\ lateStarts \in Nat

Init ==
  /\ main = "create" /\ offered = NoAction /\ offers = 0
  /\ worker = "unborn" /\ script = <<>> /\ spurious = 0
  /\ mutex = "free" /\ available = FALSE /\ running = FALSE
  /\ queue = [i \in Slots |-> NoAction] /\ head = 0 /\ tail = 0 /\ count = 0
  /\ held = {} /\ level = 0
  /\ accepted = <<>> /\ played = <<>> /\ lateStarts = 0

-----------------------------------------------------------------------------
(* led_controller_create.  No other thread exists yet, so it is one step.  *)

(* What is held when a stage of the creation fails.                        *)
Acquired(stage) ==
  CASE stage = "open" -> {}
    [] stage \in {"get_line", "request"} -> {"chip"}
    [] stage = "mutex" -> {"chip", "line"}
    [] stage = "condition" -> {"chip", "line", "mutex"}
    [] stage = "thread" -> Resources

CleanupKeepsMutex(stage) ==
  IF stage = "open" THEN {} ELSE {"chip", "line", "condition"}

(* What the failure path of a stage gives back.                            *)
Cleanup(stage) ==
  CASE stage = "open" -> {}
    [] stage = "get_line" -> {"chip"}
    [] stage \in {"request", "mutex"} -> {"chip", "line"}
    [] stage = "condition" -> {"chip", "line", "mutex"}
    [] stage = "thread" -> {"chip", "line", "mutex", "condition"}

(* Not requested, no line number or no chip path; or calloc itself fails,  *)
(* in which case there is no controller and main gives up.                 *)
CreateDisabled ==
  /\ main = "create"
  /\ main' \in {"idle", "freed"}
  /\ UNCHANGED <<offered, offers, workerVars, mutex, available, running, ringVars, lineVars, historyVars>>

(* The LED is optional: any failure leaves an unavailable controller.      *)
CreateFails ==
  /\ main = "create"
  /\ \E stage \in {"open", "get_line", "request", "mutex", "condition", "thread"} :
       held' = Acquired(stage) \ Cleanup(stage)
  /\ main' = "idle"
  /\ UNCHANGED <<offered, offers, workerVars, mutex, available, running, ringVars, level, historyVars>>

CreateWorker ==
  /\ main = "create"
  /\ held' = Resources
  /\ running' = TRUE /\ available' = TRUE
  /\ worker' = "lock"
  /\ main' = "idle"
  /\ UNCHANGED <<offered, offers, script, spurious, mutex, ringVars, level, historyVars>>

-----------------------------------------------------------------------------
SignalNobody == UNCHANGED worker

(* pthread_cond_signal: the worker is the only thread that ever waits.     *)
Signal == worker' = IF worker = "waiting" THEN "woken" ELSE worker

MainLocks(from, to) ==
  /\ main = from
  /\ mutex = "free"
  /\ mutex' = "main"
  /\ main' = to
  /\ UNCHANGED <<offered, offers, workerVars, available, running, ringVars, lineVars, historyVars>>

(* led_controller_enqueue: without an LED, or with nothing to play, it     *)
(* returns at once.                                                        *)
EnqueueIgnored ==
  /\ main = "idle"
  /\ offers < MaxOffers
  /\ offers' = offers + 1
  /\ UNCHANGED <<main, offered, workerVars, mutex, available, running, ringVars, lineVars, historyVars>>

EnqueueCalled ==
  /\ main = "idle" /\ available
  /\ offers < MaxOffers
  /\ offers' = offers + 1
  /\ offered' \in Actions
  /\ main' = "enqueue"
  /\ UNCHANGED <<workerVars, mutex, available, running, ringVars, lineVars, historyVars>>

NextSlotUnwrapped(slot) == IF slot = QueueCapacity - 1 THEN slot ELSE slot + 1
NextSlot(slot) == (slot + 1) % QueueCapacity

HasRoomOverrun == count <= QueueCapacity
HasRoom == count < QueueCapacity

(* Store, signal, unlock.                                                  *)
EnqueueStore ==
  /\ main = "store"
  /\ HasRoom
  /\ queue' = [queue EXCEPT ![tail] = offered]
  /\ tail' = NextSlot(tail)
  /\ count' = count + 1
  /\ accepted' = Append(accepted, offered)
  /\ Signal
  /\ mutex' = "free"
  /\ main' = "idle"
  /\ UNCHANGED <<offered, offers, script, spurious, available, running, head, lineVars, played, lateStarts>>

(* The queue is full: the pulse is dropped.                                *)
EnqueueDrop ==
  /\ main = "store"
  /\ ~HasRoom
  /\ mutex' = "free"
  /\ main' = "idle"
  /\ UNCHANGED <<offered, offers, workerVars, available, running, ringVars, lineVars, historyVars>>

-----------------------------------------------------------------------------
(* led_worker_main, with queue_pop and play_pattern.                       *)
WorkerLocks(from, to) ==
  /\ worker = from
  /\ mutex = "free"
  /\ mutex' = "worker"
  /\ worker' = to
  /\ UNCHANGED <<mainVars, script, spurious, available, running, ringVars, lineVars, historyVars>>

WorkerHeadDrains ==
  /\ worker = "head"
  /\ worker' = IF running \/ count # 0 THEN "pop" ELSE "off"
  /\ mutex' = IF running \/ count # 0 THEN mutex ELSE "free"
  /\ UNCHANGED <<mainVars, script, spurious, available, running, ringVars, lineVars, historyVars>>

(* while (controller->running): go on to queue_pop, or unlock and leave.   *)
WorkerHead ==
  /\ worker = "head"
  /\ worker' = IF running THEN "pop" ELSE "off"
  /\ mutex' = IF running THEN mutex ELSE "free"
  /\ UNCHANGED <<mainVars, script, spurious, available, running, ringVars, lineVars, historyVars>>

WorkerWait ==
  /\ worker = "pop"
  /\ count = 0 /\ running
  /\ worker' = "waiting"
  /\ mutex' = "free"
  /\ UNCHANGED <<mainVars, script, spurious, available, running, ringVars, lineVars, historyVars>>

WorkerSpurious ==
  /\ worker = "waiting"
  /\ spurious < MaxSpurious
  /\ spurious' = spurious + 1
  /\ worker' = "woken"
  /\ UNCHANGED <<mainVars, script, mutex, available, running, ringVars, lineVars, historyVars>>

(* Nothing queued and told to stop: queue_pop returns 0.                   *)
WorkerPopNothing ==
  /\ worker = "pop"
  /\ count = 0 /\ ~running
  /\ worker' = "head"
  /\ UNCHANGED <<mainVars, script, spurious, mutex, available, running, ringVars, lineVars, historyVars>>

Pattern(action) == IF action = "RAPID" THEN <<1, 0, 1, 0, 1, 0>> ELSE <<1, 0>>

MutexWhilePlayingKept == "worker"
MutexWhilePlaying == "free"

WorkerPop ==
  /\ worker = "pop"
  /\ count # 0
  /\ script' = Pattern(queue[head])
  /\ played' = Append(played, queue[head])
  /\ lateStarts' = IF running THEN lateStarts ELSE lateStarts + 1
  /\ head' = NextSlot(head)
  /\ count' = count - 1
  /\ worker' = "play"
  /\ mutex' = MutexWhilePlaying
  /\ UNCHANGED <<mainVars, spurious, available, running, queue, tail, lineVars, accepted>>

(* drive_line ignores a failing gpiod_line_set_value.                      *)
Drive(value) == level' \in {value} \cup (IF DriveMayFail THEN {level} ELSE {})

(* One level of the pattern, and the usleep after it.                      *)
WorkerDrive ==
  /\ worker = "play"
  /\ script # <<>>
  /\ Drive(Head(script))
  /\ script' = Tail(script)
  /\ UNCHANGED <<mainVars, worker, spurious, mutex, available, running, ringVars, held, historyVars>>

WorkerPlayed ==
  /\ worker = "play"
  /\ script = <<>>
  /\ worker' = "lock"
  /\ UNCHANGED <<mainVars, script, spurious, mutex, available, running, ringVars, lineVars, historyVars>>

WorkerOff ==
  /\ worker = "off"
  /\ Drive(0)
  /\ worker' = "done"
  /\ UNCHANGED <<mainVars, script, spurious, mutex, available, running, ringVars, held, historyVars>>

-----------------------------------------------------------------------------
(* led_controller_destroy                                                  *)
DestroyCalled ==
  /\ main = "idle"
  /\ main' = IF available THEN "destroy" ELSE "release"
  /\ UNCHANGED <<offered, offers, workerVars, mutex, available, running, ringVars, lineVars, historyVars>>

DestroyStop ==
  /\ main = "stop"
  /\ running' = FALSE
  /\ Signal
  /\ mutex' = "free"
  /\ main' = "join"
  /\ UNCHANGED <<offered, offers, script, spurious, available, ringVars, lineVars, historyVars>>

JoinedEarly == worker \in {"off", "done"}
Joined == worker = "done"

DestroyJoin ==
  /\ main = "join"
  /\ Joined
  /\ held' = held \ {"condition", "mutex"}
  /\ main' = "release"
  /\ UNCHANGED <<offered, offers, workerVars, mutex, available, running, ringVars, level, historyVars>>

(* Drive the line low, release it, close the chip, free the controller.    *)
DestroyRelease ==
  /\ main = "release"
  /\ IF "line" \in held THEN Drive(0) ELSE UNCHANGED level
  /\ held' = held \ {"line", "chip"}
  /\ main' = "freed"
  /\ UNCHANGED <<offered, offers, workerVars, mutex, available, running, ringVars, historyVars>>

Finished == main = "freed" /\ UNCHANGED vars

-----------------------------------------------------------------------------
Calls == CreateDisabled \/ CreateFails \/ CreateWorker \/ EnqueueIgnored
           \/ EnqueueCalled \/ DestroyCalled

MainSteps == MainLocks("enqueue", "store") \/ EnqueueStore \/ EnqueueDrop
               \/ MainLocks("destroy", "stop") \/ DestroyStop \/ DestroyJoin \/ DestroyRelease

WorkerSteps == WorkerLocks("lock", "head") \/ WorkerLocks("woken", "pop") \/ WorkerHead
                 \/ WorkerWait \/ WorkerPopNothing \/ WorkerPop \/ WorkerOff

WorkerPlays == WorkerDrive \/ WorkerPlayed

Next == Calls \/ MainSteps \/ WorkerSteps \/ WorkerPlays \/ WorkerSpurious \/ Finished

Spec == Init /\ [][Next]_vars

(* Both threads are scheduled.  A pattern may take for ever.               *)
FairSpec == Spec /\ WF_vars(MainSteps) /\ WF_vars(WorkerSteps)

(* usleep returns and the line is driven.                                  *)
PatternsEnd == WF_vars(WorkerPlays)
=============================================================================
