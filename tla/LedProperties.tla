---------------------------- MODULE LedProperties ----------------------------
(* What the two threads of the LED controller keep true together.          *)
EXTENDS LedController

(* The queue, from the oldest action to the newest.                        *)
RingContents == [i \in 1..count |-> queue[(head + i - 1) % QueueCapacity]]

(* Ring indexes, wrap-around and drops never lose, repeat or reorder an    *)
(* action that was stored: what was accepted is what was played followed   *)
(* by what the ring holds.                                                 *)
FifoExact == accepted = played \o RingContents

(* The worker never sleeps while there is something to play or it was told *)
(* to stop: every change of the wait condition signals it (gpio_led.c:251, *)
(* 270), also across spurious wake-ups.                                    *)
NoLostWakeup == worker = "waiting" => count = 0 /\ running

(* Whatever a thread is about to use still exists: the line while the      *)
(* worker may drive it, the mutex and the condition until it has left.     *)
ResourcesLive ==
  /\ worker \notin {"unborn", "done"} => held = Resources /\ main # "freed"
  /\ mutex # "free" => {"mutex", "condition"} \subseteq held

(* Every failure path of led_controller_create and the whole of            *)
(* led_controller_destroy give back all that was acquired.                 *)
NothingLeaked ==
  /\ main = "freed" => held = {}
  /\ main = "idle" /\ ~available => held = {}

(* gpio_led.c:17 "packet capture never sleeps in the callback": an enqueue *)
(* returns even if the pattern being played never ends.                    *)
EnqueueReturns == main = "enqueue" ~> main = "idle"

(* led_controller_destroy ends, whatever was queued and wherever the       *)
(* worker was when it was called.                                          *)
DestroyCompletes == PatternsEnd => (main = "destroy" ~> main = "freed")

(* An accepted action is played, unless the controller is stopped first.   *)
AcceptedIsPlayed ==
  PatternsEnd =>
    \A n \in 1..MaxOffers : Len(accepted) >= n ~> Len(played) >= n \/ ~running

(* The controller implements the lossy queue: at most one pattern begins   *)
(* after the stop, so led_controller_destroy never plays a full queue.     *)
Status == IF running THEN "open" ELSE IF worker = "unborn" THEN "new" ELSE "closed"

Queue == INSTANCE LedQueue WITH
  Capacity <- QueueCapacity, status <- Status, pending <- RingContents,
  late <- lateStarts

ImplementsLedQueue == Queue!QueueSpec
=============================================================================
