------------------------------ MODULE LedQueue ------------------------------
(***************************************************************************)
(* What led_controller_enqueue promises the packet callback (the comments  *)
(* of gpio_led.c:17,87,245): a first-in first-out queue that drops what it *)
(* has no room for, and that after it is closed plays at most one more     *)
(* pattern.                                                                *)
(***************************************************************************)
EXTENDS Integers, Sequences

CONSTANTS Actions, Capacity

VARIABLES
  status,   \* "new", "open" or "closed"
  pending,  \* actions waiting to be played
  played,   \* actions whose pattern was begun
  late      \* patterns begun after the queue was closed

queueVars == <<status, pending, played, late>>

QueueInit == status = "new" /\ pending = <<>> /\ played = <<>> /\ late = 0

Open ==
  /\ status = "new"
  /\ status' = "open"
  /\ UNCHANGED <<pending, played, late>>

Offer(action) ==
  /\ status = "open"
  /\ Len(pending) < Capacity
  /\ pending' = Append(pending, action)
  /\ UNCHANGED <<status, played, late>>

Play ==
  /\ pending # <<>>
  /\ played' = Append(played, Head(pending))
  /\ pending' = Tail(pending)
  /\ \/ status = "open" /\ UNCHANGED late
     \/ status = "closed" /\ late = 0 /\ late' = 1
  /\ UNCHANGED status

Close ==
  /\ status = "open"
  /\ status' = "closed"
  /\ UNCHANGED <<pending, played, late>>

QueueNext == Open \/ (\E action \in Actions : Offer(action)) \/ Play \/ Close

QueueSpec == QueueInit /\ [][QueueNext]_queueVars
=============================================================================
