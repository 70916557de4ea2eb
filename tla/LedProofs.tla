------------------------------ MODULE LedProofs ------------------------------
(***************************************************************************)
(* Proofs about the LED controller, for every queue capacity, every number *)
(* of enqueue calls and spurious wake-ups, failing drives included.        *)
(***************************************************************************)
EXTENDS LedProperties, SequenceTheorems, TLAPS

(* Who holds the mutex is where the two threads are.                       *)
MutexInv ==
  /\ worker \in {"head", "pop"} <=> mutex = "worker"
  /\ main \in {"store", "stop"} <=> mutex = "main"

(* How far the two threads are apart.                                      *)
PhaseInv ==
  /\ main = "create" => worker = "unborn"
  /\ available <=> worker # "unborn"
  /\ main \in {"enqueue", "store", "destroy", "stop", "join"} => available
  /\ running <=> available /\ main \notin {"join", "release", "freed"}
  /\ worker \in {"off", "done"} => ~running
  /\ main \in {"enqueue", "store"} => offered \in Actions
  /\ main \in {"release", "freed"} => worker \in {"unborn", "done"}

HeldInv ==
  held = IF main = "freed" \/ ~available THEN {}
         ELSE IF main = "release" THEN {"chip", "line"}
         ELSE Resources

(* At most one pattern begins after the stop.                              *)
LateInv ==
  /\ lateStarts \in {0, 1}
  /\ lateStarts = 1 => ~running /\ worker \in {"play", "lock", "head", "off", "done"}

ControlInv ==
  /\ TypeOK
  /\ MutexInv
  /\ PhaseInv
  /\ HeldInv
  /\ NoLostWakeup
  /\ LateInv

(* The ring: tail is count slots after head, and what lies between them is *)
(* what was accepted and not yet played.                                   *)
RingInv ==
  /\ tail = (head + count) % QueueCapacity
  /\ \A i \in 1..count : queue[(head + i - 1) % QueueCapacity] \in Actions
  /\ Len(accepted) = Len(played) + count
  /\ \A i \in 1..Len(played) : accepted[i] = played[i]
  /\ \A i \in 1..count :
       accepted[Len(played) + i] = queue[(head + i - 1) % QueueCapacity]

(* A sum of less than twice a modulus wraps around at most once.           *)
LEMMA WrapOnce ==
  ASSUME NEW C \in Nat \ {0}, NEW sum \in 0..(2 * C - 1)
  PROVE  /\ sum % C = IF sum < C THEN sum ELSE sum - C
         /\ sum % C \in 0..(C - 1)
  <1>1. \A x \in 0..(C - 1) : x % C = x
    OBVIOUS
  <1>2. \A x \in C..(2 * C - 1) : x % C = x - C
    OBVIOUS
  <1>3. CASE sum < C
    <2>1. sum \in 0..(C - 1)
      BY <1>3
    <2> QED BY <1>1, <1>3, <2>1
  <1>4. CASE ~(sum < C)
    <2>1. sum \in C..(2 * C - 1) /\ sum - C \in 0..(C - 1)
      BY <1>4
    <2> QED BY <1>2, <1>4, <2>1
  <1> QED BY <1>3, <1>4

(* An index counted from a slot wraps around at most once.                 *)
LEMMA RingIndex ==
  ASSUME NEW slot \in Slots, NEW i \in 0..QueueCapacity
  PROVE  /\ (slot + i) % QueueCapacity =
               IF slot + i < QueueCapacity THEN slot + i ELSE (slot + i) - QueueCapacity
         /\ (slot + i) % QueueCapacity \in Slots
  <1>1. QueueCapacity \in Nat \ {0} /\ slot + i \in 0..(2 * QueueCapacity - 1)
    BY LedAssumption DEF Slots
  <1> QED BY <1>1, WrapOnce DEF Slots

LEMMA NextSlotInRange == ASSUME NEW slot \in Slots PROVE NextSlot(slot) \in Slots
  BY LedAssumption DEF Slots, NextSlot

LEMMA PatternType == ASSUME NEW action PROVE Pattern(action) \in Seq({0, 1})
  <1>1. <<1, 0>> \in Seq({0, 1}) /\ <<1, 0, 1, 0, 1, 0>> \in Seq({0, 1})
    OBVIOUS
  <1>2. CASE action = "RAPID"
    BY <1>1, <1>2 DEF Pattern
  <1>3. CASE action # "RAPID"
    BY <1>1, <1>3 DEF Pattern
  <1> QED BY <1>2, <1>3

LEMMA ControlInit == Init => ControlInv
  BY LedAssumption
     DEF Init, ControlInv, TypeOK, MutexInv, PhaseInv, HeldInv, LateInv, NoLostWakeup,
         MainStates, WorkerStates, Resources, Slots, Actions

LEMMA ControlStep == ControlInv /\ RingInv /\ [Next]_vars => ControlInv'
  <1> SUFFICES ASSUME ControlInv, RingInv, [Next]_vars PROVE ControlInv'
    OBVIOUS
  <1> USE LedAssumption
      DEF ControlInv, TypeOK, MutexInv, PhaseInv, HeldInv, LateInv, NoLostWakeup,
          MainStates, WorkerStates, Resources, Actions, NoAction,
          mainVars, workerVars, ringVars, lineVars, historyVars
  <1>1. CASE CreateDisabled
    BY <1>1 DEF CreateDisabled
  <1>2. CASE CreateFails
    BY <1>2 DEF CreateFails, Acquired, Cleanup
  <1>3. CASE CreateWorker
    BY <1>3 DEF CreateWorker
  <1>4. CASE EnqueueIgnored
    BY <1>4 DEF EnqueueIgnored
  <1>5. CASE EnqueueCalled
    BY <1>5 DEF EnqueueCalled
  <1>6. CASE MainLocks("enqueue", "store")
    BY <1>6 DEF MainLocks
  <1>7. CASE EnqueueStore
    <2>1. tail' \in Slots /\ queue' \in [Slots -> Actions \cup {NoAction}]
      BY <1>7, NextSlotInRange DEF EnqueueStore
    <2>2. count' \in 0..QueueCapacity
      BY <1>7 DEF EnqueueStore, HasRoom
    <2>3. accepted' \in Seq(Actions)
      BY <1>7 DEF EnqueueStore
    <2> QED BY <1>7, <2>1, <2>2, <2>3 DEF EnqueueStore, Signal
  <1>8. CASE EnqueueDrop
    BY <1>8 DEF EnqueueDrop
  <1>9. CASE WorkerLocks("lock", "head")
    BY <1>9 DEF WorkerLocks
  <1>10. CASE WorkerLocks("woken", "pop")
    BY <1>10 DEF WorkerLocks
  <1>11. CASE WorkerHead
    BY <1>11 DEF WorkerHead
  <1>12. CASE WorkerWait
    BY <1>12 DEF WorkerWait
  <1>13. CASE WorkerSpurious
    BY <1>13 DEF WorkerSpurious
  <1>14. CASE WorkerPopNothing
    BY <1>14 DEF WorkerPopNothing
  <1>15. CASE WorkerPop
    <2>1. head' \in Slots /\ count' \in 0..QueueCapacity
      BY <1>15, NextSlotInRange DEF WorkerPop
    <2>2. queue[head] \in Actions
      <3>1. 1 \in 1..count
        BY <1>15 DEF WorkerPop
      <3>2. head + 1 - 1 = head + 0 /\ head + 0 = head /\ head < QueueCapacity
        BY DEF Slots
      <3>3. (head + 0) % QueueCapacity = head
        BY <3>2, RingIndex
      <3> QED BY <3>1, <3>2, <3>3 DEF RingInv
    <2>3. script' \in Seq({0, 1}) /\ played' \in Seq(Actions)
      BY <1>15, <2>2, PatternType DEF WorkerPop
    <2> QED BY <1>15, <2>1, <2>3 DEF WorkerPop, MutexWhilePlaying
  <1>16. CASE WorkerDrive
    BY <1>16 DEF WorkerDrive, Drive
  <1>17. CASE WorkerPlayed
    BY <1>17 DEF WorkerPlayed
  <1>18. CASE WorkerOff
    BY <1>18 DEF WorkerOff, Drive
  <1>19. CASE DestroyCalled
    BY <1>19 DEF DestroyCalled
  <1>20. CASE MainLocks("destroy", "stop")
    BY <1>20 DEF MainLocks
  <1>21. CASE DestroyStop
    BY <1>21 DEF DestroyStop, Signal
  <1>22. CASE DestroyJoin
    BY <1>22 DEF DestroyJoin, Joined
  <1>23. CASE DestroyRelease
    BY <1>23 DEF DestroyRelease, Drive
  <1>24. CASE UNCHANGED vars
    BY <1>24 DEF vars
  <1> QED
    BY <1>1, <1>2, <1>3, <1>4, <1>5, <1>6, <1>7, <1>8, <1>9, <1>10, <1>11, <1>12,
       <1>13, <1>14, <1>15, <1>16, <1>17, <1>18, <1>19, <1>20, <1>21, <1>22, <1>23, <1>24
       DEF Next, Calls, MainSteps, WorkerSteps, WorkerPlays, Finished

-----------------------------------------------------------------------------
LEMMA RingInit == Init => RingInv
  BY LedAssumption DEF Init, RingInv

LEMMA RingStored ==
  ASSUME ControlInv, RingInv, EnqueueStore
  PROVE  RingInv'
  <1> DEFINE slot(i) == (head + i) % QueueCapacity
  <1> USE LedAssumption
  <1>1. /\ count \in Nat /\ count < QueueCapacity /\ head \in Slots
        /\ queue \in [Slots -> Actions \cup {NoAction}] /\ offered \in Actions
        /\ accepted \in Seq(Actions) /\ played \in Seq(Actions)
    BY DEF EnqueueStore, HasRoom, ControlInv, TypeOK, PhaseInv
  <1>2. /\ queue' = [queue EXCEPT ![tail] = offered]
        /\ tail' = NextSlot(tail) /\ count' = count + 1
        /\ accepted' = Append(accepted, offered)
        /\ head' = head /\ played' = played
    BY DEF EnqueueStore
  <1>3. \A i \in 0..QueueCapacity :
          /\ slot(i) = IF head + i < QueueCapacity THEN head + i
                       ELSE (head + i) - QueueCapacity
          /\ slot(i) \in Slots
    BY <1>1, RingIndex
  <1>4. tail = slot(count) /\ tail \in Slots
    BY <1>1, <1>3 DEF RingInv
  <1> DEFINE last == IF head + count < QueueCapacity THEN head + count
                      ELSE (head + count) - QueueCapacity
  <1>20. tail = last
    <2>1. count \in 0..QueueCapacity /\ tail = slot(count)
      BY <1>1, <1>4
    <2> HIDE DEF slot
    <2> QED BY <1>3, <2>1
  <1>5. tail' = slot(count + 1)
    <2>1. NextSlot(tail) = IF tail + 1 < QueueCapacity THEN tail + 1
                           ELSE (tail + 1) - QueueCapacity
      BY <1>4, RingIndex DEF NextSlot
    <2>2. slot(count + 1) = IF head + (count + 1) < QueueCapacity THEN head + (count + 1)
                            ELSE (head + (count + 1)) - QueueCapacity
      BY <1>1, <1>3
    <2> HIDE DEF slot
    <2> QED BY <1>1, <1>2, <1>20, <2>1, <2>2 DEF Slots
  <1>6. \A i \in 1..count : slot(i - 1) # tail
    <2> TAKE i \in 1..count
    <2>1. i - 1 \in 0..(count - 1)
      BY <1>1
    <2>2. slot(i - 1) = IF head + (i - 1) < QueueCapacity THEN head + (i - 1)
                        ELSE (head + (i - 1)) - QueueCapacity
      BY <1>1, <1>3, <2>1
    <2> HIDE DEF slot
    <2> QED BY <1>1, <1>20, <2>1, <2>2 DEF Slots
  <1>7. \A i \in 1..count : head + i - 1 = head + (i - 1)
    BY <1>1 DEF Slots
  <1>8. \A i \in 1..count : queue'[slot(i - 1)] = queue[slot(i - 1)]
    BY <1>1, <1>2, <1>3, <1>6
  <1>9. queue'[slot(count)] = offered
    BY <1>1, <1>2, <1>4
  <1>10. /\ Len(accepted') = Len(accepted) + 1
         /\ accepted'[Len(accepted) + 1] = offered
         /\ \A i \in 1..Len(accepted) : accepted'[i] = accepted[i]
    BY <1>1, <1>2
  <1>11. \A i \in 1..count :
          /\ queue[slot(i - 1)] \in Actions
          /\ accepted[Len(played) + i] = queue[slot(i - 1)]
    BY <1>7 DEF RingInv
  <1>12. Len(played) \in Nat /\ Len(accepted) = Len(played) + count
    BY <1>1 DEF RingInv
  <1> HIDE DEF slot
  <1>13. \A i \in 1..count' :
          /\ queue'[slot(i - 1)] \in Actions
          /\ accepted'[Len(played) + i] = queue'[slot(i - 1)]
    <2> TAKE i \in 1..count'
    <2>1. CASE i = count + 1
      <3>1. slot(i - 1) = slot(count) /\ Len(played) + i = Len(accepted) + 1
        BY <1>1, <1>12, <2>1
      <3> QED BY <1>1, <1>9, <1>10, <3>1
    <2>2. CASE i # count + 1
      <3>1. i \in 1..count
        BY <1>1, <1>2, <2>2
      <3>2. Len(played) + i \in 1..Len(accepted)
        BY <1>1, <1>12, <3>1
      <3> QED BY <1>8, <1>10, <1>11, <3>1, <3>2
    <2> QED BY <2>1, <2>2
  <1>14. \A i \in 1..Len(played) : accepted'[i] = played[i]
    BY <1>1, <1>10, <1>12 DEF RingInv
  <1>15. \A i \in 1..count' : head + i - 1 = head + (i - 1)
    BY <1>1, <1>2 DEF Slots
  <1>16. Len(accepted') = Len(played') + count'
    BY <1>1, <1>2, <1>10, <1>12
  <1>17. \A i \in 1..count' :
          /\ queue'[(head' + i - 1) % QueueCapacity] \in Actions
          /\ accepted'[Len(played') + i] = queue'[(head' + i - 1) % QueueCapacity]
    BY <1>2, <1>13, <1>15 DEF slot
  <1>18. tail' = (head' + count') % QueueCapacity
    BY <1>2, <1>5 DEF slot
  <1>19. \A i \in 1..Len(played') : accepted'[i] = played'[i]
    BY <1>2, <1>14
  <1> QED BY <1>16, <1>17, <1>18, <1>19 DEF RingInv

LEMMA RingPopped ==
  ASSUME ControlInv, RingInv, WorkerPop
  PROVE  RingInv'
  <1> DEFINE slot(i) == (head + i) % QueueCapacity
  <1> USE LedAssumption
  <1>1. /\ count \in 1..QueueCapacity /\ head \in Slots
        /\ accepted \in Seq(Actions) /\ played \in Seq(Actions)
    BY DEF WorkerPop, ControlInv, TypeOK
  <1>2. /\ played' = Append(played, queue[head])
        /\ head' = NextSlot(head) /\ count' = count - 1
        /\ queue' = queue /\ tail' = tail /\ accepted' = accepted
    BY DEF WorkerPop
  <1>3. \A i \in 0..QueueCapacity :
          slot(i) = IF head + i < QueueCapacity THEN head + i
                    ELSE (head + i) - QueueCapacity
    BY <1>1, RingIndex
  <1>4. head' = slot(1) /\ head' \in Slots
    BY <1>1, <1>2, RingIndex DEF NextSlot
  <1>5. \A i \in 0..count' : (head' + i) % QueueCapacity = slot(i + 1)
    <2> TAKE i \in 0..count'
    <2>1. i \in 0..QueueCapacity /\ i + 1 \in 1..QueueCapacity
      BY <1>1, <1>2
    <2>2. (head' + i) % QueueCapacity =
            IF head' + i < QueueCapacity THEN head' + i ELSE (head' + i) - QueueCapacity
      BY <1>4, <2>1, RingIndex
    <2>3. slot(i + 1) = IF head + (i + 1) < QueueCapacity THEN head + (i + 1)
                        ELSE (head + (i + 1)) - QueueCapacity
      BY <1>3, <2>1
    <2>4. head' = IF head + 1 < QueueCapacity THEN head + 1 ELSE (head + 1) - QueueCapacity
      BY <1>1, <1>3, <1>4
    <2> HIDE DEF slot
    <2> QED BY <1>1, <2>1, <2>2, <2>3, <2>4 DEF Slots
  <1>6. slot(0) = head
    BY <1>1, <1>3 DEF Slots
  <1>7. \A i \in 1..count : head + i - 1 = head + (i - 1)
    BY <1>1 DEF Slots
  <1>8. \A i \in 1..count :
          /\ queue[slot(i - 1)] \in Actions
          /\ accepted[Len(played) + i] = queue[slot(i - 1)]
    BY <1>7 DEF RingInv
  <1>9. tail = slot(count)
    BY DEF RingInv
  <1>10. Len(played) \in Nat /\ Len(accepted) = Len(played) + count
    BY <1>1 DEF RingInv
  <1>11. \A i \in 1..Len(played) : accepted[i] = played[i]
    BY DEF RingInv
  <1>12. head' \in Int
    BY <1>4 DEF Slots
  <1> HIDE DEF slot
  <1>13. /\ Len(played') = Len(played) + 1
         /\ played'[Len(played) + 1] = queue[slot(0)]
         /\ \A i \in 1..Len(played) : played'[i] = played[i]
    BY <1>1, <1>2, <1>6
  <1>14. accepted[Len(played) + 1] = queue[slot(0)]
    BY <1>1, <1>8
  <1>15. \A i \in 1..Len(played') : accepted'[i] = played'[i]
    BY <1>2, <1>10, <1>11, <1>13, <1>14
  <1>16. \A i \in 1..count' :
          /\ (head' + i - 1) % QueueCapacity = slot(i)
          /\ queue[slot(i)] \in Actions
          /\ accepted[Len(played') + i] = queue[slot(i)]
    <2> TAKE i \in 1..count'
    <2>1. i - 1 \in 0..count' /\ i + 1 \in 1..count /\ i - 1 + 1 = i /\ i + 1 - 1 = i
      BY <1>1, <1>2
    <2>2. head' + i - 1 = head' + (i - 1)
      BY <1>12, <2>1
    <2>3. (head' + i - 1) % QueueCapacity = slot(i)
      BY <1>5, <2>1, <2>2
    <2>4. Len(played') + i = Len(played) + (i + 1)
      BY <1>10, <1>13, <2>1
    <2> QED BY <1>8, <2>1, <2>3, <2>4
  <1>17. tail' = (head' + count') % QueueCapacity
    BY <1>1, <1>2, <1>5, <1>9
  <1>18. Len(accepted') = Len(played') + count'
    BY <1>1, <1>2, <1>10, <1>13
  <1> QED BY <1>2, <1>15, <1>16, <1>17, <1>18 DEF RingInv

LEMMA RingStep == ControlInv /\ RingInv /\ [Next]_vars => RingInv'
  <1> SUFFICES ASSUME ControlInv, RingInv, [Next]_vars PROVE RingInv'
    OBVIOUS
  <1>1. CASE UNCHANGED <<ringVars, accepted, played>>
    BY <1>1 DEF ringVars, RingInv
  <1>2. CASE EnqueueStore
    BY <1>2, RingStored
  <1>3. CASE WorkerPop
    BY <1>3, RingPopped
  <1>4. CASE Calls
    BY <1>1, <1>4 DEF Calls, CreateDisabled, CreateFails, CreateWorker, EnqueueIgnored,
         EnqueueCalled, DestroyCalled, historyVars
  <1>5. CASE MainSteps
    BY <1>1, <1>2, <1>5 DEF MainSteps, MainLocks, EnqueueDrop, DestroyStop, DestroyJoin,
         DestroyRelease, historyVars
  <1>6. CASE WorkerSteps
    BY <1>1, <1>3, <1>6 DEF WorkerSteps, WorkerLocks, WorkerHead, WorkerWait,
         WorkerPopNothing, WorkerOff, historyVars
  <1>7. CASE WorkerPlays \/ WorkerSpurious
    BY <1>1, <1>7 DEF WorkerPlays, WorkerDrive, WorkerPlayed, WorkerSpurious, historyVars
  <1>8. CASE Finished \/ UNCHANGED vars
    BY <1>1, <1>8 DEF Finished, vars, historyVars
  <1> QED BY <1>4, <1>5, <1>6, <1>7, <1>8 DEF Next

-----------------------------------------------------------------------------
LEMMA InvAlways == Spec => [](ControlInv /\ RingInv)
  BY ControlInit, RingInit, ControlStep, RingStep, PTL DEF Spec

(* What was accepted is exactly what was played followed by the contents   *)
(* of the ring.                                                            *)
LEMMA RingIsFifo == ControlInv /\ RingInv => FifoExact
  <1> SUFFICES ASSUME ControlInv, RingInv PROVE accepted = played \o RingContents
    BY DEF FifoExact
  <1> DEFINE slot(i) == (head + i - 1) % QueueCapacity
             ring == [i \in 1..count |-> queue[slot(i)]]
  <1>1. count \in Nat /\ accepted \in Seq(Actions) /\ played \in Seq(Actions)
    BY LedAssumption DEF ControlInv, TypeOK
  <1>2. \A i \in 1..count : queue[slot(i)] \in Actions
                             /\ accepted[Len(played) + i] = queue[slot(i)]
    BY DEF RingInv
  <1>3. Len(accepted) = Len(played) + count /\ (\A i \in 1..Len(played) : accepted[i] = played[i])
    BY DEF RingInv
  <1> HIDE DEF slot
  <1>4. ring \in Seq(Actions) /\ Len(ring) = count
    BY <1>1, <1>2
  <1>5. \A i \in 1..count : ring[i] = queue[slot(i)]
    OBVIOUS
  <1> HIDE DEF ring
  <1>6. played \o ring \in Seq(Actions) /\ Len(played \o ring) = Len(accepted)
    BY <1>1, <1>3, <1>4
  <1>7. \A i \in 1..Len(accepted) : accepted[i] = (played \o ring)[i]
    <2> TAKE i \in 1..Len(accepted)
    <2>1. CASE i \in 1..Len(played)
      BY <1>1, <1>3, <1>4, <2>1
    <2>2. CASE i \notin 1..Len(played)
      <3>1. i - Len(played) \in 1..count /\ Len(played) + (i - Len(played)) = i
        BY <1>1, <1>3, <2>2
      <3>2. (played \o ring)[i] = ring[i - Len(played)]
        BY <1>1, <1>4, <2>2, <3>1
      <3> QED BY <1>2, <1>5, <3>1, <3>2
    <2> QED BY <2>1, <2>2
  <1>8. accepted = played \o ring
    BY <1>1, <1>6, <1>7, SeqEqual
  <1> QED BY <1>8 DEF ring, slot, RingContents

(* TypeOK holds of every behaviour: in particular the three ring indexes   *)
(* stay within the queue, however many actions are stored and taken.       *)
THEOREM TypeCorrect == Spec => []TypeOK
  BY InvAlways, PTL DEF ControlInv

(* The ring of gpio_led.c never loses, repeats or reorders an action that  *)
(* led_controller_enqueue stored, for any capacity.                        *)
THEOREM FifoExactAlways == Spec => []FifoExact
  BY InvAlways, RingIsFifo, PTL

(* The worker of gpio_led.c never sleeps through work or through the stop. *)
THEOREM NoLostWakeupAlways == Spec => []NoLostWakeup
  BY InvAlways, PTL DEF ControlInv

(* No thread uses the GPIO line, the mutex or the condition variable after *)
(* led_controller_destroy gave it back.                                    *)
THEOREM ResourcesLiveAlways == Spec => []ResourcesLive
  <1>1. ControlInv => ResourcesLive
    BY DEF ControlInv, TypeOK, MutexInv, PhaseInv, HeldInv, ResourcesLive, Resources,
           MainStates, WorkerStates
  <1> QED BY InvAlways, <1>1, PTL

(* Creation failing half way, and destruction, leave nothing acquired.     *)
THEOREM NothingLeakedAlways == Spec => []NothingLeaked
  <1>1. ControlInv => NothingLeaked
    BY DEF ControlInv, HeldInv, NothingLeaked
  <1> QED BY InvAlways, <1>1, PTL

-----------------------------------------------------------------------------
(* The refinement: RingContents is a sequence, storing appends to it and   *)
(* popping takes its head.                                                 *)
RingSeq ==
  /\ RingContents \in Seq(Actions) /\ Len(RingContents) = count
  /\ \A i \in 1..count : RingContents[i] = accepted[Len(played) + i]
  /\ count # 0 => RingContents[1] = queue[head]

LEMMA RingIsSeq == ControlInv /\ RingInv => RingSeq
  <1> SUFFICES ASSUME ControlInv, RingInv PROVE RingSeq
    OBVIOUS
  <1> DEFINE slot(i) == (head + i - 1) % QueueCapacity
  <1>1. count \in Nat
    BY LedAssumption DEF ControlInv, TypeOK
  <1>2. \A i \in 1..count : queue[slot(i)] \in Actions
                             /\ accepted[Len(played) + i] = queue[slot(i)]
    BY DEF RingInv
  <1>3. RingContents = [i \in 1..count |-> queue[slot(i)]]
    BY DEF RingContents
  <1>4. slot(1) = head
    <2>1. head \in Slots /\ head + 1 - 1 = head + 0 /\ head + 0 = head /\ head < QueueCapacity
      BY LedAssumption DEF ControlInv, TypeOK, Slots
    <2>2. (head + 0) % QueueCapacity = head
      BY <2>1, RingIndex, LedAssumption
    <2> QED BY <2>1, <2>2
  <1> HIDE DEF slot
  <1>5. /\ RingContents \in Seq(Actions) /\ Len(RingContents) = count
        /\ \A i \in 1..count : RingContents[i] = accepted[Len(played) + i]
    <2> DEFINE ring == RingContents
    <2>1. ring = [i \in 1..count |-> queue[slot(i)]]
      BY <1>3
    <2> HIDE DEF ring
    <2>2. \A i \in 1..count : ring[i] = queue[slot(i)]
      BY <2>1
    <2>3. ring \in [1..count -> Actions]
      BY <1>2, <2>1
    <2>4. ring \in Seq(Actions) /\ Len(ring) = count
      BY <1>1, <1>2, <2>1, SMT
    <2>5. \A i \in 1..count : ring[i] = accepted[Len(played) + i]
      BY <1>2, <2>2
    <2> QED BY <2>4, <2>5 DEF ring
  <1>6. count # 0 => RingContents[1] = queue[head]
    BY <1>1, <1>3, <1>4
  <1> QED BY <1>5, <1>6 DEF RingSeq

LEMMA StoreAppends ==
  ASSUME ControlInv, RingInv, EnqueueStore, RingSeq, RingSeq'
  PROVE  RingContents' = Append(RingContents, offered)
  <1>1. /\ count \in Nat /\ count' = count + 1 /\ played' = played /\ offered \in Actions
        /\ accepted' = Append(accepted, offered)
        /\ accepted \in Seq(Actions) /\ played \in Seq(Actions)
        /\ Len(accepted) = Len(played) + count
    BY LedAssumption DEF EnqueueStore, ControlInv, TypeOK, PhaseInv, RingInv
  <1> DEFINE ring == RingContents
             stored == RingContents'
  <1>2. /\ ring \in Seq(Actions) /\ Len(ring) = count
        /\ \A i \in 1..count : ring[i] = accepted[Len(played) + i]
    BY DEF RingSeq
  <1>3. /\ stored \in Seq(Actions) /\ Len(stored) = count'
        /\ \A i \in 1..count' : stored[i] = accepted'[Len(played') + i]
    BY DEF RingSeq
  <1> HIDE DEF ring, stored
  <1>4. Append(ring, offered) \in Seq(Actions) /\ Len(Append(ring, offered)) = Len(stored)
    BY <1>1, <1>2, <1>3
  <1>5. \A i \in 1..Len(stored) : stored[i] = Append(ring, offered)[i]
    <2> TAKE i \in 1..Len(stored)
    <2>1. stored[i] = Append(accepted, offered)[Len(played) + i] /\ i \in 1..(count + 1)
      BY <1>1, <1>3
    <2>2. CASE i = count + 1
      <3>1. Len(played) + i = Len(accepted) + 1
        BY <1>1, <2>2
      <3>2. stored[i] = offered
        BY <1>1, <2>1, <3>1
      <3> QED BY <1>2, <2>2, <3>2
    <2>3. CASE i # count + 1
      <3>1. i \in 1..count /\ Len(played) + i \in 1..Len(accepted)
        BY <1>1, <2>1, <2>3
      <3>2. stored[i] = accepted[Len(played) + i]
        BY <1>1, <2>1, <3>1
      <3> QED BY <1>2, <3>1, <3>2
    <2> QED BY <2>2, <2>3
  <1>6. stored = Append(ring, offered)
    BY <1>3, <1>4, <1>5, SeqEqual
  <1> QED BY <1>6 DEF ring, stored

LEMMA PopTakesHead ==
  ASSUME ControlInv, RingInv, WorkerPop, RingSeq, RingSeq'
  PROVE  /\ RingContents # <<>> /\ Head(RingContents) = queue[head]
         /\ RingContents' = Tail(RingContents)
  <1>1. /\ count \in Nat \ {0} /\ count' = count - 1 /\ accepted' = accepted
        /\ played' = Append(played, queue[head])
        /\ accepted \in Seq(Actions) /\ played \in Seq(Actions)
    BY LedAssumption DEF WorkerPop, ControlInv, TypeOK
  <1> DEFINE ring == RingContents
             rest == RingContents'
  <1>2. /\ ring \in Seq(Actions) /\ Len(ring) = count /\ ring[1] = queue[head]
        /\ \A i \in 1..count : ring[i] = accepted[Len(played) + i]
    BY <1>1 DEF RingSeq
  <1>3. /\ rest \in Seq(Actions) /\ Len(rest) = count'
        /\ \A i \in 1..count' : rest[i] = accepted'[Len(played') + i]
    BY DEF RingSeq
  <1> HIDE DEF ring, rest
  <1>4. ring # <<>> /\ Head(ring) = queue[head]
    BY <1>1, <1>2
  <1>5. /\ Tail(ring) \in Seq(Actions) /\ Len(Tail(ring)) = Len(rest)
        /\ \A i \in 1..Len(Tail(ring)) : Tail(ring)[i] = ring[i + 1]
    BY <1>1, <1>2, <1>3, <1>4, HeadTailProperties
  <1>6. Len(played') = Len(played) + 1
    BY <1>1
  <1>7. \A i \in 1..Len(rest) : rest[i] = Tail(ring)[i]
    <2> TAKE i \in 1..Len(rest)
    <2>1. i \in 1..count' /\ i + 1 \in 1..count /\ Len(played') + i = Len(played) + (i + 1)
      BY <1>1, <1>3, <1>6
    <2>2. rest[i] = accepted[Len(played) + (i + 1)]
      <3>1. accepted' = accepted /\ rest[i] = accepted'[Len(played') + i]
        BY <1>1, <1>3, <2>1
      <3> QED BY <2>1, <3>1
    <2>3. ring[i + 1] = accepted[Len(played) + (i + 1)]
      BY <1>2, <2>1
    <2>4. Tail(ring)[i] = ring[i + 1]
      BY <1>5
    <2> QED BY <2>2, <2>3, <2>4
  <1>8. rest = Tail(ring)
    BY <1>3, <1>5, <1>7, SeqEqual
  <1> QED BY <1>4, <1>8 DEF ring, rest

LEMMA QueueStep ==
  ControlInv /\ RingInv /\ RingSeq /\ RingSeq' /\ [Next]_vars
    => [Queue!QueueNext]_(Queue!queueVars)
  <1> SUFFICES ASSUME ControlInv, RingInv, RingSeq, RingSeq', [Next]_vars
               PROVE  [Queue!QueueNext]_(Queue!queueVars)
    OBVIOUS
  <1> USE DEF Queue!QueueNext, Queue!queueVars, Status
  <1>1. CASE /\ UNCHANGED <<ringVars, running, played, lateStarts>>
             /\ worker' = "unborn" <=> worker = "unborn"
    BY <1>1 DEF ringVars, RingContents
  <1>2. CASE CreateWorker
    <2>1. Status = "new" /\ Status' = "open"
      BY <1>2 DEF CreateWorker, ControlInv, PhaseInv
    <2> QED BY <1>2, <2>1
        DEF CreateWorker, Queue!Open, RingContents, ringVars, historyVars
  <1>3. CASE EnqueueStore
    <2>1. Status = "open" /\ Status' = "open" /\ offered \in Actions /\ count < QueueCapacity
      BY <1>3 DEF EnqueueStore, HasRoom, ControlInv, PhaseInv
    <2>2. Len(RingContents) < QueueCapacity /\ RingContents' = Append(RingContents, offered)
      BY <1>3, <2>1, StoreAppends DEF RingSeq
    <2> QED BY <1>3, <2>1, <2>2 DEF EnqueueStore, Queue!Offer
  <1>4. CASE WorkerPop
    <2>1. /\ RingContents # <<>> /\ Head(RingContents) = queue[head]
          /\ RingContents' = Tail(RingContents)
      BY <1>4, PopTakesHead
    <2>2. /\ running => Status = "open" /\ lateStarts' = lateStarts
          /\ ~running => Status = "closed" /\ lateStarts = 0 /\ lateStarts' = 1
          /\ Status' = Status
      BY <1>4 DEF WorkerPop, ControlInv, LateInv
    <2> QED BY <1>4, <2>1, <2>2 DEF WorkerPop, Queue!Play
  <1>5. CASE DestroyStop
    <2>1. /\ running /\ ~running' /\ worker # "unborn" /\ worker' # "unborn"
          /\ UNCHANGED <<ringVars, played, lateStarts>>
      BY <1>5 DEF DestroyStop, Signal, ControlInv, PhaseInv, historyVars
    <2> QED BY <2>1 DEF Queue!Close, RingContents, ringVars
  <1>6. CASE Calls
    BY <1>1, <1>2, <1>6 DEF Calls, CreateDisabled, CreateFails, EnqueueIgnored,
         EnqueueCalled, DestroyCalled, workerVars, historyVars
  <1>7. CASE MainSteps
    BY <1>1, <1>3, <1>5, <1>7 DEF MainSteps, MainLocks, EnqueueDrop, DestroyJoin,
         DestroyRelease, workerVars, historyVars
  <1>8. CASE WorkerSteps
    BY <1>1, <1>4, <1>8 DEF WorkerSteps, WorkerLocks, WorkerHead, WorkerWait,
         WorkerPopNothing, WorkerOff, historyVars
  <1>9. CASE WorkerPlays \/ WorkerSpurious
    BY <1>1, <1>9 DEF WorkerPlays, WorkerDrive, WorkerPlayed, WorkerSpurious, historyVars
  <1>10. CASE Finished \/ UNCHANGED vars
    BY <1>1, <1>10 DEF Finished, vars, workerVars, historyVars
  <1> QED BY <1>6, <1>7, <1>8, <1>9, <1>10 DEF Next

(* The two threads of gpio_led.c implement the first-in first-out queue    *)
(* that drops what does not fit and begins at most one pattern after the   *)
(* stop.                                                                   *)
THEOREM ControllerImplementsQueue == Spec => ImplementsLedQueue
  <1>1. Init => Queue!QueueInit
    BY SMT DEF Init, Queue!QueueInit, Status, RingContents
  <1>2. Spec => [](ControlInv /\ RingInv /\ RingSeq)
    BY InvAlways, RingIsSeq, PTL
  <1> QED BY <1>1, <1>2, QueueStep, PTL DEF Spec, ImplementsLedQueue, Queue!QueueSpec
=============================================================================
