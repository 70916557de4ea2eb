-------------------------- MODULE Tm1637Properties --------------------------
(* What the chip and the worker may rely on, whatever the bus does.        *)
EXTENDS Tm1637

(* The byte of eight bits, the first to come in being the lowest.          *)
ByteOf(bits) ==
  bits[1] + 2 * bits[2] + 4 * bits[3] + 8 * bits[4]
    + 16 * bits[5] + 32 * bits[6] + 64 * bits[7] + 128 * bits[8]

(* The bytes the chip has taken, each from its bits as they came in.       *)
Taken == [n \in DOMAIN chip.taken |-> ByteOf(chip.taken[n])]

(* They are the first ones of the frame that the driver was sending.       *)
TakenAsMeant ==
  /\ Len(chip.taken) <= Len(chip.meant)
  /\ \A n \in DOMAIN Taken : Taken[n] = chip.meant[n]

Transacted == stage = "between" /\ frame # <<>>

(* A transaction that tm1637.c:88 reports as good has arrived whole.  A    *)
(* byte the chip takes is the one that was sent, in its place and bit by   *)
(* bit, also from transfers that broke off; only a third failed operation  *)
(* can keep the chip from seeing any start or stop and garble a byte.      *)
FrameArrived ==
  /\ Transacted /\ Result => Taken = frame
  /\ failures <= 2 => TakenAsMeant

(* tm1637.c:55: an error does not cut the stop short.  After it each line  *)
(* is high unless raising that very line failed, and the chip has seen     *)
(* the stop unless the stop itself had a failure.  Both lines are driven   *)
(* between their request and their release only, and every end of the      *)
(* display gives back all it acquired.                                     *)
BusReleased ==
  /\ Transacted =>
       /\ 3 \notin unstopped => clk = 1
       /\ 4 \notin unstopped => dio = 1
       /\ unstopped = {} => ~chip.active
  /\ stage \in {"send", "stop"} => {"clk", "dio"} \subseteq held
  /\ stage = "closed" => held = {}

(* No failed operation and no missing acknowledgement is swallowed by the  *)
(* operations that follow it: tm1637_write returns false, on which the     *)
(* worker closes the display, exactly when something failed.               *)
FailureReported == stage = "idle" => (broken <=> failures > 0)
=============================================================================
