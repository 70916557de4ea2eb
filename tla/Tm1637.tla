------------------------------- MODULE Tm1637 -------------------------------
(***************************************************************************)
(* The bit-banged bus of src/src/tm1637.c: the display worker drives two   *)
(* open-drain lines, and every operation on them may fail.  The chip is    *)
(* external; it decodes the lines as the fake bus of                       *)
(* tests/display_synthetic.c does, from their edges alone.                 *)
(***************************************************************************)
EXTENDS Integers, Sequences

CONSTANTS
  Pages,        \* what the worker may show: a type and a number
  Brightness,   \* display->brightness
  MaxWrites,    \* bound: calls of tm1637_write before the display is closed
  MaxFailures   \* bound: bus operations that fail

Byte == 0..255

ASSUME Tm1637Assumption ==
  /\ Pages \subseteq (1..3) \X Nat
  /\ Brightness \in 0..7
  /\ MaxWrites \in Nat /\ MaxFailures \in Nat

VARIABLES
  held,       \* what tm1637_open has acquired and tm1637_close not released
  stage,      \* "open", "idle", "between" transactions, "send", "stop" or "closed"
  plan,       \* transactions still to come in the current call
  frame,      \* bytes of the current transaction
  unsent,     \* those of them not begun
  ops,        \* bus operations of the current byte, start or stop
  ok,         \* start and all bytes of it went well so far
  unstopped,  \* operations of its stop that failed, by their place
  nack,       \* the chip did not acknowledge the current byte
  broken,     \* a write failed: the worker closes the display
  clk, dio,   \* levels of the two lines
  chip,       \* what the chip has decoded since it last saw a start
  writes, failures   \* counters behind the bounds

driver == <<stage, plan, frame, unsent, ops, ok, unstopped, nack, broken>>
Resources == <<"driver", "chip", "clk", "dio">>
bus == <<clk, dio, chip>>
vars == <<held, driver, bus, writes, failures>>

(* A page has the digit of its type and three digits of the number.        *)
Digits == <<63, 6, 91, 79, 102, 109, 125, 7, 127, 111>>
EncodeNumber(type, number) ==
  LET value == IF number > 999 THEN 999 ELSE number
      digit(n) == Digits[(n % 10) + 1]
  IN  <<digit(type), digit(value \div 100), digit(value \div 10), digit(value)>>

(* Data bytes without the decimal point, least significant bit first.      *)
Segments(screen) == [i \in 1..4 |-> screen[i] % 128]
BitMsbFirst(byte, i) == (byte \div 2^(7 - i)) % 2
Bit(byte, i) == (byte \div 2^i) % 2

Clk(value) == [line |-> "clk", value |-> value]
Dio(value) == [line |-> "dio", value |-> value]
Ack == [line |-> "ack", value |-> 0]

Start == <<Dio(1), Clk(1), Dio(0), Clk(0)>>
Stop == <<Clk(0), Dio(0), Clk(1), Dio(1)>>
BitOps(bit) == <<Dio(bit), Clk(1), Clk(0)>>
ByteOps(byte) ==
  [n \in 1..28 |->
     IF n <= 24 THEN BitOps(Bit(byte, (n - 1) \div 3))[((n - 1) % 3) + 1]
     ELSE <<Dio(1), Clk(1), Ack, Clk(0)>>[n - 24]]

DisplayOff == <<128>>
WritePlan(screen) == <<<<64>>, <<192>> \o Segments(screen), <<136 + Brightness>>>>
ClearPlan == Append(WritePlan(<<0, 0, 0, 0>>), DisplayOff)

ChipTypeOK ==
  /\ chip \in [active : BOOLEAN, bits : Seq({0, 1}), taken : Seq(Seq({0, 1})), meant : Seq(Byte)]
  /\ Len(chip.bits) <= 8

TypeOK ==
  /\ held \subseteq {Resources[i] : i \in 1..4}
  /\ stage \in {"open", "idle", "between", "send", "stop", "closed"}
  /\ plan \in Seq(Seq(Byte) \ {<<>>}) /\ frame \in Seq(Byte) /\ unsent \in Seq(Byte)
  /\ ops \in Seq([line : {"clk", "dio", "ack"}, value : {0, 1}])
  /\ ok \in BOOLEAN /\ unstopped \subseteq 1..Len(Stop) /\ nack \in BOOLEAN /\ broken \in BOOLEAN
  /\ clk \in {0, 1} /\ dio \in {0, 1}
  /\ ChipTypeOK
  /\ writes \in 0..MaxWrites /\ failures \in 0..MaxFailures

Init ==
  /\ held = {} /\ stage = "open" /\ plan = <<>> /\ frame = <<>> /\ unsent = <<>> /\ ops = <<>>
  /\ ok = TRUE /\ unstopped = {} /\ nack = FALSE /\ broken = FALSE
  /\ clk = 1 /\ dio = 1
  /\ chip = [active |-> FALSE, bits |-> <<>>, taken |-> <<>>, meant |-> <<>>]
  /\ writes = 0 /\ failures = 0

-----------------------------------------------------------------------------
(* The chip.  A rising clock samples a bit; the ninth one takes the byte.  *)
ChipSeesClk(value) ==
  IF ~(chip.active /\ clk = 0 /\ value = 1) THEN chip
  ELSE IF Len(chip.bits) < 8 THEN [chip EXCEPT !.bits = Append(@, dio)]
  ELSE [chip EXCEPT !.taken = Append(@, chip.bits), !.bits = <<>>]

(* The data line moves under a high clock at a start and at a stop only.   *)
(* meant is history: the frame the driver was sending at the start.        *)
ChipSeesDio(value) ==
  IF clk = 0 \/ dio = value THEN chip
  ELSE IF value = 0
       THEN [active |-> TRUE, bits |-> <<>>, taken |-> <<>>, meant |-> frame]
  ELSE [chip EXCEPT !.active = FALSE]

Drive(op) ==
  IF op.line = "clk"
  THEN clk' = op.value /\ chip' = ChipSeesClk(op.value) /\ UNCHANGED dio
  ELSE dio' = op.value /\ chip' = ChipSeesDio(op.value) /\ UNCHANGED clk

(* A failing operation leaves the line alone, or fails after it moved it.  *)
DriveFails(op) ==
  /\ failures < MaxFailures /\ failures' = failures + 1
  /\ Drive(op) \/ UNCHANGED bus

-----------------------------------------------------------------------------
(* tm1637_open asks for one thing after the other; the lines start high.   *)
Acquire ==
  /\ stage = "open"
  /\ \E i \in 1..4 :
       /\ held = {Resources[j] : j \in 1..(i - 1)}
       /\ held' = held \cup {Resources[i]}
       /\ stage' = IF i = 4 THEN "idle" ELSE "open"
  /\ UNCHANGED <<plan, frame, unsent, ops, ok, unstopped, nack, broken, bus, writes, failures>>

ReleasedButDio(resources) == resources \ {"driver", "chip", "clk"}

(* tm1637_close releases what was acquired, whatever that is.              *)
Released(resources) == resources \ {Resources[i] : i \in 1..4}

(* Whatever is missing, one path gives the rest back.                      *)
OpenFails ==
  /\ stage = "open"
  /\ held' = Released(held)
  /\ stage' = "closed"
  /\ UNCHANGED <<plan, frame, unsent, ops, ok, unstopped, nack, broken, bus, writes, failures>>

(* tm1637_write and tm1637_clear, called by hardware_write and _close.     *)
CallWrite ==
  /\ stage = "idle" /\ ~broken
  /\ writes < MaxWrites /\ writes' = writes + 1
  /\ \E page \in Pages : plan' = WritePlan(EncodeNumber(page[1], page[2]))
  /\ stage' = "between"
  /\ UNCHANGED <<held, frame, unsent, ops, ok, unstopped, nack, broken, bus, failures>>

(* The lines are released once the clear has returned.                     *)
CallClear ==
  /\ stage = "idle"
  /\ plan' = ClearPlan
  /\ stage' = "between"
  /\ UNCHANGED <<held, frame, unsent, ops, ok, unstopped, nack, broken, bus, writes, failures>>

BeginTransaction ==
  /\ stage = "between" /\ plan # <<>>
  /\ frame' = Head(plan) /\ unsent' = Head(plan) /\ plan' = Tail(plan)
  /\ ops' = Start /\ ok' = TRUE /\ unstopped' = {} /\ nack' = FALSE
  /\ stage' = "send"
  /\ UNCHANGED <<held, broken, bus, writes, failures>>

Send ==
  /\ stage = "send" /\ ops # <<>> /\ Head(ops) # Ack
  /\ Drive(Head(ops))
  /\ ops' = Tail(ops)
  /\ UNCHANGED <<held, stage, plan, frame, unsent, ok, unstopped, nack, broken, writes, failures>>

ReadAck ==
  /\ stage = "send" /\ ops # <<>> /\ Head(ops) = Ack
  /\ \/ UNCHANGED <<nack, failures>>
     \/ nack' = TRUE /\ failures < MaxFailures /\ failures' = failures + 1
  /\ ops' = Tail(ops)
  /\ UNCHANGED <<held, stage, plan, frame, unsent, ok, unstopped, broken, bus, writes>>

(* Whatever fails, the transaction goes on with the stop.                  *)
SendFails ==
  /\ stage = "send" /\ ops # <<>> /\ Head(ops) # Ack
  /\ DriveFails(Head(ops))
  /\ ops' = Stop /\ ok' = FALSE
  /\ stage' = "stop"
  /\ UNCHANGED <<held, plan, frame, unsent, unstopped, nack, broken, writes>>

NextByte ==
  /\ stage = "send" /\ ops = <<>>
  /\ IF nack \/ unsent = <<>>
     THEN ops' = Stop /\ ok' = ~nack /\ stage' = "stop" /\ UNCHANGED unsent
     ELSE ops' = ByteOps(Head(unsent)) /\ unsent' = Tail(unsent) /\ UNCHANGED <<ok, stage>>
  /\ UNCHANGED <<held, plan, frame, unstopped, nack, broken, bus, writes, failures>>

StopDrives ==
  /\ stage = "stop" /\ ops # <<>>
  /\ Drive(Head(ops))
  /\ ops' = Tail(ops)
  /\ UNCHANGED <<held, stage, plan, frame, unsent, ok, unstopped, nack, broken, writes, failures>>

AfterStopFailureGivesUp == <<>>
AfterStopFailure == Tail(ops)

(* No short cut: the rest of the stop is still tried.                      *)
StopFails ==
  /\ stage = "stop" /\ ops # <<>>
  /\ DriveFails(Head(ops))
  /\ ops' = AfterStopFailure
  /\ unstopped' = unstopped \cup {Len(Stop) + 1 - Len(ops)}
  /\ UNCHANGED <<held, stage, plan, frame, unsent, ok, nack, broken, writes>>

(* What transaction returns.                                               *)
ResultOfStop == unstopped = {}
Result == unstopped = {} /\ ok

(* A failed transaction ends its tm1637_write; tm1637_clear still sends    *)
(* the command that turns the display off.                                 *)
Remaining ==
  IF Result THEN plan
  ELSE IF plan # <<>> /\ plan[Len(plan)] = DisplayOff THEN <<DisplayOff>>
  ELSE <<>>

EndTransaction ==
  /\ stage = "stop" /\ ops = <<>>
  /\ plan' = Remaining
  /\ broken' = (broken \/ ~Result)
  /\ stage' = "between"
  /\ UNCHANGED <<held, frame, unsent, ops, ok, unstopped, nack, bus, writes, failures>>

Return ==
  /\ stage = "between" /\ plan = <<>>
  /\ IF frame = DisplayOff
     THEN stage' = "closed" /\ held' = Released(held)
     ELSE stage' = "idle" /\ UNCHANGED held
  /\ UNCHANGED <<plan, frame, unsent, ops, ok, unstopped, nack, broken, bus, writes, failures>>

Closed == stage = "closed" /\ UNCHANGED vars

Next ==
  \/ Acquire \/ OpenFails
  \/ CallWrite \/ CallClear \/ BeginTransaction \/ Send \/ ReadAck \/ SendFails
  \/ NextByte \/ StopDrives \/ StopFails \/ EndTransaction \/ Return \/ Closed

Spec == Init /\ [][Next]_vars
=============================================================================
