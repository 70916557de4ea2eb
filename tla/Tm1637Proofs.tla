---------------------------- MODULE Tm1637Proofs ----------------------------
(***************************************************************************)
(* Proofs about the TM1637 bus, for all pages, all brightnesses and any    *)
(* number of writes and of failing operations.                             *)
(***************************************************************************)
EXTENDS Tm1637Properties, SequenceTheorems, TLAPS

Op == [line : {"clk", "dio", "ack"}, value : {0, 1}]

(* What is left of a program of bus operations.                            *)
Left(rest, program) ==
  /\ Len(rest) <= Len(program)
  /\ \A i \in 1..Len(rest) : rest[i] = program[Len(program) - Len(rest) + i]

Begun == Len(frame) - Len(unsent)

(* Where the driver is in the frame, and in the start, byte or stop.       *)
ShapeInv ==
  /\ stage = "send" =>
       /\ frame # <<>> /\ Len(unsent) <= Len(frame)
       /\ \A i \in 1..Len(unsent) : unsent[i] = frame[Begun + i]
       /\ Begun = 0 => Left(ops, Start) /\ ~nack
       /\ Begun > 0 => Left(ops, ByteOps(frame[Begun]))
  /\ stage = "stop" => Left(ops, Stop) /\ unstopped \subseteq 1..(4 - Len(ops))

(* Every failure is in sight of the result that will be returned.          *)
FailInv ==
  /\ stage = "open" => failures = 0 /\ ~broken
  /\ stage \in {"idle", "between"} => (broken <=> failures > 0)
  /\ stage = "send" => ok /\ unstopped = {} /\ (failures > 0 <=> broken \/ nack)
  /\ stage = "stop" => (failures > 0 <=> broken \/ ~Result)
  /\ stage = "stop" /\ ~ok /\ unstopped # {} => failures > 1

HeldInv ==
  /\ stage \notin {"open", "closed"} => held = {Resources[i] : i \in 1..4}
  /\ stage = "closed" => held = {}
  /\ stage = "open" => frame = <<>>

(* The lines after the first done operations of a stop.                    *)
StopLines(done) ==
  /\ done \in 1..2 /\ 1 \notin unstopped => clk = 0
  /\ done \in 2..3 /\ 2 \notin unstopped => dio = 0
  /\ done \in 3..4 /\ 3 \notin unstopped => clk = 1
  /\ done = 4 /\ 4 \notin unstopped => dio = 1
  /\ done = 4 /\ unstopped = {} => ~chip.active

StopInv ==
  /\ stage = "stop" => StopLines(4 - Len(ops))
  /\ stage \in {"idle", "between"} /\ frame # <<>> => StopLines(4)

(* The chip has taken the first n bytes of the frame.                      *)
Took(n) ==
  /\ Len(chip.taken) = n
  /\ \A j \in 1..n : ByteOf(chip.taken[j]) = frame[j]

(* It has seen the start, and the first n bits of a byte after it.         *)
Follows(byte, n) ==
  /\ chip.active /\ chip.meant = frame
  /\ Len(chip.bits) = n /\ \A i \in 1..n : chip.bits[i] = Bit(byte, i - 1)

(* The chip follows the driver through a start and the bytes after it ...  *)
StartSync(done) ==
  /\ done \in 1..2 => dio = 1
  /\ done \in 2..3 => clk = 1
  /\ done \in 3..4 => dio = 0 /\ Follows(0, 0) /\ Took(0)
  /\ done = 4 => clk = 0

BitsAfter(done) == IF done <= 25 THEN (done + 1) \div 3 ELSE 0

ByteSync(byte, done) ==
  /\ Follows(byte, BitsAfter(done))
  /\ Took(IF done <= 25 THEN Begun - 1 ELSE Begun)
  /\ clk = IF done \in 26..27 \/ (done <= 24 /\ done % 3 = 2) THEN 1 ELSE 0
  /\ done \in 1..24 => dio = Bit(byte, (done - 1) \div 3)
  /\ done >= 25 => dio = 1

(* ... and keeps the frame through a stop without a failure.               *)
SyncInv ==
  /\ stage = "send" /\ Begun = 0 => StartSync(4 - Len(ops))
  /\ stage = "send" /\ Begun > 0 => ByteSync(frame[Begun], 28 - Len(ops))
  /\ stage = "stop" /\ Result => Took(Len(frame)) /\ (Len(ops) > 1 => Len(chip.bits) = 0)
  /\ stage \in {"idle", "between"} /\ frame # <<>> /\ Result => Took(Len(frame))

(* Rising clocks that a chip which missed the end may still see.           *)
Edges == IF clk = 0 \/ (stage = "stop" /\ Len(ops) = 4) THEN 1 ELSE 0

(* So many of them do not make it take a byte that was not meant.          *)
Harmless(edges) ==
  \/ Len(chip.bits) + edges <= 8
  \/ Len(chip.taken) < Len(chip.meant) /\ ByteOf(chip.bits) = chip.meant[Len(chip.taken) + 1]

Few(edges) == Len(chip.bits) + edges <= 1

Adrift == chip.active /\ (stage = "send" => Begun = 0)

AdriftInv ==
  /\ failures <= 2 => TakenAsMeant
  /\ Adrift /\ failures <= 2 => Harmless(Edges)
  /\ Adrift /\ failures <= 1 /\ ~(stage = "stop" /\ ~ok /\ unstopped = {}) => Few(Edges)

IInv ==
  TypeOK /\ ShapeInv /\ FailInv /\ HeldInv /\ StopInv /\ SyncInv /\ AdriftInv

-----------------------------------------------------------------------------
(* Bytes, bits, and the operations they are sent with.                     *)
LEMMA BitType == \A byte \in Byte, i \in 0..7 : Bit(byte, i) \in {0, 1}
BY SMT DEF Byte, Bit

(* Eight bits sent lowest first make the byte again.                       *)
LEMMA ByteOfBits ==
  ASSUME NEW byte \in Byte, NEW bits,
         \A i \in 1..8 : bits[i] = Bit(byte, i - 1)
  PROVE  ByteOf(bits) = byte
<1>1. /\ bits[1] = byte % 2 /\ bits[2] = (byte \div 2) % 2
      /\ bits[3] = (byte \div 4) % 2 /\ bits[4] = (byte \div 8) % 2
      /\ bits[5] = (byte \div 16) % 2 /\ bits[6] = (byte \div 32) % 2
      /\ bits[7] = (byte \div 64) % 2 /\ bits[8] = (byte \div 128) % 2
  BY SMT DEF Bit, Byte
<1>2. byte = (byte % 2) + 2 * ((byte \div 2) % 2) + 4 * ((byte \div 4) % 2)
             + 8 * ((byte \div 8) % 2) + 16 * ((byte \div 16) % 2)
             + 32 * ((byte \div 32) % 2) + 64 * ((byte \div 64) % 2)
             + 128 * ((byte \div 128) % 2)
  BY SMT DEF Byte
<1> QED
  BY <1>1, <1>2 DEF ByteOf

(* Start and stop, operation by operation.                                 *)
LEMMA Programs ==
  /\ Start \in Seq(Op) /\ Len(Start) = 4
  /\ Start[1] = Dio(1) /\ Start[2] = Clk(1) /\ Start[3] = Dio(0) /\ Start[4] = Clk(0)
  /\ Stop \in Seq(Op) /\ Len(Stop) = 4
  /\ Stop[1] = Clk(0) /\ Stop[2] = Dio(0) /\ Stop[3] = Clk(1) /\ Stop[4] = Dio(1)
BY DEF Start, Stop, Op, Clk, Dio

(* A byte, operation by operation: three for each bit, four to             *)
(* acknowledge.                                                            *)
LEMMA ByteProgram ==
  ASSUME NEW byte \in Byte
  PROVE  /\ ByteOps(byte) \in Seq(Op) /\ Len(ByteOps(byte)) = 28
         /\ \A n \in 1..24 :
              ByteOps(byte)[n] = IF n % 3 = 1 THEN Dio(Bit(byte, (n - 1) \div 3))
                                 ELSE IF n % 3 = 2 THEN Clk(1) ELSE Clk(0)
         /\ ByteOps(byte)[25] = Dio(1) /\ ByteOps(byte)[26] = Clk(1)
         /\ ByteOps(byte)[27] = Ack /\ ByteOps(byte)[28] = Clk(0)
<1>1. ASSUME NEW n \in 1..24
      PROVE  /\ ByteOps(byte)[n] = IF n % 3 = 1 THEN Dio(Bit(byte, (n - 1) \div 3))
                                   ELSE IF n % 3 = 2 THEN Clk(1) ELSE Clk(0)
             /\ ByteOps(byte)[n] \in Op
  <2>1. Bit(byte, (n - 1) \div 3) \in {0, 1}
    <3>1. (n - 1) \div 3 \in 0..7
      BY SMT
    <3> QED
      BY <3>1, BitType
  <2>2. ByteOps(byte)[n] = BitOps(Bit(byte, (n - 1) \div 3))[((n - 1) % 3) + 1]
    BY DEF ByteOps
  <2>3. ((n - 1) % 3) + 1 = IF n % 3 = 1 THEN 1 ELSE IF n % 3 = 2 THEN 2 ELSE 3
    BY SMT
  <2>4. ByteOps(byte)[n] = IF n % 3 = 1 THEN Dio(Bit(byte, (n - 1) \div 3))
                           ELSE IF n % 3 = 2 THEN Clk(1) ELSE Clk(0)
    BY <2>2, <2>3 DEF BitOps
  <2> QED
    BY <2>1, <2>4 DEF Op, Clk, Dio
<1>2. /\ ByteOps(byte)[25] = Dio(1) /\ ByteOps(byte)[26] = Clk(1)
      /\ ByteOps(byte)[27] = Ack /\ ByteOps(byte)[28] = Clk(0)
  BY DEF ByteOps
<1>3. \A n \in 25..28 : ByteOps(byte)[n] \in Op
  BY <1>2 DEF Op, Clk, Dio, Ack
<1>4. \A n \in 1..28 : ByteOps(byte)[n] \in Op
  BY <1>1, <1>3
<1>5. ByteOps(byte) \in Seq(Op) /\ Len(ByteOps(byte)) = 28
  BY <1>4 DEF ByteOps
<1> QED
  BY <1>1, <1>2, <1>5

(* The transactions of a write and of a clear are never empty.             *)
LEMMA PlanTypes ==
  /\ ClearPlan \in Seq(Seq(Byte) \ {<<>>})
  /\ \A page \in Pages :
       WritePlan(EncodeNumber(page[1], page[2])) \in Seq(Seq(Byte) \ {<<>>})
<1> DEFINE Screens == [1..4 -> Byte]
           Plans == Seq(Seq(Byte) \ {<<>>})
<1>1. ASSUME NEW screen \in Screens
      PROVE  WritePlan(screen) \in Plans
  <2>1. Segments(screen) \in Seq(Byte) /\ Len(Segments(screen)) = 4
    <3>1. \A i \in 1..4 : screen[i] % 128 \in Byte
      BY SMT DEF Byte
    <3> QED
      BY <3>1 DEF Segments
  <2>2. <<192>> \in Seq(Byte) /\ <<64>> \in Seq(Byte) /\ <<136 + Brightness>> \in Seq(Byte)
    BY Tm1637Assumption DEF Byte
  <2>3. <<192>> \o Segments(screen) \in Seq(Byte) \ {<<>>}
    BY <2>1, <2>2
  <2> QED
    BY <2>2, <2>3 DEF WritePlan
<1>2. <<0, 0, 0, 0>> \in Screens
  BY DEF Byte
<1>3. DisplayOff \in Seq(Byte) \ {<<>>}
  BY DEF DisplayOff, Byte
<1>4. ClearPlan \in Plans
  BY <1>1, <1>2, <1>3 DEF ClearPlan
<1>5. ASSUME NEW type \in 1..3, NEW number \in Nat
      PROVE  EncodeNumber(type, number) \in Screens
  <2>1. \A n \in Nat : (n % 10) + 1 \in 1..10
    BY SMT
  <2>2. \A i \in 1..10 : Digits[i] \in Byte
    BY DEF Digits, Byte
  <2> DEFINE value == IF number > 999 THEN 999 ELSE number
  <2>3. value \in Nat
    OBVIOUS
  <2> HIDE DEF value
  <2>4. value \div 100 \in Nat /\ value \div 10 \in Nat
    BY <2>3, SMT
  <2> DEFINE digit(n) == Digits[(n % 10) + 1]
  <2>5. /\ digit(type) \in Byte /\ digit(value \div 100) \in Byte
        /\ digit(value \div 10) \in Byte /\ digit(value) \in Byte
    BY <2>1, <2>2, <2>3, <2>4
  <2> HIDE DEF digit
  <2>6. <<digit(type), digit(value \div 100), digit(value \div 10), digit(value)>> \in Screens
    BY <2>5
  <2> QED
    BY <2>6 DEF EncodeNumber, value, digit
<1> QED
  BY <1>1, <1>4, <1>5, Tm1637Assumption

-----------------------------------------------------------------------------
(* A bus operation moves one line, and the chip sees the edge if any.      *)
LEMMA DriveClk ==
  ASSUME NEW value \in {0, 1}, Drive(Clk(value))
  PROVE  clk' = value /\ dio' = dio /\ chip' = ChipSeesClk(value)
BY DEF Drive, Clk

(* The same for the data line.                                             *)
LEMMA DriveDio ==
  ASSUME NEW value \in {0, 1}, Drive(Dio(value))
  PROVE  dio' = value /\ clk' = clk /\ chip' = ChipSeesDio(value)
BY DEF Drive, Dio

(* Lines and chip keep their types ...                                     *)
LEMMA DriveType ==
  ASSUME TypeOK, NEW op \in Op, Drive(op)
  PROVE  clk' \in {0, 1} /\ dio' \in {0, 1} /\ ChipTypeOK'
<1> DEFINE Chips == [active : BOOLEAN, bits : Seq({0, 1}), taken : Seq(Seq({0, 1})),
                    meant : Seq(Byte)]
<1> USE DEF ChipTypeOK
<1>1. /\ chip \in Chips /\ Len(chip.bits) <= 8 /\ frame \in Seq(Byte)
      /\ clk \in {0, 1} /\ dio \in {0, 1}
  BY DEF TypeOK
<1>2. op.value \in {0, 1}
  BY DEF Op
<1>3. chip.bits \in Seq({0, 1}) /\ chip.taken \in Seq(Seq({0, 1}))
  BY <1>1
<1>4. CASE op.line = "clk"
  <2>1. clk' = op.value /\ dio' = dio /\ chip' = ChipSeesClk(op.value)
    BY <1>4 DEF Drive
  <2>2. CASE chip' = [chip EXCEPT !.bits = Append(@, dio)] /\ Len(chip.bits) < 8
    <3>1. /\ Append(chip.bits, dio) \in Seq({0, 1})
          /\ Len(Append(chip.bits, dio)) = Len(chip.bits) + 1
      BY <1>1, <1>3
    <3>2. chip' \in Chips /\ chip'.bits = Append(chip.bits, dio)
      BY <1>1, <2>2, <3>1
    <3>3. Len(chip'.bits) <= 8
      BY <1>3, <2>2, <3>1, <3>2
    <3> QED
      BY <1>1, <1>2, <2>1, <3>2, <3>3
  <2>3. CASE chip' = [chip EXCEPT !.taken = Append(@, chip.bits), !.bits = <<>>]
    <3>1. Append(chip.taken, chip.bits) \in Seq(Seq({0, 1})) /\ <<>> \in Seq({0, 1})
      BY <1>3
    <3>2. chip' \in Chips /\ chip'.bits = <<>>
      BY <1>1, <2>3, <3>1
    <3> QED
      BY <1>1, <1>2, <2>1, <3>2
  <2> QED
    BY <1>1, <1>2, <2>1, <2>2, <2>3 DEF ChipSeesClk
<1>5. CASE op.line # "clk"
  <2>1. dio' = op.value /\ clk' = clk /\ chip' = ChipSeesDio(op.value)
    BY <1>5 DEF Drive
  <2>2. [active |-> TRUE, bits |-> <<>>, taken |-> <<>>, meant |-> frame] \in Chips
    BY <1>1
  <2>3. [chip EXCEPT !.active = FALSE] \in Chips
    BY <1>1
  <2>4. CASE chip' = chip
    BY <1>1, <1>2, <2>1, <2>4
  <2>5. CASE chip' = [active |-> TRUE, bits |-> <<>>, taken |-> <<>>, meant |-> frame]
    <3>1. chip' \in Chips /\ chip'.bits = <<>>
      BY <2>2, <2>5
    <3> QED
      BY <1>1, <1>2, <2>1, <3>1
  <2>6. CASE chip' = [chip EXCEPT !.active = FALSE]
    <3>1. chip' \in Chips /\ chip'.bits = chip.bits
      BY <1>1, <2>3, <2>6
    <3> QED
      BY <1>1, <1>2, <2>1, <3>1
  <2> QED
    BY <2>1, <2>4, <2>5, <2>6 DEF ChipSeesDio
<1> QED
  BY <1>4, <1>5

(* ... also when the operation fails.                                      *)
LEMMA FailsType ==
  ASSUME TypeOK, NEW op \in Op, DriveFails(op)
  PROVE  clk' \in {0, 1} /\ dio' \in {0, 1} /\ ChipTypeOK' /\ failures' \in 0..MaxFailures
<1>1. failures' \in 0..MaxFailures
  BY Tm1637Assumption DEF DriveFails, TypeOK
<1>2. CASE Drive(op)
  BY <1>1, <1>2, DriveType
<1>3. CASE UNCHANGED bus
  BY <1>1, <1>3 DEF bus, TypeOK, ChipTypeOK
<1> QED
  BY <1>2, <1>3 DEF DriveFails

(* Doing the first operation that is left leaves the rest.                 *)
LEMMA LeftTail ==
  ASSUME NEW program \in Seq(Op), NEW rest \in Seq(Op), Left(rest, program), rest # <<>>
  PROVE  /\ Head(rest) = program[Len(program) - Len(rest) + 1] /\ Head(rest) \in Op
         /\ Len(rest) \in 1..Len(program)
         /\ Tail(rest) \in Seq(Op) /\ Len(Tail(rest)) = Len(rest) - 1
         /\ Left(Tail(rest), program)
<1>1. Len(rest) \in 1..Len(program) /\ Head(rest) = rest[1] /\ rest[1] \in Op
  BY DEF Left
<1>2. Tail(rest) \in Seq(Op) /\ Len(Tail(rest)) = Len(rest) - 1
  OBVIOUS
<1>3. \A i \in 1..(Len(rest) - 1) : Tail(rest)[i] = rest[i + 1]
  OBVIOUS
<1>4. \A i \in 1..(Len(rest) - 1) :
        Tail(rest)[i] = program[Len(program) - (Len(rest) - 1) + i]
  BY <1>1, <1>3 DEF Left
<1>5. Len(Tail(rest)) <= Len(program)
  BY <1>1, <1>2
<1>6. \A i \in 1..Len(Tail(rest)) :
        Tail(rest)[i] = program[Len(program) - Len(Tail(rest)) + i]
  BY <1>2, <1>4
<1>7. Left(Tail(rest), program)
  BY <1>5, <1>6 DEF Left
<1>8. Head(rest) = program[Len(program) - Len(rest) + 1]
  BY <1>1 DEF Left
<1> QED
  BY <1>1, <1>2, <1>7, <1>8

(* The next operation of a start, of a stop and of a byte.                 *)
LEMMA StartHead ==
  ASSUME NEW rest \in Seq(Op), Left(rest, Start), rest # <<>>
  PROVE  \E n \in 1..4 :
           /\ Len(rest) = n /\ Tail(rest) \in Seq(Op) /\ Len(Tail(rest)) = n - 1
           /\ Left(Tail(rest), Start)
           /\ n = 4 => Head(rest) = Dio(1)
           /\ n = 3 => Head(rest) = Clk(1)
           /\ n = 2 => Head(rest) = Dio(0)
           /\ n = 1 => Head(rest) = Clk(0)
<1>1. /\ Len(rest) \in 1..Len(Start) /\ Len(Tail(rest)) = Len(rest) - 1
      /\ Tail(rest) \in Seq(Op) /\ Left(Tail(rest), Start)
      /\ Head(rest) = Start[Len(Start) - Len(rest) + 1]
  BY Programs, LeftTail
<1>2. PICK n \in 1..4 :
        Len(rest) = n /\ Len(Tail(rest)) = n - 1 /\ Head(rest) = Start[4 - n + 1]
  BY <1>1, Programs
<1> QED
  BY <1>1, <1>2, Programs

(* The next operation of a stop, by how many are left.                     *)
LEMMA StopHead ==
  ASSUME NEW rest \in Seq(Op), Left(rest, Stop), rest # <<>>
  PROVE  \E n \in 1..4 :
           /\ Len(rest) = n /\ Tail(rest) \in Seq(Op) /\ Len(Tail(rest)) = n - 1
           /\ Left(Tail(rest), Stop)
           /\ n = 4 => Head(rest) = Clk(0)
           /\ n = 3 => Head(rest) = Dio(0)
           /\ n = 2 => Head(rest) = Clk(1)
           /\ n = 1 => Head(rest) = Dio(1)
<1>1. /\ Len(rest) \in 1..Len(Stop) /\ Len(Tail(rest)) = Len(rest) - 1
      /\ Tail(rest) \in Seq(Op) /\ Left(Tail(rest), Stop)
      /\ Head(rest) = Stop[Len(Stop) - Len(rest) + 1]
  BY Programs, LeftTail
<1>2. PICK n \in 1..4 :
        Len(rest) = n /\ Len(Tail(rest)) = n - 1 /\ Head(rest) = Stop[4 - n + 1]
  BY <1>1, Programs
<1> QED
  BY <1>1, <1>2, Programs

(* The next operation of a byte, by its place in the byte.                 *)
LEMMA ByteHead ==
  ASSUME NEW byte \in Byte, NEW rest \in Seq(Op), Left(rest, ByteOps(byte)), rest # <<>>
  PROVE  \E n \in 1..28 :
           /\ Len(rest) = 29 - n /\ Tail(rest) \in Seq(Op) /\ Len(Tail(rest)) = 28 - n
           /\ Left(Tail(rest), ByteOps(byte))
           /\ n <= 24 =>
                Head(rest) = IF n % 3 = 1 THEN Dio(Bit(byte, (n - 1) \div 3))
                             ELSE IF n % 3 = 2 THEN Clk(1) ELSE Clk(0)
           /\ n = 25 => Head(rest) = Dio(1)
           /\ n = 26 => Head(rest) = Clk(1)
           /\ n = 27 => Head(rest) = Ack
           /\ n = 28 => Head(rest) = Clk(0)
<1>1. /\ Len(rest) \in 1..Len(ByteOps(byte)) /\ Len(Tail(rest)) = Len(rest) - 1
      /\ Tail(rest) \in Seq(Op) /\ Left(Tail(rest), ByteOps(byte))
      /\ Head(rest) = ByteOps(byte)[Len(ByteOps(byte)) - Len(rest) + 1]
  BY ByteProgram, LeftTail
<1>2. Len(ByteOps(byte)) = 28
  BY ByteProgram
<1>3. PICK m \in 1..28 :
        Len(rest) = m /\ Len(Tail(rest)) = m - 1 /\ Head(rest) = ByteOps(byte)[28 - m + 1]
  BY <1>1, <1>2
<1>4. PICK n \in 1..28 : m = 29 - n /\ m - 1 = 28 - n /\ 28 - m + 1 = n
  <2>1. 29 - m \in 1..28 /\ m = 29 - (29 - m) /\ m - 1 = 28 - (29 - m) /\ 28 - m + 1 = 29 - m
    OBVIOUS
  <2> QED
    BY <2>1
<1>5. n <= 24 => n \in 1..24
  OBVIOUS
<1>6. Head(rest) = ByteOps(byte)[n] /\ Len(rest) = 29 - n /\ Len(Tail(rest)) = 28 - n
  BY <1>3, <1>4
<1>7. n <= 24 =>
        Head(rest) = IF n % 3 = 1 THEN Dio(Bit(byte, (n - 1) \div 3))
                     ELSE IF n % 3 = 2 THEN Clk(1) ELSE Clk(0)
  BY <1>5, <1>6, ByteProgram
<1>8. /\ n = 25 => Head(rest) = Dio(1)
      /\ n = 26 => Head(rest) = Clk(1)
      /\ n = 27 => Head(rest) = Ack
      /\ n = 28 => Head(rest) = Clk(0)
  BY <1>6, ByteProgram
<1> WITNESS n \in 1..28
<1> QED
  BY <1>1, <1>6, <1>7, <1>8

(* At the beginning everything is left.                                    *)
LEMMA LeftAll == \A program \in Seq(Op) : Left(program, program)
BY DEF Left

-----------------------------------------------------------------------------
(* The invariant holds before the driver is opened.                        *)
LEMMA InitInv == Init => IInv
<1> SUFFICES ASSUME Init PROVE IInv
  OBVIOUS
<1>1. TypeOK
  <2>1. ChipTypeOK
    BY DEF Init, ChipTypeOK
  <2>2. writes \in 0..MaxWrites /\ failures \in 0..MaxFailures
    BY Tm1637Assumption DEF Init
  <2>3. /\ held \subseteq {Resources[i] : i \in 1..4} /\ unstopped \subseteq 1..Len(Stop)
        /\ plan \in Seq(Seq(Byte) \ {<<>>}) /\ frame \in Seq(Byte) /\ unsent \in Seq(Byte)
        /\ ops \in Seq([line : {"clk", "dio", "ack"}, value : {0, 1}])
    BY DEF Init
  <2> QED
    BY <2>1, <2>2, <2>3 DEF Init, TypeOK
<1>2. ShapeInv /\ FailInv /\ HeldInv
  BY Tm1637Assumption DEF Init, ShapeInv, FailInv, HeldInv
<1>3. StopInv /\ SyncInv
  BY DEF Init, StopInv, SyncInv
<1>4. AdriftInv
  BY DEF Init, AdriftInv, TakenAsMeant, Taken, Adrift
<1> QED
  BY <1>1, <1>2, <1>3, <1>4 DEF IInv

(* Every operation, failing or not, keeps the types.                       *)
LEMMA TypeStep == TypeOK /\ ShapeInv /\ [Next]_vars => TypeOK'
<1> SUFFICES ASSUME TypeOK, ShapeInv, [Next]_vars PROVE TypeOK'
  OBVIOUS
<1> USE DEF TypeOK
<1>1. ops \in Seq(Op) /\ plan \in Seq(Seq(Byte) \ {<<>>}) /\ unsent \in Seq(Byte)
  BY DEF Op
<1>2. Stop \in Seq(Op) /\ Start \in Seq(Op) /\ Len(Stop) = 4
  BY Programs
<1>0. chip' = chip => ChipTypeOK'
  BY DEF ChipTypeOK
<1>3. ASSUME ops # <<>> PROVE Head(ops) \in Op /\ Tail(ops) \in Seq(Op)
  BY <1>1, <1>3
<1>4. CASE Acquire
  BY <1>0, <1>4 DEF Acquire, bus
<1>5. CASE OpenFails
  BY <1>0, <1>5 DEF OpenFails, Released, bus
<1>6. CASE CallWrite
  BY <1>0, <1>6, PlanTypes, Tm1637Assumption DEF CallWrite, bus
<1>7. CASE CallClear
  BY <1>0, <1>7, PlanTypes DEF CallClear, bus
<1>8. CASE BeginTransaction
  <2>1. Head(plan) \in Seq(Byte) /\ Tail(plan) \in Seq(Seq(Byte) \ {<<>>})
    BY <1>1, <1>8 DEF BeginTransaction
  <2> QED
    BY <1>0, <1>2, <1>8, <2>1 DEF BeginTransaction, bus, Op
<1>9. CASE Send
  <2>1. Head(ops) \in Op /\ Tail(ops) \in Seq(Op) /\ Drive(Head(ops))
    BY <1>3, <1>9 DEF Send
  <2>2. clk' \in {0, 1} /\ dio' \in {0, 1} /\ ChipTypeOK'
    BY <2>1, DriveType
  <2> QED
    BY <1>9, <2>1, <2>2 DEF Send, Op
<1>10. CASE ReadAck
  <2>1. Tail(ops) \in Seq(Op) /\ ops' = Tail(ops)
    BY <1>3, <1>10 DEF ReadAck
  <2>2. MaxFailures \in Nat /\ failures \in 0..MaxFailures
    BY Tm1637Assumption
  <2>3. failures' = failures \/ (failures < MaxFailures /\ failures' = failures + 1)
    BY <1>10 DEF ReadAck
  <2>4. failures' \in 0..MaxFailures
    BY <2>2, <2>3
  <2>5. nack' \in BOOLEAN
    BY <1>10 DEF ReadAck
  <2> QED
    BY <1>0, <1>10, <2>1, <2>4, <2>5 DEF ReadAck, bus, Op
<1>11. CASE SendFails
  <2>1. clk' \in {0, 1} /\ dio' \in {0, 1} /\ ChipTypeOK' /\ failures' \in 0..MaxFailures
    BY <1>3, <1>11, FailsType DEF SendFails
  <2> QED
    BY <1>2, <1>11, <2>1 DEF SendFails, Op
<1>12. CASE NextByte
  <2>1. CASE nack \/ unsent = <<>>
    BY <1>0, <1>2, <1>12, <2>1 DEF NextByte, bus, Op
  <2>2. CASE ~(nack \/ unsent = <<>>)
    <3>1. Head(unsent) \in Byte /\ Tail(unsent) \in Seq(Byte)
      BY <1>1, <2>2
    <3>2. ByteOps(Head(unsent)) \in Seq(Op)
      BY <3>1, ByteProgram
    <3> QED
      BY <1>0, <1>12, <2>2, <3>1, <3>2 DEF NextByte, bus, Op
  <2> QED
    BY <2>1, <2>2
<1>13. CASE StopDrives
  <2>1. Head(ops) \in Op /\ Tail(ops) \in Seq(Op) /\ Drive(Head(ops))
    BY <1>3, <1>13 DEF StopDrives
  <2>2. clk' \in {0, 1} /\ dio' \in {0, 1} /\ ChipTypeOK'
    BY <2>1, DriveType
  <2> QED
    BY <1>13, <2>1, <2>2 DEF StopDrives, Op
<1>14. CASE StopFails
  <2>1. clk' \in {0, 1} /\ dio' \in {0, 1} /\ ChipTypeOK' /\ failures' \in 0..MaxFailures
    BY <1>3, <1>14, FailsType DEF StopFails
  <2>2. Len(ops) \in 1..4
    <3>1. Left(ops, Stop) /\ ops # <<>>
      BY <1>14 DEF StopFails, ShapeInv
    <3> QED
      BY <1>1, <3>1, StopHead
  <2>3. unstopped' \subseteq 1..Len(Stop)
    <3>1. PICK n \in 1..4 : Len(ops) = n
      BY <2>2
    <3>2. Len(Stop) + 1 - Len(ops) \in 1..4
      BY <1>2, <3>1
    <3> QED
      BY <1>2, <1>14, <3>2 DEF StopFails
  <2> QED
    BY <1>3, <1>14, <2>1, <2>3 DEF StopFails, AfterStopFailure, Op
<1>15. CASE EndTransaction
  <2>1. <<DisplayOff>> \in Seq(Seq(Byte) \ {<<>>}) /\ <<>> \in Seq(Seq(Byte) \ {<<>>})
    BY DEF DisplayOff, Byte
  <2>2. Remaining \in Seq(Seq(Byte) \ {<<>>})
    BY <1>1, <2>1 DEF Remaining
  <2> QED
    BY <1>0, <1>15, <2>2 DEF EndTransaction, bus, Result
<1>16. CASE Return
  BY <1>0, <1>16 DEF Return, Released, bus
<1>17. CASE Closed \/ UNCHANGED vars
  BY <1>0, <1>17 DEF Closed, vars, driver, bus
<1> QED
  BY <1>4, <1>5, <1>6, <1>7, <1>8, <1>9, <1>10, <1>11, <1>12, <1>13, <1>14, <1>15, <1>16,
     <1>17 DEF Next

(* How many bytes of the frame the driver has begun.                       *)
LEMMA BegunType ==
  TypeOK /\ ShapeInv /\ stage = "send" =>
    /\ Begun = 0 \/ Begun > 0
    /\ Begun \in 0..Len(frame)
    /\ Begun > 0 => Begun \in 1..Len(frame) /\ frame[Begun] \in Byte
<1> SUFFICES ASSUME TypeOK, ShapeInv, stage = "send"
             PROVE  /\ Begun = 0 \/ Begun > 0
                    /\ Begun \in 0..Len(frame)
                    /\ Begun > 0 => Begun \in 1..Len(frame) /\ frame[Begun] \in Byte
  OBVIOUS
<1>1. frame \in Seq(Byte) /\ unsent \in Seq(Byte) /\ Len(unsent) <= Len(frame)
  BY DEF TypeOK, ShapeInv
<1>2. Len(frame) \in Nat /\ Len(unsent) \in Nat
  BY <1>1
<1>3. \A m, n \in Nat : n <= m =>
        m - n \in 0..m /\ (m - n = 0 \/ m - n > 0) /\ (m - n > 0 => m - n \in 1..m)
  OBVIOUS
<1>4. /\ Begun = 0 \/ Begun > 0
      /\ Begun \in 0..Len(frame)
      /\ Begun > 0 => Begun \in 1..Len(frame)
  BY <1>1, <1>2, <1>3 DEF Begun
<1> QED
  BY <1>1, <1>4

(* Where the driver is.                                                    *)
LEMMA ShapeStep == TypeOK /\ ShapeInv /\ FailInv /\ [Next]_vars => ShapeInv'
<1> SUFFICES ASSUME TypeOK, ShapeInv, FailInv, [Next]_vars PROVE ShapeInv'
  OBVIOUS
<1>1. /\ ops \in Seq(Op) /\ plan \in Seq(Seq(Byte) \ {<<>>}) /\ unsent \in Seq(Byte)
      /\ frame \in Seq(Byte)
  BY DEF TypeOK, Op
<1>2. Stop \in Seq(Op) /\ Start \in Seq(Op) /\ Len(Stop) = 4 /\ Len(Start) = 4
  BY Programs
<1>3. CASE stage' \notin {"send", "stop"}
  BY <1>3 DEF ShapeInv
<1>4. CASE BeginTransaction
  <2>1. Head(plan) \in Seq(Byte) \ {<<>>}
    BY <1>1, <1>4 DEF BeginTransaction
  <2>2. Left(ops', Start)
    BY <1>2, <1>4, LeftAll DEF BeginTransaction
  <2>3. /\ stage' = "send" /\ frame' = Head(plan) /\ unsent' = Head(plan) /\ nack' = FALSE
    BY <1>4 DEF BeginTransaction
  <2>4. Begun' = 0
    BY <2>1, <2>3 DEF Begun
  <2>5. \A i \in 1..Len(unsent') : unsent'[i] = frame'[Begun' + i]
    BY <2>1, <2>3, <2>4
  <2> QED
    BY <2>1, <2>2, <2>3, <2>4, <2>5 DEF ShapeInv
<1>5. CASE Send \/ ReadAck
  <2>1. stage = "send" /\ stage' = "send" /\ ops # <<>> /\ ops' = Tail(ops)
    BY <1>5 DEF Send, ReadAck
  <2>2. frame' = frame /\ unsent' = unsent /\ Begun' = Begun
    BY <1>5 DEF Send, ReadAck, Begun
  <2>3. Begun \in Nat /\ (Begun > 0 => Begun \in 1..Len(frame) /\ frame[Begun] \in Byte)
    BY <1>1, <2>1 DEF Begun, ShapeInv
  <2>4. CASE Begun = 0
    <3>1. Left(ops, Start) /\ ~nack
      BY <2>1, <2>4 DEF ShapeInv
    <3>2. Head(ops) \in {Dio(1), Clk(1), Dio(0), Clk(0)} /\ Left(ops', Start)
      BY <1>1, <2>1, <3>1, StartHead
    <3>3. Head(ops) # Ack
      BY <3>2 DEF Clk, Dio, Ack
    <3>4. nack' = nack
      BY <1>5, <3>3 DEF Send, ReadAck
    <3> QED
      BY <2>1, <2>2, <2>4, <3>1, <3>2, <3>4 DEF ShapeInv
  <2>5. CASE Begun > 0
    <3>1. Left(ops', ByteOps(frame[Begun]))
      BY <1>1, <2>1, <2>3, <2>5, ByteHead DEF ShapeInv
    <3> QED
      BY <2>1, <2>2, <2>5, <3>1 DEF ShapeInv
  <2> QED
    BY <2>3, <2>4, <2>5
<1>6. CASE SendFails
  BY <1>2, <1>6, LeftAll DEF SendFails, ShapeInv, FailInv
<1>7. CASE NextByte
  <2>1. CASE nack \/ unsent = <<>>
    BY <1>2, <1>7, <2>1, LeftAll DEF NextByte, ShapeInv, FailInv
  <2>2. CASE ~(nack \/ unsent = <<>>)
    <3>1. /\ stage = "send" /\ frame' = frame /\ unsent' = Tail(unsent)
          /\ ops' = ByteOps(Head(unsent))
      BY <1>7, <2>2 DEF NextByte
    <3>2. Len(unsent') = Len(unsent) - 1 /\ Begun' = Begun + 1 /\ Begun \in Nat
      <4>1. Len(Tail(unsent)) = Len(unsent) - 1 /\ Len(unsent) \in Nat /\ Len(frame) \in Nat
        BY <1>1, <2>2
      <4>2. Len(unsent) <= Len(frame)
        BY <3>1 DEF ShapeInv
      <4> DEFINE n == Len(unsent)
                 m == Len(frame)
      <4>3. Begun = m - n /\ Begun' = m - (n - 1)
        BY <3>1, <4>1 DEF Begun
      <4> QED
        BY <3>1, <4>1, <4>2, <4>3
    <3>3. Head(unsent) = frame[Begun'] /\ Head(unsent) \in Byte
      <4>1. Head(unsent) = unsent[1] /\ 1 \in 1..Len(unsent) /\ unsent[1] \in Byte
        BY <1>1, <2>2
      <4>2. unsent[1] = frame[Begun + 1]
        BY <3>1, <4>1 DEF ShapeInv
      <4> QED
        BY <3>2, <4>1, <4>2
    <3>4. \A i \in 1..Len(unsent') : unsent'[i] = frame'[Begun' + i]
      BY <1>1, <2>2, <3>1, <3>2 DEF ShapeInv
    <3>5. Left(ops', ByteOps(frame'[Begun']))
      BY <3>1, <3>3, LeftAll, ByteProgram
    <3> QED
      BY <1>1, <1>7, <2>2, <3>1, <3>2, <3>4, <3>5 DEF ShapeInv, NextByte
  <2> QED
    BY <2>1, <2>2
<1>8. CASE StopDrives
  BY <1>1, <1>2, <1>8, LeftTail DEF StopDrives, ShapeInv
<1>9. CASE StopFails
  BY <1>1, <1>2, <1>9, LeftTail DEF StopFails, ShapeInv, AfterStopFailure
<1>10. CASE Acquire \/ OpenFails \/ CallWrite \/ CallClear \/ EndTransaction \/ Return
  BY <1>3, <1>10 DEF Acquire, OpenFails, CallWrite, CallClear, EndTransaction, Return
<1>11. CASE Closed \/ UNCHANGED vars
  BY <1>11 DEF Closed, vars, driver, ShapeInv, Begun
<1> QED
  BY <1>4, <1>5, <1>6, <1>7, <1>8, <1>9, <1>10, <1>11 DEF Next

(* What the result hides of the failures.                                  *)
LEMMA FailStep == TypeOK /\ ShapeInv /\ FailInv /\ [Next]_vars => FailInv'
<1> SUFFICES ASSUME TypeOK, ShapeInv, FailInv, [Next]_vars PROVE FailInv'
  OBVIOUS
<1>1. failures \in Nat /\ ok \in BOOLEAN /\ nack \in BOOLEAN /\ broken \in BOOLEAN
  BY DEF TypeOK
<1> USE DEF FailInv, Result
<1>2. CASE Acquire \/ OpenFails
  BY <1>1, <1>2 DEF Acquire, OpenFails
<1>3. CASE CallWrite \/ CallClear
  BY <1>3 DEF CallWrite, CallClear
<1>4. CASE BeginTransaction
  BY <1>4 DEF BeginTransaction
<1>5. CASE Send
  BY <1>5 DEF Send
<1>6. CASE ReadAck
  BY <1>1, <1>6 DEF ReadAck
<1>7. CASE SendFails
  <2>1. failures' = failures + 1 /\ failures' > 0
    BY <1>1, <1>7 DEF SendFails, DriveFails
  <2> QED
    BY <1>7, <2>1 DEF SendFails
<1>8. CASE NextByte
  BY <1>1, <1>8 DEF NextByte
<1>9. CASE StopDrives
  BY <1>9 DEF StopDrives
<1>10. CASE StopFails
  <2>1. failures' = failures + 1 /\ failures' > 0 /\ (failures > 0 => failures' > 1)
    BY <1>1, <1>10 DEF StopFails, DriveFails
  <2>2. unstopped' # {} /\ ok' = ok /\ broken' = broken /\ stage = "stop" /\ stage' = "stop"
    BY <1>10 DEF StopFails
  <2> QED
    BY <2>1, <2>2
<1>11. CASE EndTransaction
  BY <1>1, <1>11 DEF EndTransaction
<1>12. CASE Return
  BY <1>12 DEF Return
<1>13. CASE Closed \/ UNCHANGED vars
  BY <1>13 DEF Closed, vars, driver
<1> QED
  BY <1>2, <1>3, <1>4, <1>5, <1>6, <1>7, <1>8, <1>9, <1>10, <1>11, <1>12, <1>13 DEF Next

(* What is acquired stays so until the driver closes.                      *)
LEMMA HeldStep == TypeOK /\ HeldInv /\ [Next]_vars => HeldInv'
<1> SUFFICES ASSUME TypeOK, HeldInv, [Next]_vars PROVE HeldInv'
  OBVIOUS
<1> USE DEF HeldInv
<1>1. CASE Acquire
  <2>1. PICK i \in 1..4 :
          /\ held = {Resources[j] : j \in 1..(i - 1)}
          /\ held' = held \cup {Resources[i]}
          /\ stage' = IF i = 4 THEN "idle" ELSE "open"
          /\ stage = "open" /\ frame' = frame
    BY <1>1 DEF Acquire
  <2>2. CASE i = 4
    BY <2>1, <2>2
  <2>3. CASE i # 4
    BY <2>1, <2>3
  <2> QED
    BY <2>2, <2>3
<1>2. CASE OpenFails \/ Return
  <2>1. Released(held) = {}
    BY DEF Released, TypeOK
  <2> QED
    BY <1>2, <2>1 DEF OpenFails, Return
<1>3. CASE CallWrite \/ CallClear \/ BeginTransaction \/ Send \/ ReadAck \/ SendFails
  BY <1>3 DEF CallWrite, CallClear, BeginTransaction, Send, ReadAck, SendFails
<1>4. CASE NextByte
  <2>1. stage = "send" /\ stage' \in {"send", "stop"} /\ held' = held
    BY <1>4 DEF NextByte
  <2> QED
    BY <2>1
<1>5. CASE StopDrives \/ StopFails \/ EndTransaction
  BY <1>5 DEF StopDrives, StopFails, EndTransaction
<1>6. CASE Closed \/ UNCHANGED vars
  BY <1>6 DEF Closed, vars, driver
<1> QED
  BY <1>1, <1>2, <1>3, <1>4, <1>5, <1>6 DEF Next

(* An operation that fails has moved its line or not.                      *)
LEMMA FailsClk ==
  ASSUME NEW value \in {0, 1}, DriveFails(Clk(value))
  PROVE  /\ clk' \in {clk, value} /\ dio' = dio /\ failures' = failures + 1
         /\ (clk' = value /\ chip' = ChipSeesClk(value)) \/ (clk' = clk /\ chip' = chip)
BY DriveClk DEF DriveFails, bus

(* A failing operation on the data line has its effect or none.            *)
LEMMA FailsDio ==
  ASSUME NEW value \in {0, 1}, DriveFails(Dio(value))
  PROVE  /\ dio' \in {dio, value} /\ clk' = clk /\ failures' = failures + 1
         /\ (dio' = value /\ chip' = ChipSeesDio(value)) \/ (dio' = dio /\ chip' = chip)
BY DriveDio DEF DriveFails, bus

(* The lines through a stop.                                               *)
LEMMA StopStep == TypeOK /\ ShapeInv /\ HeldInv /\ StopInv /\ [Next]_vars => StopInv'
<1> SUFFICES ASSUME TypeOK, ShapeInv, HeldInv, StopInv, [Next]_vars PROVE StopInv'
  OBVIOUS
<1>1. ops \in Seq(Op)
  BY DEF TypeOK, Op
<1>2. ASSUME ops' = Stop, stage' = "stop" PROVE StopInv'
  <2>1. 4 - Len(ops') = 0
    BY <1>2, Programs
  <2>2. StopLines(0)'
    BY DEF StopLines
  <2> QED
    BY <1>2, <2>1, <2>2 DEF StopInv
<1>3. CASE StopDrives
  <2>1. stage = "stop" /\ stage' = "stop" /\ ops # <<>> /\ ops' = Tail(ops) /\ Drive(Head(ops))
        /\ unstopped' = unstopped
    BY <1>3 DEF StopDrives
  <2>2. Left(ops, Stop) /\ unstopped \subseteq 1..(4 - Len(ops)) /\ StopLines(4 - Len(ops))
    BY <2>1 DEF ShapeInv, StopInv
  <2>3. PICK n \in 1..4 :
          /\ Len(ops) = n /\ Len(Tail(ops)) = n - 1
          /\ n = 4 => Head(ops) = Clk(0)
          /\ n = 3 => Head(ops) = Dio(0)
          /\ n = 2 => Head(ops) = Clk(1)
          /\ n = 1 => Head(ops) = Dio(1)
    BY <1>1, <2>1, <2>2, StopHead
  <2>4. StopLines(4 - n) /\ unstopped \subseteq 1..(4 - n)
    BY <2>2, <2>3
  <2>5. StopLines(4 - (n - 1))'
    <3>1. CASE n = 4
      BY <2>1, <2>3, <3>1, DriveClk DEF StopLines
    <3>2. CASE n = 3
      BY <2>1, <2>3, <2>4, <3>2, DriveDio DEF StopLines
    <3>3. CASE n = 2
      BY <2>1, <2>3, <2>4, <3>3, DriveClk DEF StopLines
    <3>4. CASE n = 1
      <4>1. dio' = 1 /\ clk' = clk /\ chip' = ChipSeesDio(1)
        BY <2>1, <2>3, <3>4, DriveDio
      <4>2. unstopped = {} => clk = 1 /\ dio = 0
        BY <2>4, <3>4 DEF StopLines
      <4>3. unstopped = {} => chip' = [chip EXCEPT !.active = FALSE]
        BY <4>1, <4>2 DEF ChipSeesDio
      <4>4. unstopped = {} => ~chip'.active
        BY <4>3 DEF TypeOK, ChipTypeOK
      <4> QED
        BY <2>1, <2>4, <3>4, <4>1, <4>4 DEF StopLines
    <3> QED
      BY <3>1, <3>2, <3>3, <3>4
  <2> QED
    BY <2>1, <2>3, <2>5 DEF StopInv
<1>4. CASE StopFails
  <2>1. stage = "stop" /\ stage' = "stop" /\ ops # <<>> /\ ops' = Tail(ops)
        /\ DriveFails(Head(ops)) /\ unstopped' = unstopped \cup {Len(Stop) + 1 - Len(ops)}
    BY <1>4 DEF StopFails, AfterStopFailure
  <2>2. Left(ops, Stop) /\ unstopped \subseteq 1..(4 - Len(ops)) /\ StopLines(4 - Len(ops))
    BY <2>1 DEF ShapeInv, StopInv
  <2>3. PICK n \in 1..4 :
          /\ Len(ops) = n /\ Len(Tail(ops)) = n - 1
          /\ n = 4 => Head(ops) = Clk(0)
          /\ n = 3 => Head(ops) = Dio(0)
          /\ n = 2 => Head(ops) = Clk(1)
          /\ n = 1 => Head(ops) = Dio(1)
    BY <1>1, <2>1, <2>2, StopHead
  <2>4. StopLines(4 - n) /\ unstopped' = unstopped \cup {5 - n}
    BY <2>1, <2>2, <2>3, Programs
  <2>5. StopLines(4 - (n - 1))'
    <3>1. CASE n = 4
      BY <2>4, <3>1 DEF StopLines
    <3>2. CASE n = 3
      <4>1. DriveFails(Dio(0))
        BY <2>1, <2>3, <3>2
      <4>2. clk' = clk
        BY <4>1, FailsDio
      <4>3. 2 \in unstopped' /\ (1 \notin unstopped' => 1 \notin unstopped)
        BY <2>4, <3>2
      <4> QED
        BY <2>4, <3>2, <4>2, <4>3 DEF StopLines
    <3>3. CASE n = 2
      <4>1. DriveFails(Clk(1))
        BY <2>1, <2>3, <3>3
      <4>2. dio' = dio
        BY <4>1, FailsClk
      <4>3. 3 \in unstopped' /\ (2 \notin unstopped' => 2 \notin unstopped)
        BY <2>4, <3>3
      <4> QED
        BY <2>4, <3>3, <4>2, <4>3 DEF StopLines
    <3>4. CASE n = 1
      <4>1. DriveFails(Dio(1))
        BY <2>1, <2>3, <3>4
      <4>2. clk' = clk
        BY <4>1, FailsDio
      <4>3. 4 \in unstopped' /\ (3 \notin unstopped' => 3 \notin unstopped)
        BY <2>4, <3>4
      <4> QED
        BY <2>4, <3>4, <4>2, <4>3 DEF StopLines
    <3> QED
      BY <3>1, <3>2, <3>3, <3>4
  <2> QED
    BY <2>1, <2>3, <2>5 DEF StopInv
<1>5. CASE EndTransaction
  <2>1. stage = "stop" /\ Len(ops) = 0 /\ stage' = "between" /\ UNCHANGED <<bus, unstopped>>
    BY <1>5 DEF EndTransaction
  <2>2. StopLines(4)
    BY <2>1 DEF StopInv
  <2> QED
    BY <2>1, <2>2 DEF StopInv, StopLines, bus
<1>6. CASE CallWrite \/ CallClear \/ Return
  BY <1>6 DEF CallWrite, CallClear, Return, StopInv, StopLines, bus
<1>7. CASE BeginTransaction \/ Send \/ ReadAck
  BY <1>7 DEF BeginTransaction, Send, ReadAck, StopInv
<1>8. CASE SendFails
  BY <1>2, <1>8 DEF SendFails
<1>9. CASE NextByte
  BY <1>2, <1>9 DEF NextByte, StopInv
<1>10. CASE Acquire \/ OpenFails
  BY <1>10 DEF Acquire, OpenFails, StopInv, HeldInv
<1>11. CASE Closed \/ UNCHANGED vars
  BY <1>11 DEF Closed, vars, driver, bus, StopInv, StopLines
<1> QED
  BY <1>3, <1>4, <1>5, <1>6, <1>7, <1>8, <1>9, <1>10, <1>11 DEF Next

-----------------------------------------------------------------------------
(* The chip's answer to an edge, seen by what it has decoded.              *)
LEMMA ChipParts ==
  ASSUME TypeOK
  PROVE  /\ chip.bits \in Seq({0, 1}) /\ chip.taken \in Seq(Seq({0, 1})) /\ Len(chip.bits) \in 0..8
         /\ chip.meant \in Seq(Byte) /\ chip.active \in BOOLEAN
<1>1. /\ chip.bits \in Seq({0, 1}) /\ chip.taken \in Seq(Seq({0, 1}))
      /\ chip.meant \in Seq(Byte) /\ chip.active \in BOOLEAN
  BY DEF TypeOK, ChipTypeOK
<1>2. Len(chip.bits) \in Nat /\ Len(chip.bits) <= 8
  BY <1>1 DEF TypeOK, ChipTypeOK
<1>3. \A m \in Nat : m <= 8 => m \in 0..8
  OBVIOUS
<1>4. Len(chip.bits) \in 0..8
  BY <1>2, <1>3, Zenon
<1> QED
  BY <1>1, <1>4

(* What the chip makes of a rising clock: one of the first eight bits ...  *)
LEMMA ChipSamples ==
  ASSUME TypeOK, chip.active, clk = 0, Len(chip.bits) < 8, chip' = ChipSeesClk(1)
  PROVE  /\ chip'.bits = Append(chip.bits, dio) /\ chip'.taken = chip.taken
         /\ chip'.meant = chip.meant /\ chip'.active
BY DEF TypeOK, ChipTypeOK, ChipSeesClk

(* ... or the ninth, with which it takes the byte.                         *)
LEMMA ChipTakes ==
  ASSUME TypeOK, chip.active, clk = 0, Len(chip.bits) = 8, chip' = ChipSeesClk(1)
  PROVE  /\ chip'.bits = <<>> /\ chip'.taken = Append(chip.taken, chip.bits)
         /\ chip'.meant = chip.meant /\ chip'.active
BY DEF TypeOK, ChipTypeOK, ChipSeesClk

(* It does not notice anything else.                                       *)
LEMMA ChipRests ==
  ASSUME TypeOK, NEW value \in {0, 1},
         \/ chip' = ChipSeesClk(value) /\ (value = 0 \/ clk = 1 \/ ~chip.active)
         \/ chip' = ChipSeesDio(value) /\ (clk = 0 \/ dio = value)
  PROVE  chip' = chip
BY DEF TypeOK, ChipSeesClk, ChipSeesDio

(* A falling data line under a high clock is a start.                      *)
LEMMA ChipStarts ==
  ASSUME clk = 1, dio = 1, chip' = ChipSeesDio(0)
  PROVE  /\ chip'.active /\ chip'.bits = <<>> /\ chip'.taken = <<>>
         /\ chip'.meant = frame
BY DEF ChipSeesDio

(* A rising one is a stop.                                                 *)
LEMMA ChipStops ==
  ASSUME TypeOK, clk = 1, dio = 0, chip' = ChipSeesDio(1)
  PROVE  /\ ~chip'.active /\ chip'.bits = chip.bits /\ chip'.taken = chip.taken
         /\ chip'.meant = chip.meant
BY DEF TypeOK, ChipTypeOK, ChipSeesDio

(* One operation of a start.                                               *)
LEMMA StartFollowed ==
  ASSUME TypeOK, NEW n \in 1..4, StartSync(4 - n), frame' = frame,
         n = 4 => Drive(Dio(1)), n = 3 => Drive(Clk(1)),
         n = 2 => Drive(Dio(0)), n = 1 => Drive(Clk(0))
  PROVE  StartSync(5 - n)'
<1>1. CASE n = 4
  BY <1>1, DriveDio DEF StartSync
<1>2. CASE n = 3
  BY <1>2, DriveClk DEF StartSync
<1>3. CASE n = 2
  <2>1. clk = 1 /\ dio = 1 /\ Drive(Dio(0))
    BY <1>3 DEF StartSync
  <2>2. dio' = 0 /\ clk' = clk /\ chip' = ChipSeesDio(0)
    BY <2>1, DriveDio
  <2>3. chip'.active /\ chip'.bits = <<>> /\ chip'.taken = <<>> /\ chip'.meant = frame
    BY <2>1, <2>2, ChipStarts
  <2> QED
    BY <1>3, <2>1, <2>2, <2>3 DEF StartSync, Follows, Took
<1>4. CASE n = 1
  <2>1. clk' = 0 /\ dio' = dio /\ chip' = ChipSeesClk(0)
    BY <1>4, DriveClk
  <2>2. chip' = chip
    BY <2>1, ChipRests
  <2> QED
    BY <1>4, <2>1, <2>2 DEF StartSync, Follows, Took
<1> QED
  BY <1>1, <1>2, <1>3, <1>4

(* The chip takes a byte whose bits it has sampled.                        *)
LEMMA ByteTaken ==
  ASSUME TypeOK, NEW byte \in Byte, Follows(byte, 8), clk = 0, chip' = ChipSeesClk(1),
         NEW k \in Nat, Took(k), frame[k + 1] = byte, frame' = frame
  PROVE  Follows(byte, 0)' /\ Took(k + 1)'
<1>1. /\ chip'.bits = <<>> /\ chip'.taken = Append(chip.taken, chip.bits)
      /\ chip'.meant = chip.meant /\ chip'.active
  BY ChipTakes DEF Follows
<1>2. ByteOf(chip.bits) = byte
  BY ByteOfBits DEF Follows
<1>3. chip.taken \in Seq(Seq({0, 1})) /\ Len(chip.taken) = k
  BY ChipParts DEF Took
<1>4. /\ Len(chip'.taken) = k + 1 /\ chip'.taken[k + 1] = chip.bits
      /\ \A j \in 1..k : chip'.taken[j] = chip.taken[j]
  BY <1>1, <1>3
<1>5. \A j \in 1..(k + 1) : ByteOf(chip'.taken[j]) = frame[j]
  <2> TAKE j \in 1..(k + 1)
  <2>1. CASE j = k + 1
    BY <1>2, <1>4, <2>1
  <2>2. CASE j # k + 1
    <3>1. j \in 1..k
      BY <2>2
    <3> QED
      BY <1>4, <3>1 DEF Took
  <2> QED
    BY <2>1, <2>2
<1> QED
  BY <1>1, <1>4, <1>5 DEF Follows, Took, ByteOf

(* It samples the next one.                                                *)
LEMMA BitSampled ==
  ASSUME TypeOK, NEW byte \in Byte, NEW j \in 0..7, Follows(byte, j), clk = 0,
         dio = Bit(byte, j), chip' = ChipSeesClk(1), frame' = frame
  PROVE  Follows(byte, j + 1)' /\ chip'.taken = chip.taken
<1>1. /\ chip'.bits = Append(chip.bits, dio) /\ chip'.taken = chip.taken
      /\ chip'.meant = chip.meant /\ chip'.active
  BY ChipSamples DEF Follows
<1>2. chip.bits \in Seq({0, 1}) /\ Len(chip.bits) = j /\ dio \in {0, 1}
  BY ChipParts DEF Follows, TypeOK
<1>3. /\ Len(chip'.bits) = j + 1 /\ chip'.bits[j + 1] = Bit(byte, j)
      /\ \A i \in 1..j : chip'.bits[i] = chip.bits[i]
  BY <1>1, <1>2
<1>4. \A i \in 1..(j + 1) : chip'.bits[i] = Bit(byte, i - 1)
  <2> TAKE i \in 1..(j + 1)
  <2>1. CASE i = j + 1
    <3>1. i - 1 = j
      BY <2>1
    <3> QED
      BY <1>3, <2>1, <3>1
  <2>2. CASE i # j + 1
    <3>1. i \in 1..j
      BY <2>2
    <3> QED
      BY <1>3, <3>1 DEF Follows
  <2> QED
    BY <2>1, <2>2
<1> QED
  BY <1>1, <1>3, <1>4 DEF Follows

(* One operation of a byte.                                                *)
LEMMA ByteFollowed ==
  ASSUME TypeOK, NEW byte \in Byte, NEW n \in 1..28, ByteSync(byte, n - 1),
         Begun \in 1..Len(frame), frame[Begun] = byte, frame' = frame, unsent' = unsent,
         n <= 24 /\ n % 3 = 1 => Drive(Dio(Bit(byte, (n - 1) \div 3))),
         n <= 24 /\ n % 3 = 2 => Drive(Clk(1)),
         n <= 24 /\ n % 3 = 0 => Drive(Clk(0)),
         n = 25 => Drive(Dio(1)), n = 26 => Drive(Clk(1)),
         n = 27 => UNCHANGED bus, n = 28 => Drive(Clk(0))
  PROVE  ByteSync(byte, n)'
<1>1. PICK k \in Nat : Begun = k + 1 /\ Begun - 1 = k /\ Begun' = k + 1 /\ Begun' - 1 = k
  <2>1. Begun' = Begun
    BY DEF Begun
  <2>2. Begun - 1 \in Nat /\ Begun = (Begun - 1) + 1
    OBVIOUS
  <2> QED
    BY <2>1, <2>2
<1>2. /\ Follows(byte, BitsAfter(n - 1))
      /\ n <= 26 => Took(k)
      /\ n > 26 => Took(k + 1)
      /\ clk = IF n \in 27..28 \/ (n <= 25 /\ (n - 1) % 3 = 2) THEN 1 ELSE 0
      /\ n \in 2..25 => dio = Bit(byte, (n - 2) \div 3)
      /\ n >= 26 => dio = 1
  BY <1>1 DEF ByteSync
<1>3. ASSUME chip' = chip
      PROVE  \A m \in Nat : (Follows(byte, m) => Follows(byte, m)') /\ (Took(m) => Took(m)')
  BY <1>3 DEF Follows, Took, ByteOf
<1>4. ASSUME n <= 24, Follows(byte, BitsAfter(n))', Took(k)',
              clk' = IF n % 3 = 2 THEN 1 ELSE 0, dio' = Bit(byte, (n - 1) \div 3)
       PROVE  ByteSync(byte, n)'
  BY <1>1, <1>4 DEF ByteSync
<1>5. CASE n <= 24 /\ n % 3 = 1
  <2>1. /\ n \in 1..24 /\ (n - 1) % 3 = 0 /\ BitsAfter(n) = BitsAfter(n - 1) /\ BitsAfter(n) \in Nat
        /\ (n - 1) \div 3 \in 0..7
    BY <1>5, SMT DEF BitsAfter
  <2>2. Bit(byte, (n - 1) \div 3) \in {0, 1}
    BY <2>1, BitType
  <2>3. /\ dio' = Bit(byte, (n - 1) \div 3) /\ clk' = clk
        /\ chip' = ChipSeesDio(Bit(byte, (n - 1) \div 3))
    BY <1>5, <2>2, DriveDio
  <2>4. clk = 0 /\ chip' = chip
    BY <1>2, <1>5, <2>1, <2>2, <2>3, ChipRests
  <2>5. Took(k)' /\ Follows(byte, BitsAfter(n))'
    BY <1>2, <1>3, <1>5, <2>1, <2>4
  <2> QED
    BY <1>5, <1>4, <2>3, <2>4, <2>5
<1>6. CASE n <= 24 /\ n % 3 = 2
  <2>1. PICK j \in 0..7 : n = 3 * j + 2
    <3>1. (n - 2) \div 3 \in 0..7 /\ n = 3 * ((n - 2) \div 3) + 2
      BY <1>6, SMT
    <3> QED
      BY <3>1
  <2>2. /\ (n - 1) % 3 = 1 /\ BitsAfter(n - 1) = j /\ BitsAfter(n) = j + 1
        /\ (n - 2) \div 3 = j /\ (n - 1) \div 3 = j
    BY <2>1, SMT DEF BitsAfter
  <2>3. clk' = 1 /\ dio' = dio /\ chip' = ChipSeesClk(1) /\ clk = 0 /\ dio = Bit(byte, j)
    BY <1>2, <1>6, <2>2, DriveClk
  <2>4. Follows(byte, j + 1)' /\ chip'.taken = chip.taken
    BY <1>2, <2>2, <2>3, BitSampled
  <2>5. Took(k)'
    BY <1>2, <1>6, <2>4 DEF Took, ByteOf
  <2> QED
    BY <1>6, <1>4, <2>2, <2>3, <2>4, <2>5
<1>7. CASE n <= 24 /\ n % 3 = 0
  <2>1. /\ (n - 1) % 3 = 2 /\ BitsAfter(n) = BitsAfter(n - 1) /\ BitsAfter(n) \in Nat
        /\ (n - 2) \div 3 = (n - 1) \div 3 /\ n \in 2..25
    BY <1>7, SMT DEF BitsAfter
  <2>2. clk' = 0 /\ dio' = dio /\ chip' = ChipSeesClk(0)
    BY <1>7, DriveClk
  <2>3. chip' = chip
    BY <2>2, ChipRests
  <2>4. Took(k)' /\ Follows(byte, BitsAfter(n))'
    BY <1>2, <1>3, <1>7, <2>1, <2>3
  <2> QED
    BY <1>2, <1>7, <1>4, <2>1, <2>2, <2>4
<1>8. CASE n = 25
  <2>1. clk = 0 /\ BitsAfter(n - 1) = 8 /\ BitsAfter(n) = 8
    BY <1>2, <1>8, SMT DEF BitsAfter
  <2>2. dio' = 1 /\ clk' = clk /\ chip' = ChipSeesDio(1)
    BY <1>8, DriveDio
  <2>3. chip' = chip
    BY <2>1, <2>2, ChipRests
  <2> QED
    BY <1>1, <1>2, <1>3, <1>8, <2>1, <2>2, <2>3 DEF ByteSync
<1>9. CASE n = 26
  <2>1. clk = 0 /\ BitsAfter(n - 1) = 8 /\ BitsAfter(n) = 0 /\ dio = 1
    BY <1>2, <1>9, SMT DEF BitsAfter
  <2>2. clk' = 1 /\ dio' = dio /\ chip' = ChipSeesClk(1)
    BY <1>9, DriveClk
  <2>3. Follows(byte, 8) /\ Took(k) /\ frame[k + 1] = byte
    BY <1>1, <1>2, <1>9, <2>1
  <2>4. Follows(byte, 0)' /\ Took(k + 1)'
    BY <2>1, <2>2, <2>3, ByteTaken
  <2> QED
    BY <1>1, <1>9, <2>1, <2>2, <2>4 DEF ByteSync
<1>10. CASE n \in 27..28
  <2>1. clk = 1 /\ dio = 1 /\ BitsAfter(n - 1) = 0 /\ BitsAfter(n) = 0
    BY <1>2, <1>10, SMT DEF BitsAfter
  <2>2. chip' = chip /\ dio' = dio /\ clk' = IF n = 27 THEN 1 ELSE 0
    BY <1>10, <2>1, DriveClk, ChipRests DEF bus
  <2> QED
    BY <1>1, <1>2, <1>3, <1>10, <2>1, <2>2 DEF ByteSync
<1> QED
  <2>1. n <= 24 \/ n = 25 \/ n = 26 \/ n \in 27..28
    OBVIOUS
  <2>2. n % 3 = 0 \/ n % 3 = 1 \/ n % 3 = 2
    BY SMT
  <2> QED
    BY <1>5, <1>6, <1>7, <1>8, <1>9, <1>10, <2>1, <2>2

(* The chip follows the driver from the start to the stop.                 *)
LEMMA SyncStep ==
  TypeOK /\ ShapeInv /\ FailInv /\ HeldInv /\ StopInv /\ SyncInv /\ [Next]_vars => SyncInv'
<1> SUFFICES ASSUME TypeOK, ShapeInv, FailInv, HeldInv, StopInv, SyncInv, [Next]_vars
             PROVE  SyncInv'
  OBVIOUS
<1>1. ops \in Seq(Op) /\ frame \in Seq(Byte) /\ unsent \in Seq(Byte) /\ unstopped \in SUBSET Nat
  BY DEF TypeOK, Op
<1>2. stage = "send" => Begun \in 0..Len(frame)
  BY BegunType
<1>13. ASSUME stage' = "send", Begun' = 0, 4 - Len(ops') = 0, StartSync(0)'
       PROVE  SyncInv'
  <2>1. ~(Begun' > 0)
    BY <1>13
  <2> QED
    BY <1>13, <2>1, Zenon DEF SyncInv
<1>14. ASSUME stage' = "send", Begun' > 0, 28 - Len(ops') = 0, ByteSync(frame[Begun], 0)'
       PROVE  SyncInv'
  <2>1. Begun' # 0
    BY <1>14
  <2> QED
    BY <1>14, <2>1, Zenon DEF SyncInv
<1>3. CASE BeginTransaction
  <2>1. stage' = "send" /\ ops' = Start /\ frame' = Head(plan) /\ unsent' = Head(plan)
    BY <1>3 DEF BeginTransaction
  <2>2. Len(Head(plan)) - Len(Head(plan)) = 0
    <3>1. Head(plan) \in Seq(Byte)
      BY <1>3 DEF BeginTransaction, TypeOK
    <3>2. Len(Head(plan)) \in Nat
      BY <3>1
    <3> QED
      BY <3>2
  <2>3. Begun' = 0 /\ 4 - Len(ops') = 0
    BY <2>1, <2>2, Programs DEF Begun
  <2>4. StartSync(0)'
    BY DEF StartSync
  <2> QED
    BY <1>13, <2>1, <2>3, <2>4
<1>4. CASE Send \/ ReadAck
  <2>1. /\ stage = "send" /\ stage' = "send" /\ ops # <<>> /\ ops' = Tail(ops)
        /\ frame' = frame /\ unsent' = unsent /\ Begun' = Begun
        /\ IF Head(ops) = Ack THEN UNCHANGED bus ELSE Drive(Head(ops))
    BY <1>4 DEF Send, ReadAck, Begun
  <2>2. CASE Begun = 0
    <3>1. Left(ops, Start) /\ StartSync(4 - Len(ops))
      BY <2>1, <2>2 DEF ShapeInv, SyncInv
    <3>2. PICK n \in 1..4 :
            /\ Len(ops) = n /\ Len(Tail(ops)) = n - 1
            /\ n = 4 => Head(ops) = Dio(1)
            /\ n = 3 => Head(ops) = Clk(1)
            /\ n = 2 => Head(ops) = Dio(0)
            /\ n = 1 => Head(ops) = Clk(0)
      BY <1>1, <2>1, <3>1, StartHead
    <3>3. Head(ops) \in {Dio(1), Clk(1), Dio(0), Clk(0)}
      BY <3>2
    <3>4. Drive(Head(ops)) /\ StartSync(4 - n)
      BY <2>1, <3>1, <3>2, <3>3 DEF Clk, Dio, Ack
    <3>5. StartSync(5 - n)'
      BY <2>1, <3>2, <3>4, StartFollowed
    <3>6. 4 - Len(ops') = 5 - n
      BY <2>1, <3>2
    <3> QED
      BY <2>1, <2>2, <3>5, <3>6 DEF SyncInv
  <2>3. CASE Begun > 0
    <3>1. Begun \in 1..Len(frame) /\ frame[Begun] \in Byte
      BY <1>1, <1>2, <2>1, <2>3
    <3>2. Left(ops, ByteOps(frame[Begun])) /\ ByteSync(frame[Begun], 28 - Len(ops))
      BY <2>1, <2>3 DEF ShapeInv, SyncInv
    <3>3. PICK n \in 1..28 :
            /\ Len(ops) = 29 - n /\ Len(Tail(ops)) = 28 - n
            /\ n <= 24 =>
                 Head(ops) = IF n % 3 = 1 THEN Dio(Bit(frame[Begun], (n - 1) \div 3))
                             ELSE IF n % 3 = 2 THEN Clk(1) ELSE Clk(0)
            /\ n = 25 => Head(ops) = Dio(1)
            /\ n = 26 => Head(ops) = Clk(1)
            /\ n = 27 => Head(ops) = Ack
            /\ n = 28 => Head(ops) = Clk(0)
      BY <1>1, <2>1, <3>1, <3>2, ByteHead
    <3>4. \A v : Clk(v) # Ack /\ Dio(v) # Ack
      BY DEF Clk, Dio, Ack
    <3>5. /\ n <= 24 /\ n % 3 = 1 => Drive(Dio(Bit(frame[Begun], (n - 1) \div 3)))
          /\ n <= 24 /\ n % 3 = 2 => Drive(Clk(1))
          /\ n <= 24 /\ n % 3 = 0 => Drive(Clk(0))
          /\ n = 25 => Drive(Dio(1))
          /\ n = 26 => Drive(Clk(1))
          /\ n = 27 => UNCHANGED bus
          /\ n = 28 => Drive(Clk(0))
      BY <2>1, <3>3, <3>4
    <3>6. ByteSync(frame[Begun], n - 1)
      <4>1. 28 - (29 - n) = n - 1
        OBVIOUS
      <4> QED
        BY <3>2, <3>3, <4>1
    <3>7. ByteSync(frame[Begun], n)'
      BY <2>1, <3>1, <3>5, <3>6, ByteFollowed
    <3>8. 28 - Len(ops') = n
      <4>1. 28 - (28 - n) = n
        OBVIOUS
      <4> QED
        BY <2>1, <3>3, <4>1
    <3> QED
      BY <2>1, <2>3, <3>7, <3>8 DEF SyncInv
  <2> QED
    BY <1>2, <2>1, <2>2, <2>3
<1>5. CASE SendFails
  BY <1>5 DEF SendFails, SyncInv, Result
<1>6. CASE NextByte
  <2>1. stage = "send" /\ ops = <<>> /\ UNCHANGED <<frame, clk, dio, chip, unstopped>>
    BY <1>6 DEF NextByte, bus
  <2>2. Len(ops) = 0
    BY <2>1
  <2>3. CASE Begun = 0
    <3>1. StartSync(4) /\ ~nack /\ unsent # <<>>
      <4>1. 4 - Len(ops) = 4
        BY <2>2
      <4>2. unsent = <<>> => Len(frame) = 0
        BY <1>1, <2>3 DEF Begun
      <4> QED
        BY <1>1, <2>1, <2>3, <4>1, <4>2 DEF SyncInv, ShapeInv
    <3>2. stage' = "send" /\ Begun' = 1 /\ ops' = ByteOps(Head(unsent)) /\ Head(unsent) \in Byte
      <4>1. stage' = "send" /\ ops' = ByteOps(Head(unsent)) /\ unsent' = Tail(unsent)
        BY <1>6, <3>1 DEF NextByte
      <4>2. Head(unsent) \in Byte /\ Len(Tail(unsent)) = Len(unsent) - 1
        BY <1>1, <3>1
      <4>3. Len(frame) - Len(unsent) = 0 /\ Len(frame) \in Nat /\ Len(unsent) \in Nat
        BY <1>1, <2>3 DEF Begun
      <4>4. \A m, n \in Nat : m - n = 0 => m - (n - 1) = 1
        OBVIOUS
      <4> QED
        BY <2>1, <4>1, <4>2, <4>3, <4>4 DEF Begun
    <3>3. 28 - Len(ops') = 0
      BY <3>2, ByteProgram
    <3>4. ByteSync(frame[Begun], 0)'
      BY <2>1, <3>1, <3>2 DEF StartSync, ByteSync, BitsAfter, Follows, Took
    <3> QED
      BY <1>14, <3>2, <3>3, <3>4
  <2>4. CASE Begun > 0
    <3>1. ByteSync(frame[Begun], 28)
      <4>1. 28 - Len(ops) = 28
        BY <2>2
      <4> QED
        BY <2>1, <2>4, <4>1 DEF SyncInv
    <3>2. chip.active /\ chip.meant = frame /\ Len(chip.bits) = 0 /\ Took(Begun) /\ clk = 0
      BY <3>1 DEF ByteSync, BitsAfter, Follows
    <3>3. CASE nack \/ unsent = <<>>
      <4>1. stage' = "stop" /\ (Result' => unsent = <<>>)
        BY <1>6, <3>3 DEF NextByte, Result
      <4>2. unsent = <<>> => Begun = Len(frame)
        BY <1>1 DEF Begun
      <4>3. Result' => Took(Len(frame))'
        BY <2>1, <3>2, <4>1, <4>2 DEF Took, ByteOf
      <4> QED
        BY <2>1, <3>2, <4>1, <4>3 DEF SyncInv
    <3>4. CASE ~(nack \/ unsent = <<>>)
      <4>1. stage' = "send" /\ ops' = ByteOps(Head(unsent)) /\ unsent' = Tail(unsent)
        BY <1>6, <3>4 DEF NextByte
      <4>2. Head(unsent) \in Byte /\ Len(Tail(unsent)) = Len(unsent) - 1
        BY <1>1, <3>4
      <4>3. Len(frame) \in Nat /\ Len(unsent) \in Nat
        BY <1>1
      <4>4. \A m, n \in Nat : m - (n - 1) = (m - n) + 1
        OBVIOUS
      <4>5. Begun' = Begun + 1
        BY <2>1, <4>1, <4>2, <4>3, <4>4 DEF Begun
      <4>6. PICK k \in Nat : k = Begun /\ Begun' = k + 1 /\ k > 0
        BY <1>2, <2>1, <2>4, <4>5
      <4>7. 28 - Len(ops') = 0
        BY <4>1, <4>2, ByteProgram
      <4>8. Took(k)' /\ k + 1 - 1 = k
        BY <2>1, <3>2, <4>6 DEF Took, ByteOf
      <4>9. ByteSync(frame[Begun], 0)'
        BY <2>1, <3>2, <4>6, <4>8 DEF ByteSync, BitsAfter, Follows
      <4> QED
        BY <1>14, <4>1, <4>6, <4>7, <4>9
    <3> QED
      BY <3>3, <3>4
  <2> QED
    BY <1>2, <2>1, <2>3, <2>4
<1>7. CASE StopDrives
  <2>1. /\ stage = "stop" /\ stage' = "stop" /\ ops # <<>> /\ ops' = Tail(ops) /\ Drive(Head(ops))
        /\ UNCHANGED <<frame, unstopped, ok>>
    BY <1>7 DEF StopDrives
  <2>2. Left(ops, Stop)
    BY <2>1 DEF ShapeInv
  <2>3. PICK n \in 1..4 :
          /\ Len(ops) = n /\ Len(Tail(ops)) = n - 1
          /\ n = 4 => Head(ops) = Clk(0)
          /\ n = 3 => Head(ops) = Dio(0)
          /\ n = 2 => Head(ops) = Clk(1)
          /\ n = 1 => Head(ops) = Dio(1)
    BY <1>1, <2>1, <2>2, StopHead
  <2> SUFFICES ASSUME Result
               PROVE  Took(Len(frame))' /\ (Len(ops') > 1 => Len(chip'.bits) = 0)
    BY <2>1 DEF SyncInv, Result
  <2>4. Took(Len(frame)) /\ (n > 1 => Len(chip.bits) = 0) /\ StopLines(4 - n) /\ unstopped = {}
    BY <2>1, <2>3 DEF SyncInv, StopInv, Result
  <2>5. CASE n \in 3..4
    <3>1. ASSUME n = 4 PROVE chip' = chip
      <4>1. chip' = ChipSeesClk(0)
        BY <2>1, <2>3, <3>1, DriveClk
      <4> QED
        BY <4>1, ChipRests
    <3>2. ASSUME n = 3 PROVE chip' = chip
      <4>1. chip' = ChipSeesDio(0) /\ clk = 0
        BY <2>1, <2>3, <2>4, <3>2, DriveDio DEF StopLines
      <4> QED
        BY <4>1, ChipRests
    <3>3. chip' = chip
      BY <2>5, <3>1, <3>2
    <3>4. Len(chip'.bits) = 0
      BY <2>4, <2>5, <3>3
    <3>5. Took(Len(frame))'
      BY <2>1, <2>4, <3>3 DEF Took, ByteOf
    <3> QED
      BY <3>4, <3>5
  <2>6. CASE n = 2
    <3>1. chip' = ChipSeesClk(1)
      BY <2>1, <2>3, <2>6, DriveClk
    <3>2. chip' = chip \/ (chip.active /\ clk = 0)
      BY <3>1 DEF ChipSeesClk
    <3>3. chip'.taken = chip.taken
      BY <2>4, <2>6, <3>1, <3>2, ChipSamples
    <3>4. ~(Len(ops') > 1)
      BY <2>1, <2>3, <2>6
    <3> QED
      BY <2>1, <2>4, <3>3, <3>4 DEF Took, ByteOf
  <2>7. CASE n = 1
    <3>1. chip' = ChipSeesDio(1)
      BY <2>1, <2>3, <2>7, DriveDio
    <3>2. chip'.taken = chip.taken
      BY <3>1 DEF ChipSeesDio, TypeOK, ChipTypeOK
    <3>3. ~(Len(ops') > 1)
      BY <2>1, <2>3, <2>7
    <3> QED
      BY <2>1, <2>4, <3>2, <3>3 DEF Took, ByteOf
  <2> QED
    BY <2>5, <2>6, <2>7
<1>8. CASE StopFails
  <2>1. stage' = "stop" /\ unstopped' # {}
    BY <1>8 DEF StopFails
  <2> QED
    BY <2>1 DEF SyncInv, Result
<1>9. CASE EndTransaction
  BY <1>9 DEF EndTransaction, SyncInv, Result, Took, ByteOf, bus
<1>10. CASE CallWrite \/ CallClear \/ Return
  <2>1. /\ stage \in {"idle", "between"} /\ stage' \notin {"send", "stop"}
        /\ UNCHANGED <<frame, ok, unstopped, chip>>
    BY <1>10 DEF CallWrite, CallClear, Return, bus
  <2>2. Result' = Result /\ (Took(Len(frame)) => Took(Len(frame))')
    BY <2>1 DEF Result, Took, ByteOf
  <2> QED
    BY <2>1, <2>2 DEF SyncInv
<1>11. CASE Acquire \/ OpenFails
  <2>1. frame' = <<>> /\ stage' \notin {"send", "stop"}
    BY <1>11 DEF Acquire, OpenFails, HeldInv
  <2> QED
    BY <2>1 DEF SyncInv
<1>12. CASE Closed \/ UNCHANGED vars
  <2>1. UNCHANGED <<stage, frame, unsent, ops, ok, unstopped, clk, dio, chip>>
    BY <1>12 DEF Closed, vars, driver, bus
  <2>2. Begun' = Begun /\ Result' = Result
    BY <2>1 DEF Begun, Result
  <2>3. \A n : Took(n)' <=> Took(n)
    BY <2>1 DEF Took, ByteOf
  <2>4. \A byte, n : Follows(byte, n)' <=> Follows(byte, n)
    BY <2>1 DEF Follows
  <2>5. \A n : StartSync(n)' <=> StartSync(n)
    BY <2>1, <2>3, <2>4 DEF StartSync
  <2>6. \A byte, n : ByteSync(byte, n)' <=> ByteSync(byte, n)
    BY <2>1, <2>2, <2>3, <2>4 DEF ByteSync
  <2> QED
    BY <2>1, <2>2, <2>3, <2>5, <2>6 DEF SyncInv
<1> QED
  BY <1>3, <1>4, <1>5, <1>6, <1>7, <1>8, <1>9, <1>10, <1>11, <1>12 DEF Next

-----------------------------------------------------------------------------
(* Edges seen by a chip that has missed the end of a transaction.          *)
LEMMA TakenMatch ==
  TypeOK => (TakenAsMeant <=>
               /\ Len(chip.taken) <= Len(chip.meant)
               /\ \A n \in 1..Len(chip.taken) : ByteOf(chip.taken[n]) = chip.meant[n])
<1> SUFFICES ASSUME TypeOK
             PROVE  TakenAsMeant <=>
                      /\ Len(chip.taken) <= Len(chip.meant)
                      /\ \A n \in 1..Len(chip.taken) : ByteOf(chip.taken[n]) = chip.meant[n]
  OBVIOUS
<1>1. DOMAIN chip.taken = 1..Len(chip.taken)
  BY ChipParts
<1>2. DOMAIN Taken = 1..Len(chip.taken)
  BY <1>1 DEF Taken
<1>3. \A n \in 1..Len(chip.taken) : Taken[n] = ByteOf(chip.taken[n])
  BY <1>1 DEF Taken
<1> QED
  BY <1>2, <1>3 DEF TakenAsMeant

(* A chip adrift, and one more operation: it takes no byte that was not    *)
(* meant, and one edge fewer may come.                                     *)
LEMMA EdgeSeen ==
  ASSUME TypeOK, TypeOK', TakenAsMeant, NEW e \in {0, 1}, clk = 0 => e = 1,
         NEW f \in {0, 1}, f <= e, clk = 0 /\ clk' = 1 => f = 0,
         chip.active => Harmless(e), NEW value \in {0, 1},
         Drive(Clk(value)) \/ Drive(Dio(value)) \/ UNCHANGED bus
  PROVE  /\ TakenAsMeant'
         /\ chip'.active => Harmless(f)'
         /\ chip'.active /\ (chip.active => Few(e)) => Few(f)'
<1>1. PICK b \in 0..8 : Len(chip.bits) = b
  BY ChipParts
<1>2. ASSUME chip'.taken = chip.taken, chip'.meant = chip.meant PROVE TakenAsMeant'
  <2>1. Taken' = Taken
    BY <1>2 DEF Taken
  <2> QED
    BY <1>2, <2>1 DEF TakenAsMeant
<1>3. CASE chip' = chip
  <2>1. TakenAsMeant'
    BY <1>3, <1>2
  <2>2. chip.active => Harmless(f)'
    BY <1>1, <1>3 DEF Harmless, ByteOf
  <2>3. Few(e) => Few(f)'
    BY <1>1, <1>3 DEF Few
  <2> QED
    BY <1>3, <2>1, <2>2, <2>3
<1>4. CASE chip' = ChipSeesClk(1) /\ chip.active /\ clk = 0 /\ clk' = 1
  <2>1. e = 1 /\ f = 0
    BY <1>4
  <2>2. CASE b < 8
    <3>1. /\ chip'.bits = Append(chip.bits, dio) /\ chip'.taken = chip.taken
          /\ chip'.meant = chip.meant /\ chip'.active
      BY <1>1, <1>4, <2>2, ChipSamples
    <3>2. Len(chip'.bits) = b + 1
      BY <1>1, <3>1, ChipParts
    <3>3. TakenAsMeant'
      BY <1>2, <3>1
    <3>4. Harmless(f)' /\ (Few(e) => Few(f)')
      BY <1>1, <2>1, <2>2, <3>2 DEF Harmless, Few
    <3> QED
      BY <1>4, <3>3, <3>4
  <2>3. CASE b = 8
    <3>1. /\ chip'.bits = <<>> /\ chip'.taken = Append(chip.taken, chip.bits)
          /\ chip'.meant = chip.meant /\ chip'.active
      BY <1>1, <1>4, <2>3, ChipTakes
    <3>2. Len(chip.taken) < Len(chip.meant) /\ ByteOf(chip.bits) = chip.meant[Len(chip.taken) + 1]
      BY <1>1, <1>4, <2>1, <2>3 DEF Harmless
    <3>3. PICK t \in Nat : t = Len(chip.taken)
      BY ChipParts
    <3>4. PICK m \in Nat : m = Len(chip.meant)
      BY ChipParts
    <3>5. /\ Len(chip'.taken) = t + 1 /\ chip'.taken[t + 1] = chip.bits
          /\ \A n \in 1..t : chip'.taken[n] = chip.taken[n]
      BY <3>1, <3>3, ChipParts
    <3>6. \A n \in 1..t : ByteOf(chip.taken[n]) = chip.meant[n]
      BY <3>3, TakenMatch
    <3>7. ASSUME NEW n \in 1..(t + 1)
          PROVE  ByteOf(chip'.taken[n]) = chip'.meant[n]
      <4>1. CASE n = t + 1
        BY <3>1, <3>2, <3>3, <3>5, <4>1
      <4>2. CASE n # t + 1
        <5>1. n \in 1..t
          BY <4>2
        <5> QED
          BY <3>1, <3>5, <3>6, <5>1
      <4> QED
        BY <4>1, <4>2
    <3>8. DOMAIN chip'.taken = 1..(t + 1) /\ t + 1 <= m /\ Len(chip'.meant) = m
      <4>1. chip'.taken \in Seq(Seq({0, 1}))
        BY DEF TypeOK, ChipTypeOK
      <4> QED
        BY <3>1, <3>2, <3>3, <3>4, <3>5, <4>1
    <3>9. TakenAsMeant'
      <4>1. DOMAIN Taken' = 1..(t + 1) /\ \A n \in 1..(t + 1) : Taken'[n] = ByteOf(chip'.taken[n])
        BY <3>8 DEF Taken
      <4>2. Len(chip'.taken) <= Len(chip'.meant)
        BY <3>5, <3>8
      <4>3. \A n \in DOMAIN Taken' : Taken'[n] = chip'.meant[n]
        BY <3>7, <4>1
      <4> QED
        BY <4>2, <4>3 DEF TakenAsMeant
    <3>10. Harmless(f)' /\ Few(f)'
      BY <2>1, <3>1 DEF Harmless, Few
    <3> QED
      BY <3>9, <3>10
  <2> QED
    BY <1>1, <2>2, <2>3
<1>5. CASE chip' = ChipSeesDio(0) /\ clk = 1 /\ dio = 1
  <2>1. chip'.active /\ chip'.bits = <<>> /\ chip'.taken = <<>> /\ chip'.meant = frame
    BY <1>5, ChipStarts
  <2>2. TakenAsMeant'
    BY <2>1 DEF TakenAsMeant, Taken, TypeOK
  <2> QED
    BY <2>1, <2>2 DEF Harmless, Few
<1>6. CASE chip' = ChipSeesDio(1) /\ clk = 1 /\ dio = 0
  <2>1. ~chip'.active /\ chip'.taken = chip.taken /\ chip'.meant = chip.meant
    BY <1>6, ChipStops
  <2> QED
    BY <1>2, <2>1
<1>7. CASE Drive(Clk(value))
  <2>1. clk' = value /\ chip' = ChipSeesClk(value)
    BY <1>7, DriveClk
  <2> QED
    BY <1>3, <1>4, <2>1 DEF ChipSeesClk
<1>8. CASE Drive(Dio(value))
  <2>1. dio' = value /\ chip' = ChipSeesDio(value)
    BY <1>8, DriveDio
  <2>2. clk \in {0, 1} /\ dio \in {0, 1}
    BY DEF TypeOK
  <2> QED
    BY <1>3, <1>5, <1>6, <2>1, <2>2 DEF ChipSeesDio
<1> QED
  BY <1>3, <1>7, <1>8 DEF bus

(* While the chip follows a byte it has taken what was meant, and one more *)
(* rising clock does no harm.                                              *)
LEMMA ByteKept ==
  TypeOK => \A byte \in Byte, done \in 0..28 :
              Begun \in 1..Len(frame) /\ frame[Begun] = byte /\ ByteSync(byte, done)
                => TakenAsMeant /\ Harmless(1)
<1> SUFFICES ASSUME TypeOK, NEW byte \in Byte, NEW done \in 0..28,
                    Begun \in 1..Len(frame), frame[Begun] = byte, ByteSync(byte, done)
             PROVE  TakenAsMeant /\ Harmless(1)
  OBVIOUS
<1>1. PICK k \in Nat : Begun = k + 1 /\ Begun - 1 = k
  <2>1. Begun - 1 \in Nat /\ Begun = (Begun - 1) + 1
    OBVIOUS
  <2> QED
    BY <2>1
<1>2. PICK m \in Nat : Len(frame) = m /\ k + 1 <= m
  BY <1>1 DEF TypeOK
<1>3. /\ Follows(byte, BitsAfter(done))
      /\ done <= 25 => Took(k)
      /\ done > 25 => Took(k + 1)
  BY <1>1 DEF ByteSync
<1>4. PICK t \in Nat : Took(t) /\ t <= m /\ (done <= 25 => t = k)
  BY <1>2, <1>3
<1>5. TakenAsMeant
  <2>1. Len(chip.taken) <= Len(chip.meant)
    BY <1>2, <1>3, <1>4 DEF Took, Follows
  <2>2. \A j \in 1..Len(chip.taken) : ByteOf(chip.taken[j]) = chip.meant[j]
    BY <1>3, <1>4 DEF Took, Follows
  <2> QED
    BY <2>1, <2>2, TakenMatch
<1>6. Harmless(1)
  <2>1. BitsAfter(done) \in 0..8 /\ (BitsAfter(done) = 8 => done <= 25)
    BY SMT DEF BitsAfter
  <2>2. PICK b \in 0..8 : b = BitsAfter(done) /\ Len(chip.bits) = b
    BY <1>3, <2>1 DEF Follows
  <2>3. CASE b <= 7
    BY <2>2, <2>3 DEF Harmless
  <2>4. CASE b = 8
    <3>1. Len(chip.taken) = k /\ chip.meant = frame
      BY <1>3, <1>4, <2>1, <2>2, <2>4 DEF Took, Follows
    <3>2. ByteOf(chip.bits) = byte
      BY <1>3, <2>2, <2>4, ByteOfBits DEF Follows
    <3>3. k < m
      BY <1>2
    <3> QED
      BY <1>1, <1>2, <3>1, <3>2, <3>3 DEF Harmless
  <2> QED
    BY <2>2, <2>3, <2>4
<1> QED
  BY <1>5, <1>6

(* ByteKept, of the state after a step.                                    *)
LEMMA ByteKeptNext ==
  (TypeOK => \A byte \in Byte, done \in 0..28 :
              Begun \in 1..Len(frame) /\ frame[Begun] = byte /\ ByteSync(byte, done)
                => TakenAsMeant /\ Harmless(1))'
BY ByteKept, PTL

(* The same of the whole of the driver's state.                            *)
LEMMA SendKept ==
  TypeOK /\ ShapeInv /\ SyncInv /\ stage = "send" /\ Begun > 0 => TakenAsMeant /\ Harmless(1)
<1> SUFFICES ASSUME TypeOK, ShapeInv, SyncInv, stage = "send", Begun > 0
             PROVE  TakenAsMeant /\ Harmless(1)
  OBVIOUS
<1>1. Begun \in 1..Len(frame) /\ frame[Begun] \in Byte
  BY BegunType
<1>2. Len(ops) \in 0..28
  <2>1. Len(ops) \in Nat /\ Len(ops) <= Len(ByteOps(frame[Begun]))
    BY DEF TypeOK, ShapeInv, Left
  <2>2. \A m \in Nat : m <= 28 => m \in 0..28
    OBVIOUS
  <2>3. Len(ByteOps(frame[Begun])) = 28
    BY <1>1, ByteProgram
  <2> QED
    BY <2>1, <2>2, <2>3
<1>3. PICK done \in 0..28 : done = 28 - Len(ops)
  <2>1. \A m \in 0..28 : 28 - m \in 0..28
    OBVIOUS
  <2> QED
    BY <1>2, <2>1
<1>4. ByteSync(frame[Begun], done)
  BY <1>3 DEF SyncInv
<1> QED
  BY <1>1, <1>4, ByteKept

(* With two failures at most a chip that missed a start or a stop          *)
(* completes no byte that was not meant.                                   *)
LEMMA AdriftStep ==
  /\ TypeOK /\ ShapeInv /\ FailInv /\ HeldInv /\ StopInv /\ SyncInv /\ AdriftInv
  /\ [Next]_vars /\ TypeOK' /\ ShapeInv' /\ SyncInv'
  => AdriftInv'
<1> SUFFICES ASSUME TypeOK, ShapeInv, FailInv, HeldInv, StopInv, SyncInv, AdriftInv,
                    [Next]_vars, TypeOK', ShapeInv', SyncInv'
             PROVE  AdriftInv'
  OBVIOUS
<1>1. ops \in Seq(Op) /\ frame \in Seq(Byte) /\ failures \in Nat /\ clk \in {0, 1} /\ clk' \in {0, 1}
  BY DEF TypeOK, Op
<1>2. Edges \in {0, 1} /\ Edges' \in {0, 1}
  BY DEF Edges
<1>3. (TypeOK /\ ShapeInv /\ SyncInv /\ stage = "send" /\ Begun > 0 => TakenAsMeant /\ Harmless(1))'
  BY SendKept, PTL
<1>12. (TypeOK => \A byte \in Byte, done \in 0..28 :
                    Begun \in 1..Len(frame) /\ frame[Begun] = byte /\ ByteSync(byte, done)
                      => TakenAsMeant /\ Harmless(1))'
  BY ByteKept, PTL
<1>4. ASSUME chip' = chip
      PROVE  /\ TakenAsMeant' <=> TakenAsMeant
             /\ \A e : (Harmless(e)' <=> Harmless(e)) /\ (Few(e)' <=> Few(e))
  <2>1. Taken' = Taken
    BY <1>4 DEF Taken
  <2> QED
    BY <1>4, <2>1 DEF TakenAsMeant, Harmless, Few
<1>5. ASSUME UNCHANGED <<clk, chip, failures>>, stage # "stop", stage' # "stop",
             stage = "send" => Begun = 0
      PROVE  AdriftInv'
  <2>1. Edges' = Edges /\ (Adrift' => Adrift)
    BY <1>5 DEF Edges, Adrift
  <2> QED
    BY <1>2, <1>4, <1>5, <2>1 DEF AdriftInv
<1>6. ASSUME stage' = "send", Begun' > 0
      PROVE  AdriftInv'
  BY <1>3, <1>6 DEF AdriftInv, Adrift
<1>7. CASE Acquire \/ OpenFails \/ CallWrite \/ CallClear \/ BeginTransaction \/ Return
  BY <1>5, <1>7
  DEF Acquire, OpenFails, CallWrite, CallClear, BeginTransaction, Return, bus
<1>8. CASE Closed \/ UNCHANGED vars
  <2>1. UNCHANGED <<stage, ops, frame, unsent, ok, unstopped, clk, chip, failures>>
    BY <1>8 DEF Closed, vars, driver, bus
  <2>2. Edges' = Edges /\ (Adrift' <=> Adrift)
    BY <2>1 DEF Edges, Adrift, Begun
  <2> QED
    BY <1>2, <1>4, <2>1, <2>2 DEF AdriftInv
<1>9. CASE EndTransaction
  <2>1. /\ stage = "stop" /\ stage' = "between" /\ Len(ops) = 0
        /\ UNCHANGED <<clk, chip, failures, ops>>
    BY <1>9 DEF EndTransaction, bus
  <2>2. Edges' = Edges /\ (Adrift' <=> chip.active) /\ (Adrift <=> chip.active)
    BY <2>1 DEF Edges, Adrift
  <2>3. chip.active => unstopped # {}
    BY <2>1 DEF StopInv, StopLines
  <2> QED
    BY <1>2, <1>4, <2>1, <2>2, <2>3 DEF AdriftInv
<1>10. CASE Send \/ ReadAck
  <2>1. /\ stage = "send" /\ stage' = "send" /\ ops # <<>> /\ ops' = Tail(ops)
        /\ frame' = frame /\ Begun' = Begun
        /\ IF Head(ops) = Ack THEN UNCHANGED bus ELSE Drive(Head(ops)) /\ failures' = failures
    BY <1>10 DEF Send, ReadAck, Begun
  <2>2. CASE Begun = 0
    <3>1. Left(ops, Start)
      BY <2>1, <2>2 DEF ShapeInv
    <3>2. PICK n \in 1..4 :
            /\ Len(ops) = n /\ Len(Tail(ops)) = n - 1
            /\ n = 4 => Head(ops) = Dio(1)
            /\ n = 3 => Head(ops) = Clk(1)
            /\ n = 2 => Head(ops) = Dio(0)
            /\ n = 1 => Head(ops) = Clk(0)
      BY <1>1, <2>1, <3>1, StartHead
    <3>3. Head(ops) \in {Dio(1), Clk(1), Dio(0), Clk(0)}
      BY <3>2
    <3>4. Drive(Head(ops)) /\ failures' = failures
      BY <2>1, <3>3 DEF Clk, Dio, Ack
    <3>5. CASE n = 1
      <4>1. 4 - Len(ops') = 4
        <5>1. Len(ops') = 0
          BY <2>1, <3>2, <3>5
        <5> QED
          BY <5>1
      <4>2. StartSync(4)'
        BY <2>1, <2>2, <4>1 DEF SyncInv
      <4>3. Len(chip'.bits) = 0 /\ Len(chip'.taken) = 0
        BY <4>2 DEF StartSync, Follows, Took
      <4>4. TakenAsMeant'
        BY <4>3 DEF TakenAsMeant, Taken, TypeOK, ChipTypeOK
      <4>5. \A f \in {0, 1} : Harmless(f)' /\ Few(f)'
        BY <4>3 DEF Harmless, Few
      <4> QED
        BY <1>2, <4>4, <4>5 DEF AdriftInv
    <3>6. CASE n > 1
      <4>1. Edges' <= Edges /\ (clk = 0 /\ clk' = 1 => Edges' = 0) /\ (clk = 0 => Edges = 1)
        BY <1>1, <2>1, <3>2, <3>4, <3>6, DriveClk, DriveDio DEF Edges
      <4>2. \E value \in {0, 1} : Drive(Clk(value)) \/ Drive(Dio(value))
        BY <3>2, <3>4
      <4>3. (Adrift <=> chip.active) /\ (Adrift' <=> chip'.active)
        BY <2>1, <2>2 DEF Adrift
      <4>4. failures <= 2 =>
              /\ TakenAsMeant'
              /\ chip'.active => Harmless(Edges)'
              /\ chip'.active /\ (chip.active => Few(Edges)) => Few(Edges)'
        BY <1>2, <4>1, <4>2, <4>3, EdgeSeen DEF AdriftInv
      <4> QED
        BY <1>1, <2>1, <3>4, <4>3, <4>4 DEF AdriftInv
    <3> QED
      BY <3>5, <3>6
  <2>3. CASE Begun > 0
    BY <1>6, <2>1, <2>3
  <2> QED
    BY <2>1, <2>2, <2>3, BegunType
<1>11. CASE SendFails
  <2>1. /\ stage = "send" /\ stage' = "stop" /\ ops # <<>> /\ ops' = Stop /\ ok' = FALSE
        /\ unstopped' = {} /\ frame' = frame /\ unsent' = unsent /\ Begun' = Begun
        /\ Head(ops) # Ack /\ DriveFails(Head(ops)) /\ failures' = failures + 1
    BY <1>11 DEF SendFails, DriveFails, Begun, FailInv
  <2>2. Edges' = 1 /\ (Adrift' <=> chip'.active)
    BY <2>1, Programs DEF Edges, Adrift
  <2>3. SUFFICES ASSUME failures <= 1
                 PROVE  TakenAsMeant' /\ (chip'.active => Harmless(1)')
    BY <1>1, <2>1, <2>2 DEF AdriftInv
  <2>4. TakenAsMeant /\ failures <= 2
    BY <1>1, <2>3 DEF AdriftInv
  <2>5. CASE Begun = 0
    <3>1. Left(ops, Start)
      BY <2>1, <2>5 DEF ShapeInv
    <3>2. Head(ops) \in {Dio(1), Clk(1), Dio(0), Clk(0)}
      BY <1>1, <2>1, <3>1, StartHead
    <3>3. \E value \in {0, 1} : Drive(Clk(value)) \/ Drive(Dio(value)) \/ UNCHANGED bus
      BY <2>1, <3>2 DEF DriveFails
    <3>4. (Adrift <=> chip.active) /\ ~(stage = "stop")
      BY <2>1, <2>5 DEF Adrift
    <3>5. chip.active => Harmless(Edges) /\ Few(Edges)
      BY <2>3, <2>4, <3>4 DEF AdriftInv
    <3>6. clk = 0 => Edges = 1
      BY DEF Edges
    <3>7. TakenAsMeant' /\ (chip'.active => Few(0)')
      <4>1. 0 \in {0, 1} /\ 0 <= Edges
        BY <1>2
      <4> QED
        BY <1>2, <2>4, <3>3, <3>5, <3>6, <4>1, EdgeSeen
    <3>8. Few(0)' => Harmless(1)'
      <4>1. PICK b \in Nat : b = Len(chip'.bits)
        BY DEF TypeOK, ChipTypeOK
      <4> QED
        BY <4>1 DEF Few, Harmless
    <3> QED
      BY <3>7, <3>8
  <2>6. CASE Begun > 0
    <3>1. Begun \in 1..Len(frame) /\ frame[Begun] \in Byte
      BY <2>1, <2>6, BegunType
    <3>2. CASE UNCHANGED bus
      <4>1. Harmless(1)
        BY <2>1, <2>6, SendKept
      <4> QED
        BY <1>4, <2>4, <3>2, <4>1 DEF bus
    <3>3. CASE Drive(Head(ops))
      <4>1. Left(ops, ByteOps(frame[Begun])) /\ ByteSync(frame[Begun], 28 - Len(ops))
        BY <2>1, <2>6 DEF ShapeInv, SyncInv
      <4>2. PICK n \in 1..28 :
              /\ Len(ops) = 29 - n
              /\ n <= 24 =>
                   Head(ops) = IF n % 3 = 1 THEN Dio(Bit(frame[Begun], (n - 1) \div 3))
                               ELSE IF n % 3 = 2 THEN Clk(1) ELSE Clk(0)
              /\ n = 25 => Head(ops) = Dio(1)
              /\ n = 26 => Head(ops) = Clk(1)
              /\ n = 27 => Head(ops) = Ack
              /\ n = 28 => Head(ops) = Clk(0)
        BY <1>1, <2>1, <3>1, <4>1, ByteHead
      <4>3. /\ n <= 24 /\ n % 3 = 1 => Drive(Dio(Bit(frame[Begun], (n - 1) \div 3)))
            /\ n <= 24 /\ n % 3 = 2 => Drive(Clk(1))
            /\ n <= 24 /\ n % 3 = 0 => Drive(Clk(0))
            /\ n = 25 => Drive(Dio(1))
            /\ n = 26 => Drive(Clk(1))
            /\ n = 27 => UNCHANGED bus
            /\ n = 28 => Drive(Clk(0))
        BY <2>1, <3>3, <4>2
      <4>4. ByteSync(frame[Begun], n - 1)
        <5>1. 28 - (29 - n) = n - 1
          OBVIOUS
        <5> QED
          BY <4>1, <4>2, <5>1
      <4>5. PICK byte \in Byte : byte = frame[Begun]
        BY <3>1
      <4>6. ByteSync(byte, n)'
        BY <2>1, <3>1, <4>3, <4>4, <4>5, ByteFollowed
      <4>7. n \in 0..28 /\ (Begun \in 1..Len(frame) /\ frame[Begun] = byte)'
        BY <2>1, <3>1, <4>5
      <4> QED
        BY <1>12, <4>6, <4>7
    <3> QED
      BY <2>1, <3>2, <3>3 DEF DriveFails
  <2> QED
    BY <2>1, <2>5, <2>6, BegunType
<1>13. CASE NextByte
  <2>1. stage = "send" /\ Len(ops) = 0 /\ UNCHANGED <<frame, clk, chip, failures>>
    BY <1>13 DEF NextByte, bus
  <2>2. TakenAsMeant <=> TakenAsMeant'
    BY <1>4, <2>1
  <2>3. CASE nack \/ unsent = <<>>
    <3>1. stage' = "stop" /\ ops' = Stop /\ Edges' = 1
      BY <1>13, <2>3, Programs DEF NextByte, Edges
    <3>2. Begun > 0
      <4>1. Begun # 0
        BY <1>1, <2>1, <2>3 DEF ShapeInv, Begun
      <4> QED
        BY <2>1, <4>1, BegunType
    <3>3. ByteSync(frame[Begun], 28)
      <4>1. 28 - Len(ops) = 28
        BY <2>1
      <4> QED
        BY <2>1, <3>2, <4>1 DEF SyncInv
    <3>4. Len(chip'.bits) = 0
      BY <2>1, <3>3 DEF ByteSync, BitsAfter, Follows
    <3>5. Harmless(1)' /\ Few(1)'
      BY <3>4 DEF Harmless, Few
    <3>6. TakenAsMeant'
      BY <2>1, <2>2, <3>2, SendKept
    <3> QED
      BY <3>1, <3>5, <3>6 DEF AdriftInv
  <2>4. CASE ~(nack \/ unsent = <<>>)
    <3>1. stage' = "send" /\ unsent' = Tail(unsent) /\ unsent # <<>>
      BY <1>13, <2>4 DEF NextByte
    <3>2. Len(Tail(unsent)) = Len(unsent) - 1 /\ Len(unsent) \in Nat /\ Len(frame) \in Nat
          /\ Len(unsent) <= Len(frame)
      BY <1>1, <2>1, <3>1 DEF TypeOK, ShapeInv
    <3>3. \A m, k \in Nat : k <= m => m - (k - 1) > 0
      OBVIOUS
    <3>4. Begun' > 0
      BY <2>1, <3>1, <3>2, <3>3 DEF Begun
    <3> QED
      BY <1>6, <3>1, <3>4
  <2> QED
    BY <2>3, <2>4
<1>14. CASE StopDrives \/ StopFails
  <2>1. /\ stage = "stop" /\ stage' = "stop" /\ ops # <<>> /\ ops' = Tail(ops)
        /\ Drive(Head(ops)) \/ UNCHANGED bus
        /\ (UNCHANGED <<ok, unstopped, failures>> /\ Drive(Head(ops)))
           \/ failures' = failures + 1
    BY <1>14 DEF StopDrives, StopFails, DriveFails, AfterStopFailure
  <2>2. Left(ops, Stop)
    BY <2>1 DEF ShapeInv
  <2>3. PICK n \in 1..4 :
          /\ Len(ops) = n /\ Len(Tail(ops)) = n - 1
          /\ n = 4 => Head(ops) = Clk(0)
          /\ n = 3 => Head(ops) = Dio(0)
          /\ n = 2 => Head(ops) = Clk(1)
          /\ n = 1 => Head(ops) = Dio(1)
    BY <1>1, <2>1, <2>2, StopHead
  <2>4. clk' = clk \/ (n = 4 /\ clk' = 0) \/ (n = 2 /\ clk' = 1)
    <3>1. CASE UNCHANGED bus
      BY <3>1 DEF bus
    <3>2. CASE Drive(Head(ops))
      BY <2>3, <3>2, DriveClk, DriveDio
    <3> QED
      BY <2>1, <3>1, <3>2
  <2>5. Edges = (IF clk = 0 \/ n = 4 THEN 1 ELSE 0) /\ Edges' = (IF clk' = 0 THEN 1 ELSE 0)
    BY <2>1, <2>3 DEF Edges
  <2>6. Edges' <= Edges /\ (clk = 0 /\ clk' = 1 => Edges' = 0) /\ (clk = 0 => Edges = 1)
    BY <1>1, <2>4, <2>5
  <2>7. \E value \in {0, 1} : Drive(Clk(value)) \/ Drive(Dio(value)) \/ UNCHANGED bus
    BY <2>1, <2>3
  <2>8. (Adrift <=> chip.active) /\ (Adrift' <=> chip'.active)
    BY <2>1 DEF Adrift
  <2>9. failures <= 2 =>
          /\ TakenAsMeant'
          /\ chip'.active => Harmless(Edges)'
          /\ chip'.active /\ (chip.active => Few(Edges)) => Few(Edges)'
    BY <1>2, <2>6, <2>7, <2>8, EdgeSeen DEF AdriftInv
  <2>10. \/ UNCHANGED <<ok, unstopped, failures>>
         \/ failures' = failures + 1 /\ (failures' <= 1 => ok)
    BY <1>1, <2>1 DEF FailInv, Result
  <2> QED
    BY <1>1, <2>1, <2>8, <2>9, <2>10 DEF AdriftInv
<1> QED
  BY <1>7, <1>8, <1>9, <1>10, <1>11, <1>13, <1>14 DEF Next

-----------------------------------------------------------------------------
(* The invariant, and what the runs check of it, of every behaviour.       *)
LEMMA InvStep == IInv /\ [Next]_vars => IInv'
<1> SUFFICES ASSUME IInv, [Next]_vars PROVE IInv'
  OBVIOUS
<1>1. TypeOK /\ ShapeInv /\ FailInv /\ HeldInv /\ StopInv /\ SyncInv /\ AdriftInv
  BY DEF IInv
<1>2. TypeOK' /\ ShapeInv' /\ FailInv' /\ HeldInv'
  BY <1>1, TypeStep, ShapeStep, FailStep, HeldStep
<1>3. StopInv' /\ SyncInv'
  BY <1>1, StopStep, SyncStep
<1>4. AdriftInv'
  BY <1>1, <1>2, <1>3, AdriftStep
<1> QED
  BY <1>2, <1>3, <1>4 DEF IInv

(* The inductive invariant, for all pages, writes and failures.            *)
THEOREM InvAlways == Spec => []IInv
BY InitInv, InvStep, PTL DEF Spec

(* Every variable of the driver, of the bus and of the chip has its type.  *)
THEOREM TypeCorrect == Spec => []TypeOK
BY InvAlways, PTL DEF IInv

(* FrameArrived, for every sequence of pages and of failing operations: a  *)
(* transaction reported as good has arrived whole, and up to two failures  *)
(* the chip takes the bytes that were sent and no others.                  *)
THEOREM FrameArrivedAlways == Spec => []FrameArrived
<1>1. IInv => FrameArrived
  <2> SUFFICES ASSUME IInv PROVE FrameArrived
    OBVIOUS
  <2>1. TypeOK /\ SyncInv /\ AdriftInv
    BY DEF IInv
  <2>2. ASSUME Transacted, Result PROVE Taken = frame
    <3>1. Took(Len(frame)) /\ frame \in Seq(Byte)
      BY <2>1, <2>2 DEF SyncInv, Transacted, TypeOK
    <3>2. DOMAIN chip.taken = 1..Len(frame)
      BY <2>1, <3>1, ChipParts DEF Took
    <3>3. Taken = [n \in 1..Len(frame) |-> frame[n]]
      BY <3>1, <3>2 DEF Took, Taken
    <3> QED
      BY <3>1, <3>3
  <2> QED
    BY <2>1, <2>2 DEF FrameArrived, AdriftInv
<1> QED
  BY InvAlways, <1>1, PTL

(* BusReleased: whatever fails, the stop is tried to its end, the lines    *)
(* are driven between request and release only, and everything acquired is *)
(* given back.                                                             *)
THEOREM BusReleasedAlways == Spec => []BusReleased
<1>1. IInv => BusReleased
  <2> SUFFICES ASSUME IInv PROVE BusReleased
    OBVIOUS
  <2>1. HeldInv /\ StopInv
    BY DEF IInv
  <2>2. {"clk", "dio"} \subseteq {Resources[i] : i \in 1..4}
    BY DEF Resources
  <2> QED
    BY <2>1, <2>2 DEF BusReleased, Transacted, HeldInv, StopInv, StopLines
<1> QED
  BY InvAlways, <1>1, PTL

(* FailureReported: the result is false exactly when something failed.     *)
THEOREM FailureReportedAlways == Spec => []FailureReported
<1>1. IInv => FailureReported
  BY DEF IInv, FailInv, FailureReported
<1> QED
  BY InvAlways, <1>1, PTL
=============================================================================
