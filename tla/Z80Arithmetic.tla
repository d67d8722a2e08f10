--------------------------- MODULE Z80Arithmetic ---------------------------
(***************************************************************************)
(* The arithmetic of the executor (src/z80_exec.c) and the flags it        *)
(* leaves, and programs that compute on numbers wider than a register with *)
(* it: a byte or a pair of registers at a time, the carry of one           *)
(* instruction going into the next, DAA behind it for decimal digits.      *)
(*                                                                         *)
(* Bits 3 and 5 of F are left out, as no instruction reads them.           *)
(***************************************************************************)
EXTENDS Integers, Sequences, FiniteSets

CONSTANTS
  Bytes, Decimals, Words,  \* limbs of a number: a byte, two decimal digits, a pair of registers
  Limbs                    \* bound: limbs of a number, which B counts

Byte == 0 .. 255
Word == 0 .. 65535
Bcd == {16 * t + u : t \in 0 .. 9, u \in 0 .. 9}

ASSUME ArithmeticAssumption ==
  /\ Bytes \subseteq Byte /\ Words \subseteq Word /\ Decimals \subseteq Bcd
  /\ Limbs \in 2 .. 256

VARIABLES
  kind,    \* what the program computes
  left, right,
  result,  \* left, with the limbs done replaced
  done,    \* how many they are
  running,
  f        \* the flags
sumVars == <<kind, left, right, result, done, running, f>>

----------------------------------------------------------------------------
(***************************************************************************)
(* Flags.                                                                  *)
(***************************************************************************)
Flags == [s : BOOLEAN, z : BOOLEAN, h : BOOLEAN, pv : BOOLEAN, n : BOOLEAN, c : BOOLEAN]

BitAt(v, mask) == (v \div mask) % 2
Differ(a, b, c, mask) == (BitAt(a, mask) + BitAt(b, mask) + BitAt(c, mask)) % 2 = 1
EvenParity(v) ==
  Cardinality({mask \in {1, 2, 4, 8, 16, 32, 64, 128} : BitAt(v, mask) = 1}) % 2 = 0
CarryIn(g) == IF g.c THEN 1 ELSE 0

FlagsSZ53(v) ==
  [s |-> v >= 128, z |-> v = 0, h |-> FALSE, pv |-> FALSE, n |-> FALSE, c |-> FALSE]
FlagsSZP53(v) == [FlagsSZ53(v) EXCEPT !.pv = EvenParity(v)]

Out(v, g) == [value |-> v, f |-> g]

(***************************************************************************)
(* Bytes.                                                                  *)
(***************************************************************************)
Add8(lhs, rhs, carry) ==
  LET sum == lhs + rhs + carry
      v == sum % 256
  IN Out(v, [FlagsSZ53(v) EXCEPT
               !.h = BitAt((lhs % 16) + (rhs % 16) + carry, 16) = 1,
               !.pv = BitAt(lhs, 128) = BitAt(rhs, 128) /\ BitAt(lhs, 128) # BitAt(v, 128),
               !.c = BitAt(sum, 256) = 1])

Sub8(lhs, rhs, carry) ==
  LET diff == (lhs - rhs - carry) % 65536
      v == diff % 256
  IN Out(v, [FlagsSZ53(v) EXCEPT
               !.n = TRUE,
               !.h = Differ(lhs, rhs, v, 16),
               !.pv = BitAt(lhs, 128) # BitAt(rhs, 128) /\ BitAt(lhs, 128) # BitAt(v, 128),
               !.c = BitAt(diff, 256) = 1])

Compare8(lhs, rhs) == Sub8(lhs, rhs, 0).f

(***************************************************************************)
(* A count leaves the carry alone, so that a loop may be counted between   *)
(* two limbs.                                                              *)
(***************************************************************************)
Inc8(v, g) ==
  LET r == (v + 1) % 256
  IN Out(r, [FlagsSZ53(r) EXCEPT !.h = v % 16 = 15, !.pv = v = 127, !.c = g.c])

Dec8(v, g) ==
  LET r == (v - 1) % 256
  IN Out(r, [FlagsSZ53(r) EXCEPT !.n = TRUE, !.h = v % 16 = 0, !.pv = v = 128, !.c = g.c])

Daa_NewCarryOnly(v, g) ==                        \* mutant: the carry that came in is not kept
  LET low == IF g.h \/ (~g.n /\ v % 16 > 9) THEN 6 ELSE 0
      high == IF g.c \/ (~g.n /\ v > 153) THEN 96 ELSE 0
      r == IF g.n THEN (v - low - high) % 256 ELSE (v + low + high) % 256
  IN Out(r, [FlagsSZP53(r) EXCEPT !.n = g.n, !.h = low = 6, !.c = ~g.n /\ v > 153])
Daa(v, g) ==
  LET low == IF g.h \/ (~g.n /\ v % 16 > 9) THEN 6 ELSE 0
      high == IF g.c \/ (~g.n /\ v > 153) THEN 96 ELSE 0
      r == IF g.n THEN (v - low - high) % 256 ELSE (v + low + high) % 256
  IN Out(r, [FlagsSZP53(r) EXCEPT !.n = g.n, !.h = low = 6, !.c = high = 96])

(***************************************************************************)
(* 0 .. 7 are RLC, RRC, RL, RR, SLA, SRA, SLL and SRL.                     *)
(***************************************************************************)
RotateCB(v, y, g) ==
  LET leftward == y \in {0, 2, 4, 6}
      out == IF leftward THEN BitAt(v, 128) ELSE BitAt(v, 1)
      in == CASE y \in {0, 1} -> out
              [] y \in {2, 3} -> CarryIn(g)
              [] y = 5 -> BitAt(v, 128)
              [] y = 6 -> 1
              [] OTHER -> 0
      r == IF leftward THEN ((2 * v) % 256) + in ELSE (v \div 2) + 128 * in
  IN Out(r, [FlagsSZP53(r) EXCEPT !.c = out = 1])

(***************************************************************************)
(* Pairs of registers.                                                     *)
(***************************************************************************)
Add16(lhs, rhs, g) ==
  LET sum == lhs + rhs
  IN Out(sum % 65536, [g EXCEPT !.h = BitAt((lhs % 4096) + (rhs % 4096), 4096) = 1, !.n = FALSE,
                                !.c = BitAt(sum, 65536) = 1])

Add16Carry(lhs, rhs, carry) ==
  LET sum == lhs + rhs + carry
      v == sum % 65536
  IN Out(v, [s |-> BitAt(v, 32768) = 1, z |-> v = 0, n |-> FALSE,
             h |-> BitAt((lhs % 4096) + (rhs % 4096) + carry, 4096) = 1,
             pv |-> BitAt(lhs, 32768) = BitAt(rhs, 32768) /\ BitAt(lhs, 32768) # BitAt(v, 32768),
             c |-> BitAt(sum, 65536) = 1])

Sub16Carry(lhs, rhs, carry) ==
  LET v == (lhs - rhs - carry) % 65536
  IN Out(v, [s |-> BitAt(v, 32768) = 1, z |-> v = 0, n |-> TRUE,
             h |-> Differ(lhs, rhs, v, 4096),
             pv |-> BitAt(lhs, 32768) # BitAt(rhs, 32768) /\ BitAt(lhs, 32768) # BitAt(v, 32768),
             c |-> lhs - rhs - carry < 0])

----------------------------------------------------------------------------
(***************************************************************************)
(* The programs.  A number has its lowest limb first; all but the shifts   *)
(* to the right and the comparison start there.  addHigh and subHigh work  *)
(* on a byte and then on a pair, addLow and subLow the other way round.    *)
(***************************************************************************)
Sums == {"add", "addHigh", "addLow"}
Differences == {"sub", "subHigh", "subLow"}
Decimally == {"addBcd", "subBcd"}
Leftward == {"shiftLeft", "shiftLeftOne"}
Rightward == {"shiftRight", "shiftRightSigned"}
Unary == {"increment"} \cup Leftward \cup Rightward
Kinds == Sums \cup Differences \cup Decimally \cup Unary \cup {"compare"}

Numbers(k) ==
  CASE k \in {"addHigh", "subHigh"} -> Bytes \X Words
    [] k \in {"addLow", "subLow"} -> Words \X Bytes
    [] k \in Decimally -> [1 .. Limbs -> Decimals]
    [] OTHER -> [1 .. Limbs -> Bytes]

Radix(k) ==
  CASE k \in {"addHigh", "subHigh"} -> <<256, 65536>>
    [] k \in {"addLow", "subLow"} -> <<65536, 256>>
    [] k \in Decimally -> [i \in 1 .. Limbs |-> 100]
    [] OTHER -> [i \in 1 .. Limbs |-> 256]

InitSum ==
  /\ kind \in Kinds
  /\ left \in Numbers(kind)
  /\ right \in IF kind \in Unary THEN {left} ELSE Numbers(kind)
  /\ f \in {[FlagsSZ53(1) EXCEPT !.c = c] : c \in BOOLEAN}
  /\ result = left /\ done = 0 /\ running = TRUE

Limb == IF kind \in {"compare"} \cup Rightward THEN Len(left) - done ELSE done + 1
Carry == IF done = 0 THEN 0 ELSE CarryIn(f)

Put(out, flags, more) ==
  /\ running
  /\ result' = [result EXCEPT ![Limb] = out]
  /\ f' = flags
  /\ done' = done + 1
  /\ running' = (more /\ done + 1 < Len(left))
  /\ UNCHANGED <<kind, left, right>>

(***************************************************************************)
(* ADD or SUB, then ADC or SBC, on A or HL, counted by DJNZ.  There is no  *)
(* subtraction from HL without the carry: OR A clears it first.            *)
(***************************************************************************)
AddLimbs ==
  /\ kind \in Sums \cup Differences
  /\ LET lhs == left[Limb]  rhs == right[Limb]
         byte == Radix(kind)[Limb] = 256
         r == IF kind \in Differences
              THEN IF byte THEN Sub8(lhs, rhs, Carry) ELSE Sub16Carry(lhs, rhs, Carry)
              ELSE IF byte THEN Add8(lhs, rhs, Carry)
              ELSE IF done = 0 THEN Add16(lhs, rhs, f) ELSE Add16Carry(lhs, rhs, Carry)
     IN Put(r.value, r.f, TRUE)

(***************************************************************************)
(* The same with DAA, counted by DEC B and JR NZ.                          *)
(***************************************************************************)
AddDecimals ==
  /\ kind \in Decimally
  /\ LET r == IF kind = "addBcd" THEN Add8(left[Limb], right[Limb], Carry)
              ELSE Sub8(left[Limb], right[Limb], Carry)
         digits == Daa(r.value, r.f)
         counted == Dec8(Len(left) - done, digits.f).f
     IN Put(digits.value, counted, ~counted.z)

(***************************************************************************)
(* CP from the highest byte while the bytes are equal.                     *)
(***************************************************************************)
CompareBytes ==
  /\ kind = "compare"
  /\ LET g == Compare8(left[Limb], right[Limb]) IN Put(left[Limb], g, g.z)

(***************************************************************************)
(* INC while a byte becomes zero.                                          *)
(***************************************************************************)
IncrementBytes ==
  /\ kind = "increment"
  /\ LET r == Inc8(left[Limb], f) IN Put(r.value, r.f, r.f.z)

(***************************************************************************)
(* SLA or SLL, then RL; SRL or SRA, then RR.                               *)
(***************************************************************************)
ShiftBytes ==
  /\ kind \in Leftward \cup Rightward
  /\ LET first == [shiftLeft |-> 4, shiftLeftOne |-> 6, shiftRight |-> 7, shiftRightSigned |-> 5]
         next == IF kind \in Leftward THEN 2 ELSE 3
         r == RotateCB(left[Limb], IF done = 0 THEN first[kind] ELSE next, f)
     IN Put(r.value, r.f, TRUE)

NextSum == AddLimbs \/ AddDecimals \/ CompareBytes \/ IncrementBytes \/ ShiftBytes

SpecSum == InitSum /\ [][NextSum]_sumVars

----------------------------------------------------------------------------
(***************************************************************************)
(* The numbers the limbs stand for.                                        *)
(***************************************************************************)
Weights(radix) ==
  LET w[k \in 0 .. Len(radix)] == IF k = 0 THEN 1 ELSE radix[k] * w[k - 1] IN w

\* The number the lowest k limbs make, for each k.
Partial(limbs, weight) ==
  LET n[k \in 0 .. Len(limbs)] == IF k = 0 THEN 0 ELSE n[k - 1] + limbs[k] * weight[k - 1]
  IN n

Weight == Weights(Radix(kind))
Modulus == Weight[Len(left)]
Number(limbs) == Partial(limbs, Weight)[Len(limbs)]

Decimal(b) == 10 * (b \div 16) + (b % 16)
Value(limbs) ==
  IF kind \in Decimally THEN Number([k \in DOMAIN limbs |-> Decimal(limbs[k])]) ELSE Number(limbs)

Signed(v) == IF 2 * v >= Modulus THEN v - Modulus ELSE v

(***************************************************************************)
(* A chain of byte instructions computes on the whole number: the result   *)
(* is the wide one and the carry that leaves the last limb tells overflow  *)
(* or borrow, a bit shifted out, or below; for a sum the sign and the      *)
(* overflow flag are those of the whole number, and S and PV after a       *)
(* difference tell less than for signed numbers.  No instruction between   *)
(* two limbs may touch the carry, and DAA keeps it through all digits.     *)
(***************************************************************************)
SequenceIsWide ==
  ~running =>
    LET a == Value(left)  b == Value(right)  r == Value(result)
        exact(wide, signed) ==
          /\ r = wide % Modulus
          /\ f.c = (wide >= Modulus \/ wide < 0)
          /\ f.s = (2 * r >= Modulus)
          /\ f.pv = (Signed(r) # signed)
    IN /\ kind \in Sums => exact(a + b, Signed(a) + Signed(b))
       /\ kind \in Differences =>
            exact(a - b, Signed(a) - Signed(b)) /\ (f.s # f.pv) = (Signed(a) < Signed(b))
       /\ kind = "addBcd" => r = (a + b) % Modulus /\ f.c = (a + b >= Modulus)
       /\ kind = "subBcd" => r = (a - b) % Modulus /\ f.c = (a < b)
       /\ kind = "compare" => f.c = (a < b) /\ f.z = (a = b)
       /\ kind = "increment" => r = (a + 1) % Modulus /\ f.z = (r = 0)
       /\ kind = "shiftLeft" => r = (2 * a) % Modulus /\ f.c = (2 * a >= Modulus)
       /\ kind = "shiftLeftOne" => r = (2 * a + 1) % Modulus /\ f.c = (2 * a >= Modulus)
       /\ kind = "shiftRight" => r = a \div 2 /\ f.c = (a % 2 = 1)
       /\ kind = "shiftRightSigned" => Signed(r) = Signed(a) \div 2 /\ f.c = (a % 2 = 1)
=============================================================================
