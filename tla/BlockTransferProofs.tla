------------------------ MODULE BlockTransferProofs ------------------------
(***************************************************************************)
(* What a block instruction has done when it ends, for every size of a     *)
(* byte, every state it starts in and any number of interrupts between     *)
(* its rounds.                                                             *)
(***************************************************************************)
EXTENDS BlockTransfer, SequenceTheorems, TLAPS

----------------------------------------------------------------------------
(***************************************************************************)
(* Arithmetic modulo a size.  A number is its quotient and its rest.       *)
(***************************************************************************)
LEMMA ModParts ==
  ASSUME NEW m \in Nat \ {0}, NEW x \in Int
  PROVE x % m \in 0 .. m - 1 /\ x \div m \in Int /\ x = (x \div m) * m + (x % m)
OBVIOUS

(***************************************************************************)
(* They are the only ones.                                                 *)
(***************************************************************************)
LEMMA ModUnique ==
  ASSUME NEW m \in Nat \ {0}, NEW q \in Int, NEW r \in 0 .. m - 1
  PROVE (q * m + r) % m = r /\ (q * m + r) \div m = q
<1> PICK x \in Int : x = q * m + r
  OBVIOUS
<1> PICK p \in Int, s \in 0 .. m - 1 : p = x \div m /\ s = x % m
  BY ModParts
<1>1. q * m + r = p * m + s
  BY ModParts
<1>2. CASE p = q
  <2>1. q * m \in Int /\ p * m = q * m
    BY <1>2
  <2> QED BY <1>1, <1>2, <2>1
<1>3. CASE p > q
  <2> PICK t \in Nat : p = q + 1 + t
    BY <1>3
  <2>1. p * m = q * m + m + t * m /\ t * m \in Nat /\ q * m \in Int
    OBVIOUS
  <2> QED BY <1>1, <2>1
<1>4. CASE q > p
  <2> PICK t \in Nat : q = p + 1 + t
    BY <1>4
  <2>1. q * m = p * m + m + t * m /\ t * m \in Nat /\ p * m \in Int
    OBVIOUS
  <2> QED BY <1>1, <2>1
<1> QED BY <1>2, <1>3, <1>4

(***************************************************************************)
(* A sum may be reduced on the way.                                        *)
(***************************************************************************)
LEMMA ModSum ==
  ASSUME NEW m \in Nat \ {0}, NEW x \in Int, NEW y \in Int
  PROVE ((x % m) + y) % m = (x + y) % m
<1> PICK p \in Int, r \in 0 .. m - 1 : x % m = r /\ x = p * m + r
  BY ModParts
<1> PICK z \in Int : z = r + y
  OBVIOUS
<1> PICK q \in Int, s \in 0 .. m - 1 : z % m = s /\ z = q * m + s
  BY ModParts
<1>1. x + y = (p + q) * m + s
  <2>1. p * m \in Int /\ q * m \in Int /\ s \in Int /\ (p + q) * m = p * m + q * m
    OBVIOUS
  <2>2. x + y = p * m + z
    BY <2>1
  <2> QED BY <2>1, <2>2
<1>2. (x + y) % m = s
  <2> PICK u \in Int : u = p + q
    OBVIOUS
  <2>1. (u * m + s) % m = s
    BY ModUnique
  <2> QED BY <1>1, <2>1
<1> QED BY <1>2

(***************************************************************************)
(* Numbers that are less than the size apart differ modulo it.             *)
(***************************************************************************)
LEMMA ModDiffers ==
  ASSUME NEW m \in Nat \ {0}, NEW x \in Int, NEW y \in Int, x < y, y < x + m
  PROVE x % m # y % m
<1> SUFFICES ASSUME x % m = y % m PROVE FALSE
  OBVIOUS
<1>0. /\ x % m \in 0 .. m - 1 /\ x \div m \in Int /\ x = (x \div m) * m + (x % m)
      /\ y \div m \in Int /\ y = (y \div m) * m + (x % m)
  BY ModParts
<1> PICK p \in Int : p = x \div m
  BY <1>0
<1> PICK q \in Int : q = y \div m
  BY <1>0
<1> PICK r \in 0 .. m - 1 : x = p * m + r /\ y = q * m + r
  BY <1>0
<1>1. CASE q > p
  <2> PICK t \in Nat : q = p + 1 + t
    BY <1>1
  <2>1. q * m = p * m + m + t * m /\ t * m \in Nat /\ p * m \in Int
    OBVIOUS
  <2> QED BY <2>1
<1>2. CASE q <= p
  <2> PICK t \in Nat : p = q + t
    BY <1>2
  <2>1. p * m = q * m + t * m /\ t * m \in Nat /\ q * m \in Int
    OBVIOUS
  <2> QED BY <2>1
<1> QED BY <1>1, <1>2

----------------------------------------------------------------------------
(***************************************************************************)
(* Addresses.  There are four at least.                                    *)
(***************************************************************************)
LEMMA AddrSpaceType == AddrSpace \in Nat \ {0} /\ AddrSpace >= 4 /\ Base <= AddrSpace
<1>0. Base - 2 \in Nat
  BY BaseAssumption
<1> PICK c \in Nat : c = Base - 2
  BY <1>0
<1>1. Base = 2 + c
  BY BaseAssumption
<1>2. Base * Base = 4 + 4 * c + c * c /\ c * c \in Nat
  BY <1>1
<1> QED BY <1>1, <1>2 DEF AddrSpace

(***************************************************************************)
(* What was reduced is an address.                                         *)
(***************************************************************************)
LEMMA AddrMod ==
  ASSUME NEW x \in Int PROVE x % AddrSpace \in Addr
BY AddrSpaceType, ModParts DEF Addr

(***************************************************************************)
(* The address so many rounds from one, with the direction as an argument. *)
(***************************************************************************)
Steps(down, i) == IF down THEN -i ELSE i
Go(down, x, i) == (x + Steps(down, i)) % AddrSpace

(***************************************************************************)
(* Rounds lead to addresses.                                               *)
(***************************************************************************)
LEMMA GoType ==
  ASSUME NEW down \in BOOLEAN, NEW x \in Addr, NEW i \in Int
  PROVE Go(down, x, i) \in Addr
BY AddrMod DEF Go, Steps, Addr

(***************************************************************************)
(* No round leads nowhere.                                                 *)
(***************************************************************************)
LEMMA GoZero ==
  ASSUME NEW down \in BOOLEAN, NEW x \in Addr PROVE Go(down, x, 0) = x
<1>1. x \in 0 .. AddrSpace - 1 /\ AddrSpace \in Nat \ {0}
  BY AddrSpaceType DEF Addr
<1>2. x % AddrSpace = x
  BY <1>1
<1>3. x + Steps(down, 0) = x
  BY <1>1 DEF Steps
<1> QED BY <1>2, <1>3 DEF Go

(***************************************************************************)
(* Rounds add up.                                                          *)
(***************************************************************************)
LEMMA GoSum ==
  ASSUME NEW down \in BOOLEAN, NEW x \in Addr, NEW i \in Int, NEW j \in Int
  PROVE Go(down, Go(down, x, i), j) = Go(down, x, i + j)
<1> DEFINE s == x + Steps(down, i)
           t == Steps(down, j)
<1>1. s \in Int /\ t \in Int /\ s + t = x + Steps(down, i + j)
  BY AddrSpaceType DEF Addr, Steps
<1> HIDE DEF s, t
<1>2. ((s % AddrSpace) + t) % AddrSpace = (s + t) % AddrSpace
  BY <1>1, AddrSpaceType, ModSum
<1> QED BY <1>1, <1>2 DEF Go, s, t

(***************************************************************************)
(* Fewer rounds than there are addresses never lead to the same one.       *)
(***************************************************************************)
LEMMA GoDiffers ==
  ASSUME NEW down \in BOOLEAN, NEW x \in Addr, NEW i \in Int, NEW j \in Int,
         i < j, j < i + AddrSpace
  PROVE Go(down, x, i) # Go(down, x, j)
<1> DEFINE s == x + Steps(down, i)
           t == x + Steps(down, j)
<1>1. /\ s \in Int /\ t \in Int /\ AddrSpace \in Nat \ {0}
      /\ (s < t /\ t < s + AddrSpace) \/ (t < s /\ s < t + AddrSpace)
  BY AddrSpaceType DEF Addr, Steps
<1> HIDE DEF s, t
<1>2. s % AddrSpace # t % AddrSpace
  BY <1>1, ModDiffers
<1> QED BY <1>2 DEF Go, s, t

(***************************************************************************)
(* Two bytes make an address.                                              *)
(***************************************************************************)
LEMMA JoinBytes ==
  ASSUME NEW h \in Byte, NEW l \in Byte
  PROVE /\ h * Base + l \in Addr
        /\ (h * Base + l) \div Base = h /\ (h * Base + l) % Base = l
<1>1. Base \in Nat \ {0} /\ h \in Nat /\ l \in 0 .. Base - 1
  BY BaseAssumption DEF Byte
<1>2. Base - h - 1 \in Nat
  BY <1>1 DEF Byte
<1> PICK c \in Nat : c = Base - h - 1
  BY <1>2
<1>3. Base = h + 1 + c
  BY <1>1
<1>4. /\ Base * Base = (h + 1 + c) * Base
      /\ (h + 1 + c) * Base = h * Base + Base + c * Base
      /\ h * Base \in Nat /\ c * Base \in Nat
  BY <1>1, <1>3
<1>5. h * Base + l \in Addr
  BY <1>1, <1>4 DEF Addr, AddrSpace
<1>6. (h * Base + l) % Base = l /\ (h * Base + l) \div Base = h
  BY <1>1, ModUnique
<1> QED BY <1>5, <1>6

(***************************************************************************)
(* An address is a high byte and a low one.                                *)
(***************************************************************************)
LEMMA SplitWord ==
  ASSUME NEW x \in Addr
  PROVE /\ x \div Base \in Byte /\ x % Base \in Byte
        /\ x = (x \div Base) * Base + (x % Base)
<1>1. Base \in Nat \ {0} /\ x \in Nat /\ x < Base * Base
  BY BaseAssumption, AddrSpaceType DEF Addr, AddrSpace
<1>0. x % Base \in 0 .. Base - 1 /\ x \div Base \in Int /\ x = (x \div Base) * Base + (x % Base)
  BY <1>1, ModParts
<1> PICK q \in Int, r \in 0 .. Base - 1 : q = x \div Base /\ r = x % Base
  BY <1>0
<1>2. x = q * Base + r
  BY <1>0
<1>3. q >= 0
  <2> SUFFICES ASSUME q < 0 PROVE FALSE
    OBVIOUS
  <2>1. 0 - q - 1 \in Nat
    OBVIOUS
  <2> PICK t \in Nat : q = 0 - 1 - t
    BY <2>1
  <2>2. q * Base = 0 - Base - t * Base /\ t * Base \in Nat
    BY <1>1
  <2> QED BY <1>1, <1>2, <2>2
<1>4. q < Base
  <2> SUFFICES ASSUME q >= Base PROVE FALSE
    BY <1>1
  <2>1. q - Base \in Nat
    BY <1>1
  <2> PICK t \in Nat : q = Base + t
    BY <1>1, <2>1
  <2>2. q * Base = Base * Base + t * Base /\ t * Base \in Nat /\ Base * Base \in Nat
    BY <1>1
  <2> QED BY <1>1, <1>2, <2>2
<1> QED BY <1>1, <1>2, <1>3, <1>4 DEF Byte

(***************************************************************************)
(* B is decremented by subtracting from BC what it counts.                 *)
(***************************************************************************)
LEMMA CountDown ==
  ASSUME bc \in Addr
  PROVE /\ B \in Byte /\ DecrementB \in Addr
        /\ DecrementB = (bc - Base) % AddrSpace
        /\ DecrementB \div Base = (B - 1) % Base
<1> PICK h \in Byte, l \in Byte : h = B /\ l = bc % Base /\ bc = h * Base + l
  BY SplitWord DEF B
<1>1. /\ Base \in Nat /\ Base > 1 /\ h \in Nat /\ h < Base /\ l \in Nat /\ l < Base
      /\ h * Base \in Nat
  BY BaseAssumption DEF Byte
<1>0. (h - 1) % Base \in Byte
  BY <1>1, ModParts DEF Byte
<1> PICK g \in Byte : g = (h - 1) % Base
  BY <1>0
<1>2. DecrementB = g * Base + l
  BY DEF DecrementB
<1>3. g * Base + l \in Addr /\ (g * Base + l) \div Base = g
  BY JoinBytes
<1>4. g * Base + l = (bc - Base) % AddrSpace
  <2>1. CASE h > 0
    <3>1. g = h - 1
      BY <1>1, <2>1
    <3>2. g * Base + l = bc - Base
      BY <1>1, <3>1
    <3> QED BY <1>3, <3>2, AddrSpaceType DEF Addr
  <2>2. CASE h = 0
    <3>1. g = Base - 1
      BY <1>1, <2>2
    <3>2. g * Base + l = (bc - Base) + AddrSpace
      BY <1>1, <2>2, <3>1 DEF AddrSpace
    <3> PICK r \in 0 .. AddrSpace - 1 : r = g * Base + l
      BY <1>3 DEF Addr
    <3> PICK q \in Int : q = 0 - 1
      OBVIOUS
    <3>3. bc - Base = q * AddrSpace + r
      BY <1>1, <3>2, AddrSpaceType DEF Addr
    <3>4. (q * AddrSpace + r) % AddrSpace = r
      BY AddrSpaceType, ModUnique
    <3> QED BY <3>3, <3>4
  <2> QED BY <1>1, <2>1, <2>2
<1> QED BY <1>2, <1>3, <1>4

----------------------------------------------------------------------------
(***************************************************************************)
(* Types.                                                                  *)
(***************************************************************************)
PortAccess == [port : Addr, data : Byte]

BlockTypes ==
  /\ instruction \in Instruction /\ start \in State
  /\ memory \in [Addr -> Byte]
  /\ pc \in Addr /\ sp \in Addr /\ hl \in Addr /\ de \in Addr /\ bc \in Addr
  /\ zero \in BOOLEAN /\ inHandler \in BOOLEAN /\ interrupts \in Nat
  /\ ports \in Seq(PortAccess)

(***************************************************************************)
(* Every step keeps the types.                                             *)
(***************************************************************************)
LEMMA BlockTypeStep ==
  ASSUME BlockTypes, [Next]_vars PROVE BlockTypes'
<1>1. /\ \A x \in Addr : x - 1 \in Int /\ x - 2 \in Int /\ x + 1 \in Int /\ x + 2 \in Int
      /\ \A x \in Int : x % AddrSpace \in Addr
  BY AddrMod, AddrSpaceType DEF Addr
<1>2. \A x \in Addr : After(x) \in Addr
  BY AddrMod, AddrSpaceType DEF After, Addr
<1>3. DecrementB \in Addr
  BY CountDown DEF BlockTypes
<1>4. ASSUME NEW family, Round(family)
      PROVE /\ hl' \in Addr /\ sp' \in Addr /\ instruction' \in Instruction /\ start' \in State
            /\ inHandler' \in BOOLEAN /\ interrupts' \in Nat
            /\ memory[hl] \in Byte /\ After(de) \in Addr /\ (bc - 1) % AddrSpace \in Addr
            /\ \A more : Repeat(more) => pc' \in Addr
  BY <1>1, <1>2, <1>4 DEF Round, Repeat, BlockTypes
<1>5. CASE Transfer
  <2>1. Round("LD")
    BY <1>5 DEF Transfer
  <2> QED BY <1>4, <1>5, <2>1 DEF Transfer, BlockTypes
<1>6. CASE Search
  <2>1. Round("CP")
    BY <1>6 DEF Search
  <2> QED BY <1>4, <1>6, <2>1 DEF Search, BlockTypes
<1>7. CASE Input
  <2>1. Round("IN")
    BY <1>7 DEF Input
  <2>2. \A data \in Byte : [port |-> bc, data |-> data] \in PortAccess
    BY DEF PortAccess, BlockTypes
  <2>3. \A data \in Byte : Append(ports, [port |-> bc, data |-> data]) \in Seq(PortAccess)
    BY <2>2 DEF BlockTypes
  <2> QED BY <1>3, <1>4, <1>7, <2>1, <2>3 DEF Input, BlockTypes
<1>8. CASE Output
  <2>1. Round("OT")
    BY <1>8 DEF Output
  <2>2. [port |-> bc, data |-> memory[hl]] \in PortAccess
    BY DEF PortAccess, BlockTypes
  <2>3. Append(ports, [port |-> bc, data |-> memory[hl]]) \in Seq(PortAccess)
    BY <2>2 DEF BlockTypes
  <2> QED BY <1>3, <1>4, <1>8, <2>1, <2>3 DEF Output, BlockTypes
<1>9. CASE AcceptInterrupt
  <2>1. pc \div Base \in Byte /\ pc % Base \in Byte
    BY SplitWord DEF BlockTypes
  <2>2. memory' \in [Addr -> Byte]
    BY <1>9, <2>1 DEF AcceptInterrupt, Push16, BlockTypes
  <2>3. sp' \in Addr
    BY <1>1, <1>9 DEF AcceptInterrupt, Push16, BlockTypes
  <2> QED BY <1>9, <2>2, <2>3, OpcodesAssumption DEF AcceptInterrupt, BlockTypes
<1>10. CASE ReturnFromHandler
  <2>1. memory[(sp + 1) % AddrSpace] \in Byte /\ memory[sp] \in Byte
    BY <1>1 DEF BlockTypes
  <2>2. pc' \in Addr
    BY <1>10, <2>1, JoinBytes DEF ReturnFromHandler
  <2> QED BY <1>1, <1>10, <2>2 DEF ReturnFromHandler, BlockTypes
<1>11. CASE UNCHANGED vars
  BY <1>11 DEF vars, cpuVars, BlockTypes
<1> QED BY <1>5, <1>6, <1>7, <1>8, <1>9, <1>10, <1>11 DEF Next, Step, Ended

(***************************************************************************)
(* The state an instruction starts in.                                     *)
(***************************************************************************)
LEMMA StartTypes ==
  ASSUME start \in State
  PROVE /\ start.memory \in [Addr -> Byte] /\ start.pc \in Addr /\ start.sp \in Addr
        /\ start.hl \in Addr /\ start.de \in Addr /\ start.bc \in Addr
BY DEF State

(***************************************************************************)
(* It is one of these.                                                     *)
(***************************************************************************)
LEMMA BlockTypesInit ==
  ASSUME Init PROVE BlockTypes
<1>1. start \in State /\ instruction \in Instruction
  BY InputsAssumption DEF Init
<1>2. ports \in Seq(PortAccess)
  BY DEF Init
<1> QED BY <1>1, <1>2, StartTypes DEF Init, BlockTypes

----------------------------------------------------------------------------
(***************************************************************************)
(* What has been done after so many rounds.                                *)
(***************************************************************************)
Pattern(i) == start.memory[Toward(start.hl, IF Distance = 0 THEN i ELSE i % Distance)]

WrittenBy(n) == CASE instruction.family = "LD" -> Block(start.de, n)
                  [] instruction.family = "IN" -> Block(start.hl, n)
                  [] OTHER -> {}

Copied(n) ==
  /\ de = Toward(start.de, n) /\ bc = (start.bc - n) % AddrSpace
  /\ \A i \in 0 .. n - 1 : memory[Toward(start.de, i)] = Pattern(i)

Searched(n) ==
  /\ bc = (start.bc - n) % AddrSpace
  /\ zero => n > 0
  /\ \A i \in 0 .. n - 1 : start.memory[Toward(start.hl, i)] = a <=> zero /\ i = n - 1

Passed(n) ==
  /\ bc = (start.bc - n * Base) % AddrSpace
  /\ B = ((start.bc \div Base) - n) % Base
  /\ Len(ports) = n
  /\ \A i \in 0 .. n - 1 : /\ ports[i + 1].port = (start.bc - i * Base) % AddrSpace
                           /\ ports[i + 1].data = memory[Toward(start.hl, i)]

Accessed(n) ==
  /\ hl = Toward(start.hl, n)
  /\ instruction.family = "LD" => Copied(n)
  /\ instruction.family = "CP" => Searched(n)
  /\ instruction.family \in {"IN", "OT"} => Passed(n)
  /\ \A x \in Addr \ (WrittenBy(n) \union Stack) : memory[x] = start.memory[x]

(***************************************************************************)
(* The instruction goes on as long as rounds are left and nothing was      *)
(* found, and the handler of an interrupt returns to it.                   *)
(***************************************************************************)
More(n) == n < Limit /\ ~(instruction.family = "CP" /\ zero)

Control(n) ==
  IF inHandler
  THEN /\ More(n)
       /\ sp = (start.sp - 2) % AddrSpace
       /\ memory[(sp + 1) % AddrSpace] * Base + memory[sp] = start.pc
  ELSE /\ sp = start.sp
       /\ pc = IF More(n) THEN start.pc ELSE (start.pc + 2) % AddrSpace

BlockInv == Apart => \E n \in 0 .. Limit : Accessed(n) /\ Control(n)

----------------------------------------------------------------------------
(***************************************************************************)
(* The block and the rounds it takes are fixed at the start.               *)
(***************************************************************************)
LEMMA Fixed ==
  ASSUME UNCHANGED <<instruction, start>>
  PROVE /\ Apart' = Apart /\ Limit' = Limit /\ Stack' = Stack
        /\ \A i : /\ Toward(start.hl, i)' = Toward(start.hl, i)
                  /\ Toward(start.de, i)' = Toward(start.de, i)
                  /\ Pattern(i)' = Pattern(i)
                  /\ WrittenBy(i)' = WrittenBy(i)
<1>1. Limit' = Limit /\ Stack' = Stack
  BY DEF Limit, Stack
<1>2. \A i : /\ Toward(start.hl, i)' = Toward(start.hl, i)
             /\ Toward(start.de, i)' = Toward(start.de, i)
  BY DEF Toward
<1>3. Distance' = Distance
  BY DEF Distance
<1>4. \A i : Pattern(i)' = Pattern(i)
  BY <1>3 DEF Pattern, Toward
<1>5. \A i : Block(start.hl, i)' = Block(start.hl, i) /\ Block(start.de, i)' = Block(start.de, i)
  BY DEF Block, Toward
<1>6. Block(start.hl, Limit)' = Block(start.hl, Limit) /\ Block(start.de, Limit)' = Block(start.de, Limit)
  BY <1>1 DEF Block, Toward
<1>7. \A i : WrittenBy(i)' = WrittenBy(i)
  BY <1>5 DEF WrittenBy
<1>8. Written' = Written /\ Read' = Read /\ Code' = Code
  BY <1>6 DEF Written, Read, Code
<1>9. Apart' = Apart
  BY <1>1, <1>8 DEF Apart
<1> QED BY <1>1, <1>2, <1>4, <1>7, <1>9

(***************************************************************************)
(* Addresses of a block.                                                   *)
(***************************************************************************)
LEMMA TowardGoes ==
  ASSUME BlockTypes, NEW x \in Addr
  PROVE /\ instruction.decrement \in BOOLEAN
        /\ \A i : Toward(x, i) = Go(instruction.decrement, x, i)
        /\ \A i \in Int : Toward(x, i) \in Addr
        /\ Toward(x, 0) = x
        /\ \A i \in Int : After(Toward(x, i)) = Toward(x, i + 1)
        /\ \A i, j \in Int : i < j /\ j < i + AddrSpace => Toward(x, i) # Toward(x, j)
<1> PICK down \in BOOLEAN : down = instruction.decrement
  BY DEF BlockTypes, Instruction
<1>1. \A y, i : Toward(y, i) = Go(down, y, i)
  BY DEF Toward, Go, Steps
<1>2. \A i \in Int : Go(down, x, i) \in Addr
  BY GoType
<1>3. \A y : After(y) = Go(down, y, 1)
  BY DEF After, Go, Steps
<1>4. \A i \in Int : Go(down, Go(down, x, i), 1) = Go(down, x, i + 1)
  BY GoSum
<1>5. \A i, j \in Int : i < j /\ j < i + AddrSpace => Go(down, x, i) # Go(down, x, j)
  BY GoDiffers
<1> QED BY <1>1, <1>2, <1>3, <1>4, <1>5, GoZero

(***************************************************************************)
(* One more round is one more address.                                     *)
(***************************************************************************)
LEMMA BlockGrows ==
  ASSUME NEW x, NEW n \in Nat
  PROVE \A y : y \in Block(x, n + 1) <=> y \in Block(x, n) \/ y = Toward(x, n)
<1>1. \A i : i \in 0 .. n <=> i \in 0 .. n - 1 \/ i = n
  OBVIOUS
<1>2. (n + 1) - 1 = n
  OBVIOUS
<1> QED BY <1>1, <1>2 DEF Block

(***************************************************************************)
(* A count of 0 is one of all its values, and each takes a round.          *)
(***************************************************************************)
LEMMA CountEnds ==
  ASSUME NEW size \in Nat \ {0}, NEW c \in 0 .. size - 1, NEW limit,
         limit = IF c = 0 THEN size ELSE c, NEW m \in 1 .. limit
  PROVE (c - m) % size = 0 <=> m = limit
<1> PICK q \in Int : q = 0 - 1
  OBVIOUS
<1>1. CASE c # 0
  <2>1. c - m \in 0 .. size - 1
    BY <1>1
  <2>2. (c - m) % size = c - m
    BY <2>1
  <2> QED BY <1>1, <2>2
<1>2. CASE c = 0 /\ m # limit
  <2> PICK r \in 0 .. size - 1 : r = size - m /\ r # 0
    BY <1>2
  <2>1. c - m = q * size + r
    BY <1>2
  <2> QED BY <1>2, <2>1, ModUnique
<1>3. CASE c = 0 /\ m = limit
  <2>1. c - m = q * size + 0 /\ 0 \in 0 .. size - 1
    BY <1>3
  <2>2. (q * size + 0) % size = 0
    BY <2>1, ModUnique
  <2> QED BY <1>3, <2>1, <2>2
<1> QED BY <1>1, <1>2, <1>3

(***************************************************************************)
(* The rounds of a block.                                                  *)
(***************************************************************************)
LEMMA LimitType ==
  ASSUME BlockTypes
  PROVE /\ Limit \in Nat /\ 0 < Limit /\ Limit <= AddrSpace
        /\ ~instruction.repeat => Limit = 1
        /\ instruction.family \in {"LD", "CP"} /\ instruction.repeat =>
             \A m \in 1 .. Limit : (start.bc - m) % AddrSpace = 0 <=> m = Limit
        /\ instruction.family \notin {"LD", "CP"} =>
             /\ Limit <= Base
             /\ instruction.repeat =>
                  \A m \in 1 .. Limit : ((start.bc \div Base) - m) % Base = 0 <=> m = Limit
<1> PICK c \in Addr : c = start.bc
  BY StartTypes DEF BlockTypes
<1> PICK b \in Byte : b = c \div Base
  BY SplitWord
<1>1. /\ c \in 0 .. AddrSpace - 1 /\ AddrSpace \in Nat \ {0} /\ Base <= AddrSpace
      /\ b \in 0 .. Base - 1 /\ Base \in Nat \ {0}
  BY AddrSpaceType, BaseAssumption DEF Addr, Byte
<1>2. CASE ~instruction.repeat
  BY <1>1, <1>2 DEF Limit
<1>3. CASE instruction.repeat /\ instruction.family \in {"LD", "CP"}
  <2>1. Limit = IF c = 0 THEN AddrSpace ELSE c
    BY <1>3 DEF Limit
  <2>2. \A m \in 1 .. Limit : (c - m) % AddrSpace = 0 <=> m = Limit
    BY <1>1, <2>1, CountEnds
  <2> QED BY <1>1, <1>3, <2>1, <2>2
<1>4. CASE instruction.repeat /\ instruction.family \notin {"LD", "CP"}
  <2>1. Limit = IF b = 0 THEN Base ELSE b
    BY <1>4 DEF Limit
  <2>2. \A m \in 1 .. Limit : (b - m) % Base = 0 <=> m = Limit
    BY <1>1, <2>1, CountEnds
  <2> QED BY <1>1, <1>4, <2>1, <2>2
<1> QED BY <1>2, <1>3, <1>4

----------------------------------------------------------------------------
(***************************************************************************)
(* The instruction ends somewhere else than it starts.                     *)
(***************************************************************************)
LEMMA EndIsBehind ==
  ASSUME BlockTypes PROVE start.pc # (start.pc + 2) % AddrSpace
<1> PICK p \in Addr : p = start.pc
  BY StartTypes DEF BlockTypes
<1>1. p \in Int /\ p + 2 \in Int /\ p < p + 2 /\ p + 2 < p + AddrSpace
  BY AddrSpaceType DEF Addr
<1>2. p % AddrSpace # (p + 2) % AddrSpace
  BY <1>1, AddrSpaceType, ModDiffers
<1>3. p % AddrSpace = p
  BY AddrSpaceType DEF Addr
<1> QED BY <1>2, <1>3

(***************************************************************************)
(* At the instruction rounds are left, and the stack is empty.             *)
(***************************************************************************)
LEMMA AtStart ==
  ASSUME BlockTypes, NEW n, Control(n), AtInstruction
  PROVE More(n) /\ sp = start.sp /\ pc = start.pc /\ ~inHandler
BY EndIsBehind DEF Control, AtInstruction

(***************************************************************************)
(* A round takes place with rounds left, and moves HL on.                  *)
(***************************************************************************)
LEMMA RoundStart ==
  ASSUME BlockTypes, NEW n \in 0 .. Limit, Accessed(n), Control(n), NEW family, Round(family)
  PROVE /\ n \in Nat /\ n + 1 \in 0 .. Limit /\ n < Limit /\ n < AddrSpace
        /\ ~(instruction.family = "CP" /\ zero)
        /\ instruction.family = family
        /\ hl = Toward(start.hl, n) /\ hl' = Toward(start.hl, n + 1)
        /\ ~inHandler' /\ pc = start.pc /\ sp' = start.sp
        /\ UNCHANGED <<instruction, start>>
<1>1. /\ ~inHandler /\ pc = start.pc /\ instruction.family = family /\ hl' = After(hl)
      /\ UNCHANGED <<instruction, sp, inHandler, start>>
  BY DEF Round, AtInstruction
<1>3. More(n) /\ sp = start.sp
  BY AtStart DEF Round
<1>4. n \in Nat /\ n < Limit /\ n + 1 \in 0 .. Limit /\ n < AddrSpace
  BY <1>3, LimitType, AddrSpaceType DEF More
<1>5. hl = Toward(start.hl, n) /\ hl' = Toward(start.hl, n + 1)
  <2>1. start.hl \in Addr /\ n \in Int
    BY <1>4, StartTypes DEF BlockTypes
  <2>2. After(Toward(start.hl, n)) = Toward(start.hl, n + 1)
    BY <2>1, TowardGoes
  <2> QED BY <1>1, <2>2 DEF Accessed
<1> QED BY <1>1, <1>3, <1>4, <1>5 DEF More

(***************************************************************************)
(* It goes back to the instruction if there are more.                      *)
(***************************************************************************)
LEMMA RoundControl ==
  ASSUME BlockTypes, NEW n \in 0 .. Limit, Accessed(n), Control(n), NEW family, Round(family),
         NEW more \in BOOLEAN, Repeat(more),
         instruction.repeat => (more <=> n + 1 # Limit /\ ~(instruction.family = "CP" /\ zero'))
  PROVE Control(n + 1)'
<1>1. /\ n \in Nat /\ n < Limit /\ Limit \in Nat
      /\ ~inHandler' /\ pc = start.pc /\ sp' = start.sp
      /\ UNCHANGED <<instruction, start>>
  BY RoundStart, LimitType
<1>2. More(n + 1)' <=> n + 1 < Limit /\ ~(instruction.family = "CP" /\ zero')
  BY <1>1, Fixed DEF More
<1>3. n + 1 < Limit <=> n + 1 # Limit
  BY <1>1
<1>4. More(n + 1)' <=> instruction.repeat /\ more
  BY <1>1, <1>2, <1>3, LimitType
<1>5. pc' = IF instruction.repeat /\ more THEN start.pc ELSE (start.pc + 2) % AddrSpace
  BY <1>1 DEF Repeat
<1> QED BY <1>1, <1>4, <1>5 DEF Control

(***************************************************************************)
(* BC counts the rounds.                                                   *)
(***************************************************************************)
LEMMA CountRound ==
  ASSUME BlockTypes, NEW n \in Nat, bc = (start.bc - n) % AddrSpace
  PROVE (bc - 1) % AddrSpace = (start.bc - (n + 1)) % AddrSpace
<1> PICK b \in Int : b = start.bc
  BY StartTypes, AddrSpaceType DEF BlockTypes, Addr
<1> PICK c \in Int : c = b - n
  OBVIOUS
<1> PICK m \in Int : m = 0 - 1
  OBVIOUS
<1>1. ((c % AddrSpace) + m) % AddrSpace = (c + m) % AddrSpace
  BY AddrSpaceType, ModSum
<1>2. /\ bc - 1 = (c % AddrSpace) + m
      /\ start.bc - (n + 1) = c + m
  <2>1. bc = c % AddrSpace /\ bc \in Int
    BY AddrSpaceType DEF BlockTypes, Addr
  <2> QED BY <2>1
<1> QED BY <1>1, <1>2

(***************************************************************************)
(* The destination is Distance in front of the source.                     *)
(***************************************************************************)
LEMMA DistanceGoes ==
  ASSUME BlockTypes
  PROVE /\ Distance \in 0 .. AddrSpace - 1
        /\ \A i \in Int : Toward(start.de, i) = Toward(start.hl, Distance + i)
<1> PICK x \in Addr, y \in Addr, down \in BOOLEAN :
      x = start.hl /\ y = start.de /\ down = instruction.decrement
  BY StartTypes DEF BlockTypes, Instruction
<1>1. x \in Int /\ y \in 0 .. AddrSpace - 1 /\ x - y \in Int /\ y - x \in Int /\ y - x = 0 - (x - y)
      /\ AddrSpace \in Nat \ {0}
  BY AddrSpaceType DEF Addr
<1>2. Distance = IF down THEN (x - y) % AddrSpace ELSE (y - x) % AddrSpace
  BY DEF Distance
<1> PICK z \in Int : z = IF down THEN x - y ELSE y - x
  BY <1>1
<1>9. /\ z % AddrSpace \in 0 .. AddrSpace - 1 /\ z \div AddrSpace \in Int
      /\ z = (z \div AddrSpace) * AddrSpace + (z % AddrSpace)
  <2>1. AddrSpace \in Nat \ {0}
    BY <1>1
  <2> QED BY <2>1, ModParts
<1> PICK r \in 0 .. AddrSpace - 1 : r = z % AddrSpace
  BY <1>9
<1> PICK q \in Int : q = z \div AddrSpace
  BY <1>9
<1>3. Distance = r
  BY <1>1, <1>2
<1> PICK p \in Int : p = IF down THEN q ELSE 0 - q
  OBVIOUS
<1>4. x + Steps(down, r) = p * AddrSpace + y
  <2>5. PICK k \in Int : k = q * AddrSpace
    BY <1>1
  <2>1. (0 - q) * AddrSpace = 0 - k
    <3> PICK size \in Int : size = AddrSpace
      BY <1>1
    <3>1. (0 - q) * size = 0 - (q * size)
      OBVIOUS
    <3> QED BY <2>5, <3>1
  <2>4. z = k + r /\ k \in Int /\ x \in Int /\ y \in Int /\ r \in Int
    <3>1. z = k + r
      BY <1>9, <2>5
    <3>2. x \in Int /\ y \in Int /\ r \in Int
      BY <1>1
    <3> QED BY <2>5, <3>1, <3>2
  <2>2. CASE down
    <3>1. x - y = k + r /\ p = q
      BY <2>2, <2>4
    <3>2. x + Steps(down, r) = x - r
      BY <1>1, <2>2 DEF Steps
    <3>3. x - r = q * AddrSpace + y
      <4>1. x - r = k + y
        BY <2>4, <3>1
      <4> QED BY <2>5, <4>1
    <3> QED BY <3>1, <3>2, <3>3
  <2>3. CASE ~down
    <3>1. y - x = k + r /\ p = 0 - q
      BY <2>3, <2>4
    <3>2. x + Steps(down, r) = x + r
      BY <1>1, <2>3 DEF Steps
    <3>3. x + r = (0 - q) * AddrSpace + y
      <4>1. x + r = (0 - k) + y
        BY <2>4, <3>1
      <4> QED BY <2>1, <4>1
    <3> QED BY <3>1, <3>2, <3>3
  <2> QED BY <2>2, <2>3
<1>5. Go(down, x, r) = y
  <2>1. (p * AddrSpace + y) % AddrSpace = y
    BY <1>1, ModUnique
  <2> QED BY <1>4, <2>1 DEF Go
<1>6. ASSUME NEW i \in Int PROVE Go(down, y, i) = Go(down, x, r + i)
  BY <1>1, <1>5, GoSum
<1>7. \A i \in Int : Toward(start.de, i) = Toward(start.hl, r + i)
  <2>1. \A w, i : Toward(w, i) = Go(down, w, i)
    BY DEF Toward, Go, Steps
  <2> QED BY <1>6, <2>1
<1> QED BY <1>3, <1>7

(***************************************************************************)
(* The byte a round copies is that of the pattern, whatever the rounds     *)
(* before it have written over the source.                                 *)
(***************************************************************************)
LEMMA SourceByte ==
  ASSUME BlockTypes, Apart, instruction.family = "LD", NEW n \in Nat, n < Limit, Accessed(n)
  PROVE memory[Toward(start.hl, n)] = Pattern(n)
<1> PICK d \in 0 .. AddrSpace - 1 : d = Distance
  BY DistanceGoes
<1>0. /\ n < AddrSpace /\ AddrSpace \in Nat /\ n \in Int /\ d \in Int
      /\ start.hl \in Addr /\ start.de \in Addr
  BY LimitType, AddrSpaceType, StartTypes DEF BlockTypes
<1>1. \A i \in Int : Toward(start.de, i) = Toward(start.hl, d + i)
  BY DistanceGoes
<1>2. \A i, j \in Int : i < j /\ j < i + AddrSpace => Toward(start.hl, i) # Toward(start.hl, j)
  BY <1>0, TowardGoes
<1>3. CASE d = 0 \/ n < d
  <2>1. ASSUME NEW i \in 0 .. n - 1 PROVE Toward(start.de, i) # Toward(start.hl, n)
    <3> PICK k \in Int : k = d + i
      OBVIOUS
    <3>1. Toward(start.de, i) = Toward(start.hl, k)
      BY <1>1
    <3>2. (k < n /\ n < k + AddrSpace) \/ (n < k /\ k < n + AddrSpace)
      BY <1>0, <1>3
    <3> QED BY <1>0, <1>2, <3>1, <3>2
  <2>2. Toward(start.hl, n) \notin WrittenBy(n)
    BY <2>1 DEF WrittenBy, Block
  <2>3. Toward(start.hl, n) \in Addr /\ Toward(start.hl, n) \notin Stack
    <3>1. Toward(start.hl, n) \in Read
      BY <1>0, LimitType DEF Read, Block
    <3> QED BY <1>0, <3>1, TowardGoes DEF Apart
  <2>4. memory[Toward(start.hl, n)] = start.memory[Toward(start.hl, n)]
    BY <2>2, <2>3 DEF Accessed
  <2>5. (IF d = 0 THEN n ELSE n % d) = n
    BY <1>3
  <2> QED BY <2>4, <2>5 DEF Pattern
<1>4. CASE d # 0 /\ d <= n
  <2> PICK m \in Nat : m = n - d
    BY <1>4
  <2>1. m \in 0 .. n - 1 /\ n = d + m /\ d \in Nat \ {0}
    BY <1>4
  <2>2. Toward(start.de, m) = Toward(start.hl, n)
    BY <1>1, <2>1
  <2>3. memory[Toward(start.de, m)] = Pattern(m)
    BY <2>1 DEF Accessed, Copied
  <2>4. n % d = m % d
    <3>0. m % d \in 0 .. d - 1 /\ m \div d \in Int /\ m = (m \div d) * d + (m % d)
      BY <2>1, ModParts
    <3> PICK q \in Int, r \in 0 .. d - 1 : r = m % d /\ m = q * d + r
      BY <3>0
    <3> PICK p \in Int : p = q + 1
      OBVIOUS
    <3>1. n = p * d + r
      BY <2>1
    <3>2. (p * d + r) % d = r
      <4>1. d \in Nat \ {0}
        BY <2>1
      <4> QED BY <4>1, ModUnique
    <3> QED BY <3>1, <3>2
  <2> QED BY <1>4, <2>2, <2>3, <2>4 DEF Pattern
<1> QED BY <1>0, <1>3, <1>4

(***************************************************************************)
(* Each kind of round does one more access.                                *)
(***************************************************************************)
LEMMA TransferRound ==
  ASSUME BlockTypes, Apart, NEW n \in 0 .. Limit, Accessed(n), Control(n), Transfer
  PROVE n + 1 \in 0 .. Limit /\ (Accessed(n + 1) /\ Control(n + 1))'
<1>1. /\ Round("LD")
      /\ memory' = [memory EXCEPT ![de] = memory[hl]] /\ de' = After(de)
      /\ bc' = (bc - 1) % AddrSpace /\ Repeat(bc' # 0) /\ zero' = FALSE
  BY DEF Transfer
<1>2. /\ n \in Nat /\ n + 1 \in 0 .. Limit /\ n < Limit /\ n < AddrSpace
      /\ instruction.family = "LD"
      /\ hl = Toward(start.hl, n) /\ hl' = Toward(start.hl, n + 1)
      /\ UNCHANGED <<instruction, start>>
  BY <1>1, RoundStart
<1>3. de = Toward(start.de, n) /\ bc = (start.bc - n) % AddrSpace /\ start.de \in Addr
      /\ AddrSpace \in Nat
  BY <1>2, StartTypes, AddrSpaceType DEF Accessed, Copied, BlockTypes
<1>4. bc' = (start.bc - (n + 1)) % AddrSpace
  BY <1>1, <1>2, <1>3, CountRound
<1>5. Control(n + 1)'
  <2>1. n + 1 \in 1 .. Limit
    BY <1>2
  <2>2. instruction.repeat => (bc' # 0 <=> n + 1 # Limit)
    BY <1>2, <1>4, <2>1, LimitType
  <2> DEFINE more == bc' # 0
  <2>3. more \in BOOLEAN /\ Repeat(more)
    BY <1>1
  <2>4. instruction.repeat => (more <=> n + 1 # Limit /\ ~(instruction.family = "CP" /\ zero'))
    BY <1>2, <2>2
  <2> HIDE DEF more
  <2> QED BY <1>1, <2>3, <2>4, RoundControl
<1>6. de' = Toward(start.de, n + 1)
  BY <1>1, <1>2, <1>3, TowardGoes
<1>7. ASSUME NEW i \in 0 .. n PROVE memory'[Toward(start.de, i)] = Pattern(i)
  <2>1. CASE i = n
    <3>1. memory[hl] = Pattern(n)
      BY <1>2, SourceByte
    <3>2. memory'[de] = memory[hl]
      BY <1>1 DEF BlockTypes
    <3> QED BY <1>3, <2>1, <3>1, <3>2
  <2>2. CASE i \in 0 .. n - 1
    <3>1. i \in Int /\ n \in Int /\ i < n /\ n < i + AddrSpace
      BY <1>2, <1>3, <2>2
    <3>2. Toward(start.de, i) # de /\ Toward(start.de, i) \in Addr
      BY <1>3, <3>1, TowardGoes
    <3>3. memory[Toward(start.de, i)] = Pattern(i)
      BY <1>2, <2>2 DEF Accessed, Copied
    <3> QED BY <1>1, <3>2, <3>3 DEF BlockTypes
  <2> QED BY <1>2, <2>1, <2>2
<1>8. ASSUME NEW x \in Addr \ (WrittenBy(n + 1) \union Stack) PROVE memory'[x] = start.memory[x]
  <2>1. x \notin WrittenBy(n) /\ x # de
    BY <1>2, <1>3, BlockGrows DEF WrittenBy
  <2>2. memory[x] = start.memory[x]
    BY <2>1 DEF Accessed
  <2> QED BY <1>1, <2>1, <2>2 DEF BlockTypes
<1>9. /\ \A i : /\ Toward(start.hl, i)' = Toward(start.hl, i)
                /\ Toward(start.de, i)' = Toward(start.de, i)
                /\ Pattern(i)' = Pattern(i) /\ WrittenBy(i)' = WrittenBy(i)
      /\ Stack' = Stack
  BY <1>2, Fixed
<1>10. Copied(n + 1)'
  <2>1. (n + 1) - 1 = n
    BY <1>2
  <2> QED BY <1>2, <1>4, <1>6, <1>7, <1>9, <2>1 DEF Copied
<1>11. Accessed(n + 1)'
  BY <1>2, <1>8, <1>9, <1>10 DEF Accessed
<1> QED BY <1>2, <1>5, <1>11

(***************************************************************************)
(* A round of CPI or CPD reads a byte of the start, as it writes none.     *)
(***************************************************************************)
LEMMA SearchRound ==
  ASSUME BlockTypes, Apart, NEW n \in 0 .. Limit, Accessed(n), Control(n), Search
  PROVE n + 1 \in 0 .. Limit /\ (Accessed(n + 1) /\ Control(n + 1))'
<1>1. /\ Round("CP")
      /\ zero' = (memory[hl] = a) /\ bc' = (bc - 1) % AddrSpace
      /\ Repeat(bc' # 0 /\ ~zero') /\ UNCHANGED memory
  BY DEF Search
<1>2. /\ n \in Nat /\ n + 1 \in 0 .. Limit /\ n < Limit /\ n < AddrSpace
      /\ instruction.family = "CP" /\ ~zero
      /\ hl = Toward(start.hl, n) /\ hl' = Toward(start.hl, n + 1)
      /\ UNCHANGED <<instruction, start>>
  BY <1>1, RoundStart
<1>3. bc = (start.bc - n) % AddrSpace /\ start.hl \in Addr
  BY <1>2, StartTypes DEF Accessed, Searched, BlockTypes
<1>4. bc' = (start.bc - (n + 1)) % AddrSpace
  BY <1>1, <1>2, <1>3, CountRound
<1>5. Control(n + 1)'
  <2>1. n + 1 \in 1 .. Limit
    BY <1>2
  <2>2. instruction.repeat => (bc' # 0 <=> n + 1 # Limit)
    BY <1>2, <1>4, <2>1, LimitType
  <2> DEFINE more == bc' # 0 /\ ~zero'
  <2>3. more \in BOOLEAN /\ Repeat(more)
    BY <1>1
  <2>4. instruction.repeat => (more <=> n + 1 # Limit /\ ~(instruction.family = "CP" /\ zero'))
    BY <1>2, <2>2
  <2> HIDE DEF more
  <2> QED BY <1>1, <2>3, <2>4, RoundControl
<1>6. memory[hl] = start.memory[Toward(start.hl, n)]
  <2>1. Toward(start.hl, n) \in Addr /\ Toward(start.hl, n) \in Read
    BY <1>2, <1>3, TowardGoes, LimitType DEF Read, Block
  <2>2. Toward(start.hl, n) \notin WrittenBy(n) \union Stack
    BY <1>2, <2>1 DEF Apart, WrittenBy
  <2> QED BY <1>2, <2>1, <2>2 DEF Accessed
<1>7. ASSUME NEW i \in 0 .. n
      PROVE start.memory[Toward(start.hl, i)] = a <=> zero' /\ i = n
  <2>1. CASE i = n
    BY <1>1, <1>6, <2>1
  <2>2. CASE i \in 0 .. n - 1
    BY <1>2, <2>2 DEF Accessed, Searched
  <2> QED BY <1>2, <2>1, <2>2
<1>8. /\ \A i : Toward(start.hl, i)' = Toward(start.hl, i) /\ WrittenBy(i)' = WrittenBy(i)
      /\ Stack' = Stack /\ a' = a
  BY <1>2, Fixed DEF a
<1>9. Searched(n + 1)'
  <2>1. (n + 1) - 1 = n /\ n + 1 > 0
    BY <1>2
  <2> QED BY <1>2, <1>4, <1>7, <1>8, <2>1 DEF Searched
<1>10. Accessed(n + 1)'
  <2>1. WrittenBy(n + 1) = WrittenBy(n)
    BY <1>2 DEF WrittenBy
  <2> QED BY <1>1, <1>2, <1>8, <1>9, <2>1 DEF Accessed
<1> QED BY <1>2, <1>5, <1>10

(***************************************************************************)
(* BC counts in steps of a page.                                           *)
(***************************************************************************)
LEMMA CountPage ==
  ASSUME BlockTypes, NEW n \in Nat, bc = (start.bc - n * Base) % AddrSpace,
         B = ((start.bc \div Base) - n) % Base
  PROVE /\ DecrementB = (start.bc - (n + 1) * Base) % AddrSpace
        /\ DecrementB \div Base = ((start.bc \div Base) - (n + 1)) % Base
<1> PICK w \in Addr, b \in Byte : w = start.bc /\ b = w \div Base
  BY StartTypes, SplitWord DEF BlockTypes
<1>1. /\ w \in Int /\ b \in Int /\ Base \in Nat \ {0} /\ AddrSpace \in Nat \ {0} /\ bc \in Int
      /\ n * Base \in Int /\ (n + 1) * Base = n * Base + Base /\ B \in Int
  <2>1. w \in Int /\ bc \in Int /\ AddrSpace \in Nat \ {0}
    BY AddrSpaceType DEF Addr, BlockTypes
  <2>2. B \in Byte /\ Base \in Nat \ {0}
    BY BaseAssumption, CountDown DEF BlockTypes
  <2>3. n * Base \in Int /\ (n + 1) * Base = n * Base + Base
    BY <2>2
  <2> QED BY <2>1, <2>2, <2>3 DEF Byte
<1> PICK k \in Int : k = n * Base
  BY <1>1
<1> PICK c \in Int, m \in Int : c = w - k /\ m = 0 - Base
  BY <1>1
<1>2. DecrementB = (bc - Base) % AddrSpace /\ DecrementB \div Base = (B - 1) % Base
  BY CountDown DEF BlockTypes
<1>3. ((c % AddrSpace) + m) % AddrSpace = (c + m) % AddrSpace
  <2>1. AddrSpace \in Nat \ {0}
    BY <1>1
  <2> QED BY <2>1, ModSum
<1>4. bc - Base = (c % AddrSpace) + m /\ w - (n + 1) * Base = c + m
  <2>1. bc = c % AddrSpace
    OBVIOUS
  <2>2. bc - Base = bc + m
    BY <1>1
  <2>3. w - (n + 1) * Base = c + m
    <3>1. (n + 1) * Base = k + Base
      BY <1>1
    <3>2. w \in Int /\ Base \in Int
      BY <1>1
    <3>3. w - (k + Base) = c + m
      BY <3>2
    <3> QED BY <3>1, <3>3
  <2> QED BY <2>1, <2>2, <2>3
<1> PICK e \in Int, u \in Int : e = b - n /\ u = 0 - 1
  BY <1>1
<1>5. ((e % Base) + u) % Base = (e + u) % Base
  BY <1>1, ModSum
<1>6. B - 1 = (e % Base) + u /\ b - (n + 1) = e + u
  <2>1. B = e % Base
    OBVIOUS
  <2>2. B - 1 = B + u
    BY <1>1
  <2>3. b - (n + 1) = e + u
    BY <1>1
  <2> QED BY <2>1, <2>2, <2>3
<1> QED BY <1>2, <1>3, <1>4, <1>5, <1>6

(***************************************************************************)
(* A round of input or output adds an access of the port.                  *)
(***************************************************************************)
LEMMA PortAdded ==
  ASSUME BlockTypes, NEW access \in PortAccess, ports' = Append(ports, access), NEW n \in Nat,
         Len(ports) = n
  PROVE /\ Len(ports') = n + 1 /\ ports'[n + 1] = access
        /\ \A i \in 0 .. n - 1 : ports'[i + 1] = ports[i + 1]
<1>1. ports \in Seq(PortAccess)
  BY DEF BlockTypes
<1>2. \A i \in 0 .. n - 1 : i + 1 \in 1 .. n
  OBVIOUS
<1> QED BY <1>1, <1>2

(***************************************************************************)
(* What input and output have in common: the memory around the block is    *)
(* left alone, and the byte of the access is in it.                        *)
(***************************************************************************)
LEMMA PortRound ==
  ASSUME BlockTypes, NEW n \in 0 .. Limit, Accessed(n), Control(n),
         NEW family \in {"IN", "OT"}, Round(family),
         NEW data \in Byte, ports' = Append(ports, [port |-> bc, data |-> data]),
         bc' = DecrementB, zero' = (bc' \div Base = 0), Repeat(~zero'),
         memory'[hl] = data,
         \A x \in Addr : (x # hl \/ x \notin WrittenBy(n + 1)) => memory'[x] = memory[x]
  PROVE n + 1 \in 0 .. Limit /\ (Accessed(n + 1) /\ Control(n + 1))'
<1>1. /\ n \in Nat /\ n + 1 \in 0 .. Limit /\ n < Limit /\ n < AddrSpace
      /\ instruction.family = family
      /\ hl = Toward(start.hl, n) /\ hl' = Toward(start.hl, n + 1)
      /\ UNCHANGED <<instruction, start>>
  BY RoundStart
<1>2. Passed(n) /\ start.hl \in Addr /\ hl \in Addr
  BY <1>1, StartTypes DEF Accessed, BlockTypes
<1>3. /\ bc' = (start.bc - (n + 1) * Base) % AddrSpace
      /\ bc' \div Base = ((start.bc \div Base) - (n + 1)) % Base
  BY <1>1, <1>2, CountPage DEF Passed
<1>4. Control(n + 1)'
  <2>1. n + 1 \in 1 .. Limit
    BY <1>1
  <2>2. instruction.repeat => (bc' \div Base = 0 <=> n + 1 = Limit)
    BY <1>1, <1>3, <2>1, LimitType
  <2> DEFINE more == ~zero'
  <2>3. more \in BOOLEAN /\ Repeat(more)
    OBVIOUS
  <2>4. instruction.repeat => (more <=> n + 1 # Limit /\ ~(instruction.family = "CP" /\ zero'))
    BY <1>1, <2>2
  <2> HIDE DEF more
  <2> QED BY <2>3, <2>4, RoundControl
<1>5. /\ Len(ports') = n + 1 /\ ports'[n + 1] = [port |-> bc, data |-> data]
      /\ \A i \in 0 .. n - 1 : ports'[i + 1] = ports[i + 1]
  <2>1. [port |-> bc, data |-> data] \in PortAccess
    BY DEF PortAccess, BlockTypes
  <2> QED BY <1>1, <1>2, <2>1, PortAdded DEF Passed
<1>6. ASSUME NEW i \in 0 .. n
      PROVE /\ ports'[i + 1].port = (start.bc - i * Base) % AddrSpace
            /\ ports'[i + 1].data = memory'[Toward(start.hl, i)]
  <2>1. CASE i = n
    <3>1. ports'[i + 1].port = bc /\ ports'[i + 1].data = data
      BY <1>5, <2>1
    <3>2. bc = (start.bc - n * Base) % AddrSpace
      BY <1>2 DEF Passed
    <3> QED BY <1>1, <2>1, <3>1, <3>2
  <2>2. CASE i \in 0 .. n - 1
    <3>1. i \in Int /\ n \in Int /\ i < n /\ n < i + AddrSpace
      BY <1>1, <2>2, AddrSpaceType
    <3>2. /\ \A k \in Int : Toward(start.hl, k) \in Addr
          /\ \A k, j \in Int : k < j /\ j < k + AddrSpace
               => Toward(start.hl, k) # Toward(start.hl, j)
      BY <1>2, TowardGoes
    <3>3. Toward(start.hl, i) # hl /\ Toward(start.hl, i) \in Addr
      BY <1>1, <3>1, <3>2
    <3>4. memory'[Toward(start.hl, i)] = memory[Toward(start.hl, i)]
      BY <3>3
    <3>5. /\ ports[i + 1].port = (start.bc - i * Base) % AddrSpace
          /\ ports[i + 1].data = memory[Toward(start.hl, i)]
      BY <1>2, <2>2 DEF Passed
    <3> QED BY <1>5, <2>2, <3>4, <3>5
  <2>3. i = n \/ i \in 0 .. n - 1
    BY <1>1
  <2> QED BY <2>1, <2>2, <2>3
<1>7. ASSUME NEW x \in Addr \ (WrittenBy(n + 1) \union Stack) PROVE memory'[x] = start.memory[x]
  <2>1. x \notin WrittenBy(n)
    BY <1>1, BlockGrows DEF WrittenBy
  <2>2. memory[x] = start.memory[x]
    BY <2>1 DEF Accessed
  <2> QED BY <2>2
<1>8. /\ \A i : Toward(start.hl, i)' = Toward(start.hl, i) /\ WrittenBy(i)' = WrittenBy(i)
      /\ Stack' = Stack
  BY <1>1, Fixed
<1>9. Passed(n + 1)'
  <2>1. (n + 1) - 1 = n
    BY <1>1
  <2>2. B' = bc' \div Base
    BY DEF B
  <2> QED BY <1>1, <1>3, <1>5, <1>6, <1>8, <2>1, <2>2 DEF Passed
<1>10. Accessed(n + 1)'
  BY <1>1, <1>7, <1>8, <1>9 DEF Accessed
<1> QED BY <1>1, <1>4, <1>10

(***************************************************************************)
(* A round of INI or IND writes the byte it read.                          *)
(***************************************************************************)
LEMMA InputRound ==
  ASSUME BlockTypes, NEW n \in 0 .. Limit, Accessed(n), Control(n), Input
  PROVE n + 1 \in 0 .. Limit /\ (Accessed(n + 1) /\ Control(n + 1))'
<1> PICK data \in Byte : /\ memory' = [memory EXCEPT ![hl] = data]
                         /\ ports' = Append(ports, [port |-> bc, data |-> data])
  BY DEF Input
<1>1. /\ Round("IN") /\ bc' = DecrementB /\ zero' = (bc' \div Base = 0) /\ Repeat(~zero')
  BY DEF Input
<1>2. n \in Nat /\ instruction.family = "IN" /\ hl = Toward(start.hl, n)
  BY <1>1, RoundStart
<1>3. hl \in WrittenBy(n + 1)
  BY <1>2, BlockGrows DEF WrittenBy
<1>4. /\ memory'[hl] = data
      /\ \A x \in Addr : (x # hl \/ x \notin WrittenBy(n + 1)) => memory'[x] = memory[x]
  BY <1>3 DEF BlockTypes
<1> QED BY <1>1, <1>4, PortRound

(***************************************************************************)
(* A round of OUTI or OUTD sends the byte it finds.                        *)
(***************************************************************************)
LEMMA OutputRound ==
  ASSUME BlockTypes, NEW n \in 0 .. Limit, Accessed(n), Control(n), Output
  PROVE n + 1 \in 0 .. Limit /\ (Accessed(n + 1) /\ Control(n + 1))'
<1> PICK data \in Byte : data = memory[hl]
  BY DEF BlockTypes
<1>1. /\ Round("OT") /\ bc' = DecrementB /\ zero' = (bc' \div Base = 0) /\ Repeat(~zero')
      /\ ports' = Append(ports, [port |-> bc, data |-> data]) /\ memory' = memory
  BY DEF Output
<1> QED BY <1>1, PortRound

----------------------------------------------------------------------------
(***************************************************************************)
(* An interrupt between two rounds leaves what they did alone.             *)
(***************************************************************************)
LEMMA KeepsAccesses ==
  ASSUME BlockTypes, Apart, NEW n \in 0 .. Limit, Accessed(n),
         UNCHANGED <<instruction, start, hl, de, bc, zero, ports>>,
         \A x \in Addr \ Stack : memory'[x] = memory[x]
  PROVE Accessed(n)'
<1>1. /\ \A i : /\ Toward(start.hl, i)' = Toward(start.hl, i)
                /\ Toward(start.de, i)' = Toward(start.de, i)
                /\ Pattern(i)' = Pattern(i) /\ WrittenBy(i)' = WrittenBy(i)
      /\ Stack' = Stack /\ a' = a /\ B' = B
  BY Fixed DEF a, B
<1>2. n \in Nat /\ Limit \in Nat /\ \A i \in 0 .. n - 1 : i \in 0 .. Limit - 1
  BY LimitType
<1>3. start.hl \in Addr /\ start.de \in Addr
  BY StartTypes DEF BlockTypes
<1>4. CASE instruction.family = "LD"
  <2>1. ASSUME NEW i \in 0 .. n - 1 PROVE memory'[Toward(start.de, i)] = memory[Toward(start.de, i)]
    <3>1. Toward(start.de, i) \in Addr
      BY <1>3, TowardGoes
    <3>2. Toward(start.de, i) \in Written
      BY <1>2, <1>4 DEF Written, Block
    <3> QED BY <3>1, <3>2 DEF Apart
  <2>2. Copied(n)'
    BY <1>1, <1>4, <2>1 DEF Accessed, Copied
  <2> QED BY <1>1, <1>4, <2>2 DEF Accessed
<1>5. CASE instruction.family = "CP"
  <2>1. Searched(n)'
    BY <1>1, <1>5 DEF Accessed, Searched
  <2> QED BY <1>1, <1>5, <2>1 DEF Accessed
<1>6. CASE instruction.family \in {"IN", "OT"}
  <2>1. ASSUME NEW i \in 0 .. n - 1 PROVE memory'[Toward(start.hl, i)] = memory[Toward(start.hl, i)]
    <3>1. Toward(start.hl, i) \in Addr
      BY <1>3, TowardGoes
    <3>2. Toward(start.hl, i) \in Written \union Read
      BY <1>2, <1>6 DEF Written, Read, Block
    <3> QED BY <3>1, <3>2 DEF Apart
  <2>2. Passed(n)'
    BY <1>1, <1>6, <2>1 DEF Accessed, Passed
  <2> QED BY <1>1, <1>6, <2>2 DEF Accessed
<1> QED BY <1>4, <1>5, <1>6 DEF BlockTypes, Instruction

(***************************************************************************)
(* An interrupt leaves the address of the instruction on the stack.        *)
(***************************************************************************)
LEMMA InterruptRound ==
  ASSUME BlockTypes, Apart, NEW n \in 0 .. Limit, Accessed(n), Control(n), AcceptInterrupt
  PROVE n \in 0 .. Limit' /\ (Accessed(n) /\ Control(n))'
<1> PICK s \in Addr, p \in Addr : s = start.sp /\ p = start.pc
  BY StartTypes DEF BlockTypes
<1>1. More(n) /\ sp = s /\ pc = p
  BY AtStart DEF AcceptInterrupt
<1>2. /\ UNCHANGED <<instruction, start, hl, de, bc, zero, ports>> /\ inHandler'
      /\ sp' = (s - 2) % AddrSpace
      /\ memory' = [memory EXCEPT ![(s - 1) % AddrSpace] = p \div Base,
                                  ![(s - 2) % AddrSpace] = p % Base]
  BY <1>1 DEF AcceptInterrupt, Push16
<1>3. Stack = {(s - 1) % AddrSpace, (s - 2) % AddrSpace}
  BY BoundAssumption DEF AcceptInterrupt, Stack, BlockTypes
<1>4. Limit' = Limit
  BY <1>2, Fixed
<1>5. Accessed(n)'
  <2>1. \A x \in Addr \ Stack : memory'[x] = memory[x]
    BY <1>2, <1>3 DEF BlockTypes
  <2> QED BY <1>2, <2>1, KeepsAccesses
<1>6. /\ (s - 1) % AddrSpace \in Addr /\ (s - 2) % AddrSpace \in Addr
      /\ (s - 1) % AddrSpace # (s - 2) % AddrSpace
      /\ (((s - 2) % AddrSpace) + 1) % AddrSpace = (s - 1) % AddrSpace
  <2>1. s - 1 \in Int /\ s - 2 \in Int /\ s - 2 < s - 1 /\ s - 1 < (s - 2) + AddrSpace
        /\ (s - 2) + 1 = s - 1
    BY AddrSpaceType DEF Addr
  <2>2. (s - 1) % AddrSpace \in Addr /\ (s - 2) % AddrSpace \in Addr
    BY <2>1, AddrMod
  <2> PICK c \in Int : c = s - 2
    BY <2>1
  <2>3. ((c % AddrSpace) + 1) % AddrSpace = (c + 1) % AddrSpace
    BY AddrSpaceType, ModSum
  <2>4. (s - 2) % AddrSpace # (s - 1) % AddrSpace
    BY <2>1, AddrSpaceType, ModDiffers
  <2> QED BY <2>1, <2>2, <2>3, <2>4
<1>7. memory'[(sp' + 1) % AddrSpace] * Base + memory'[sp'] = p
  <2>1. memory'[(s - 1) % AddrSpace] = p \div Base /\ memory'[(s - 2) % AddrSpace] = p % Base
    BY <1>2, <1>6 DEF BlockTypes
  <2>2. memory'[(sp' + 1) % AddrSpace] = p \div Base /\ memory'[sp'] = p % Base
    BY <1>2, <1>6, <2>1
  <2> QED BY <2>2, SplitWord
<1>8. More(n)'
  BY <1>1, <1>2, <1>4 DEF More
<1> QED BY <1>2, <1>4, <1>5, <1>7, <1>8 DEF Control

(***************************************************************************)
(* Its handler returns there.                                              *)
(***************************************************************************)
LEMMA HandlerRound ==
  ASSUME BlockTypes, Apart, NEW n \in 0 .. Limit, Accessed(n), Control(n), ReturnFromHandler
  PROVE n \in 0 .. Limit' /\ (Accessed(n) /\ Control(n))'
<1>1. /\ UNCHANGED <<instruction, start, memory, hl, de, bc, zero, ports>> /\ ~inHandler'
      /\ More(n) /\ pc' = start.pc
      /\ sp = (start.sp - 2) % AddrSpace /\ sp' = (sp + 2) % AddrSpace
  BY DEF ReturnFromHandler, Control
<1>2. Accessed(n)' /\ Limit' = Limit
  BY <1>1, KeepsAccesses, Fixed
<1>3. sp' = start.sp
  <2> PICK s \in Addr : s = start.sp
    BY StartTypes DEF BlockTypes
  <2> PICK c \in Int : c = s - 2
    BY AddrSpaceType DEF Addr
  <2>1. ((c % AddrSpace) + 2) % AddrSpace = (c + 2) % AddrSpace
    BY AddrSpaceType, ModSum
  <2>2. c + 2 = s /\ s % AddrSpace = s
    BY AddrSpaceType DEF Addr
  <2> QED BY <1>1, <2>1, <2>2
<1>4. More(n)'
  BY <1>1, <1>2 DEF More
<1> QED BY <1>1, <1>2, <1>3, <1>4 DEF Control

----------------------------------------------------------------------------
(***************************************************************************)
(* The invariant holds in the beginning.                                   *)
(***************************************************************************)
LEMMA BlockStart ==
  ASSUME Init PROVE BlockInv
<1>1. BlockTypes
  BY BlockTypesInit
<1> PICK b \in Addr : b = start.bc
  BY <1>1, StartTypes DEF BlockTypes
<1>2. /\ start.hl \in Addr /\ start.de \in Addr /\ 0 .. 0 - 1 = {} /\ b \in Int
      /\ b \div Base \in Byte /\ AddrSpace \in Nat \ {0} /\ Base \in Nat \ {0}
  <2>1. start.hl \in Addr /\ start.de \in Addr
    BY <1>1, StartTypes DEF BlockTypes
  <2>2. b \in Int /\ AddrSpace \in Nat \ {0}
    BY AddrSpaceType DEF Addr
  <2>3. b \div Base \in Byte /\ Base \in Nat \ {0}
    BY BaseAssumption, SplitWord
  <2> QED BY <2>1, <2>2, <2>3
<1>3. hl = Toward(start.hl, 0) /\ de = Toward(start.de, 0)
  BY <1>1, <1>2, TowardGoes DEF Init
<1>4. bc = (b - 0) % AddrSpace
  <2>1. b - 0 = b /\ b % AddrSpace = b
    BY <1>2 DEF Addr
  <2> QED BY <2>1 DEF Init
<1>5. /\ bc = (b - 0 * Base) % AddrSpace
      /\ B = ((b \div Base) - 0) % Base
  <2> PICK h \in 0 .. Base - 1 : h = b \div Base
    BY <1>2 DEF Byte
  <2>1. 0 * Base = 0 /\ h - 0 = h /\ h % Base = h
    BY <1>2
  <2>2. B = h
    BY DEF B, Init
  <2> QED BY <1>4, <2>1, <2>2
<1>6. Copied(0) /\ Searched(0)
  BY <1>2, <1>3, <1>4 DEF Copied, Searched, Init
<1>7. Passed(0)
  BY <1>2, <1>5 DEF Passed, Init
<1>8. Accessed(0)
  BY <1>3, <1>6, <1>7 DEF Accessed, Init
<1>9. Control(0)
  BY <1>1, LimitType DEF Control, More, Init
<1>10. 0 \in 0 .. Limit
  BY <1>1, LimitType
<1> QED BY <1>8, <1>9, <1>10 DEF BlockInv

(***************************************************************************)
(* Every step keeps it.                                                    *)
(***************************************************************************)
LEMMA BlockStep ==
  ASSUME BlockTypes, BlockInv, [Next]_vars PROVE BlockInv'
<1>1. UNCHANGED <<instruction, start>>
  BY DEF Next, Step, Transfer, Search, Input, Output, Round, AcceptInterrupt, ReturnFromHandler,
         Ended, vars
<1> SUFFICES ASSUME Apart PROVE \E n \in 0 .. Limit : (Accessed(n) /\ Control(n))'
  BY <1>1, Fixed DEF BlockInv
<1> PICK n \in 0 .. Limit : Accessed(n) /\ Control(n)
  BY DEF BlockInv
<1>2. CASE Transfer \/ Search \/ Input \/ Output
  <2>1. n + 1 \in 0 .. Limit /\ (Accessed(n + 1) /\ Control(n + 1))'
    BY <1>2, TransferRound, SearchRound, InputRound, OutputRound
  <2> QED BY <2>1
<1>3. CASE AcceptInterrupt \/ ReturnFromHandler
  <2>1. (Accessed(n) /\ Control(n))'
    BY <1>3, InterruptRound, HandlerRound
  <2> QED BY <2>1
<1>4. CASE UNCHANGED vars
  <2>1. Accessed(n)'
    BY <1>4, KeepsAccesses DEF vars, cpuVars
  <2>2. Control(n)'
    BY <1>1, <1>4, Fixed DEF Control, More, vars, cpuVars
  <2> QED BY <2>1, <2>2
<1> QED BY <1>2, <1>3, <1>4 DEF Next, Step, Ended

(***************************************************************************)
(* A search that has ended stopped behind the first match.                 *)
(***************************************************************************)
LEMMA SearchEnds ==
  ASSUME BlockTypes, NEW n \in 0 .. Limit, hl = Toward(start.hl, n), Searched(n),
         n = Limit \/ zero
  PROVE SearchFindsFirst
<1>1. n \in Nat /\ Limit \in Nat /\ n <= Limit
  BY LimitType
<1>2. CASE zero
  <2> PICK k \in Nat : k = n - 1
    BY <1>1, <1>2 DEF Searched
  <2>1. k \in 0 .. Limit - 1 /\ k \in 0 .. n - 1
    BY <1>1, <1>2 DEF Searched
  <2>2. k \in Matches
    BY <1>2, <2>1 DEF Matches, Searched
  <2>3. ASSUME NEW i \in Matches PROVE k <= i /\ i \in Int
    <3>1. i \in 0 .. Limit - 1 /\ start.memory[Toward(start.hl, i)] = a
      BY DEF Matches
    <3>2. i \in 0 .. n - 1 => i = n - 1
      BY <3>1 DEF Searched
    <3> QED BY <1>1, <3>1, <3>2
  <2>4. ASSUME NEW i \in Matches, \A j \in Matches : i <= j PROVE i = k
    <3>1. i <= k /\ k <= i /\ i \in Int
      BY <2>2, <2>3, <2>4
    <3> QED BY <3>1
  <2>5. (CHOOSE i \in Matches : \A j \in Matches : i <= j) = k
    BY <2>2, <2>3, <2>4
  <2>6. Rounds = n
    <3>1. Rounds = 1 + (CHOOSE i \in Matches : \A j \in Matches : i <= j)
      BY <2>2 DEF Rounds
    <3>2. 1 + k = n
      BY <1>1
    <3> QED BY <2>5, <3>1, <3>2
  <2> QED BY <1>2, <2>2, <2>6 DEF SearchFindsFirst, Searched
<1>3. CASE ~zero
  <2>1. n = Limit
    BY <1>3
  <2>2. Matches = {}
    BY <1>3, <2>1 DEF Matches, Searched
  <2>3. Rounds = n
    BY <2>1, <2>2 DEF Rounds
  <2> QED BY <1>3, <2>2, <2>3 DEF SearchFindsFirst, Searched
<1> QED BY <1>2, <1>3

(***************************************************************************)
(* For every size of a byte, every memory, every instruction and count and *)
(* any number of interrupts between the rounds, a block instruction that   *)
(* keeps clear of its own bytes and of the stack has, when it ends, copied *)
(* the block (or the pattern, if source and destination overlap), found    *)
(* the first match, or passed a byte per value of B in order; and has      *)
(* changed nothing else.                                                   *)
(***************************************************************************)
THEOREM BlockIsCorrect == Spec => []BlockResult
<1>1. Init => BlockTypes /\ BlockInv
  BY BlockTypesInit, BlockStart
<1>2. BlockTypes /\ BlockInv /\ [Next]_vars => (BlockTypes /\ BlockInv)'
  BY BlockTypeStep, BlockStep
<1>3. BlockTypes /\ BlockInv => BlockResult
  <2> SUFFICES ASSUME BlockTypes, BlockInv, Finished, Apart PROVE BlockResult
    BY DEF BlockResult
  <2> PICK n \in 0 .. Limit : Accessed(n) /\ Control(n)
    BY DEF BlockInv
  <2>1. n \in Nat /\ Limit \in Nat /\ n <= Limit
    BY LimitType
  <2>2. ~More(n) /\ sp = start.sp
    BY EndIsBehind DEF Control, Finished
  <2>3. n = Limit \/ (instruction.family = "CP" /\ zero)
    BY <2>1, <2>2 DEF More
  <2>4. CASE instruction.family = "LD"
    <3>1. n = Limit /\ Copied(n) /\ hl = Toward(start.hl, n)
      BY <2>3, <2>4 DEF Accessed
    <3>2. CopyIsPattern
      BY <3>1 DEF CopyIsPattern, Copied, Pattern
    <3>3. WrittenBy(n) = Written
      BY <2>4, <3>1 DEF WrittenBy, Written
    <3> QED BY <2>2, <2>4, <3>2, <3>3 DEF BlockResult, Accessed
  <2>5. CASE instruction.family = "CP"
    <3>1. SearchFindsFirst
      BY <2>3, <2>5, SearchEnds DEF Accessed
    <3>2. WrittenBy(n) = {} /\ Written = {}
      BY <2>5 DEF WrittenBy, Written
    <3> QED BY <2>2, <2>5, <3>1, <3>2 DEF BlockResult, Accessed
  <2>6. CASE instruction.family \in {"IN", "OT"}
    <3>1. n = Limit /\ Passed(n) /\ hl = Toward(start.hl, n)
      BY <2>3, <2>6 DEF Accessed
    <3>2. ASSUME NEW i \in 1 .. Limit
          PROVE /\ ports[i].data = memory[Toward(start.hl, i - 1)]
                /\ ports[i].port = (start.bc - (i - 1) * Base) % AddrSpace
      <4> PICK j \in 0 .. Limit - 1 : j = i - 1
        BY <2>1
      <4>1. j + 1 = i
        BY <2>1
      <4>2. /\ ports[j + 1].port = (start.bc - j * Base) % AddrSpace
            /\ ports[j + 1].data = memory[Toward(start.hl, j)]
        BY <3>1 DEF Passed
      <4> QED BY <4>1, <4>2
    <3>3. PortsInOrder
      BY <3>1, <3>2 DEF PortsInOrder, Passed
    <3>4. WrittenBy(n) = Written
      BY <2>6, <3>1 DEF WrittenBy, Written
    <3> QED BY <2>2, <2>6, <3>3, <3>4 DEF BlockResult, Accessed
  <2> QED BY <2>4, <2>5, <2>6 DEF BlockTypes, Instruction
<1> QED BY <1>1, <1>2, <1>3, PTL DEF Spec
=============================================================================
