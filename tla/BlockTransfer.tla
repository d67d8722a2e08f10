--------------------------- MODULE BlockTransfer ---------------------------
(***************************************************************************)
(* The block instructions of the ED page (ExecuteED, src/z80_exec.c): LDI, *)
(* CPI, INI and OUTI, their decrementing forms and the repeating ones,     *)
(* which move pc back onto themselves so that each round is a call of      *)
(* EmulateZ80Op of its own.  Between two rounds an interrupt may be taken; *)
(* its handler restores the registers it uses and returns through the      *)
(* address on the stack.                                                   *)
(*                                                                         *)
(* A byte has Base values and an address is two bytes, as in the code,     *)
(* where Base is 256; the copy may reach the instruction and the stack.    *)
(***************************************************************************)
EXTENDS Integers, Sequences

CONSTANTS
  Base,            \* values of a byte
  ED, Op,          \* the two bytes of the instruction
  Vector,          \* where the handler of an interrupt starts
  Instructions,    \* the instructions considered
  Starts,          \* the states they start in
  MaxInterrupts    \* bound: interrupts taken

AddrSpace == Base * Base
Byte == 0 .. Base - 1
Addr == 0 .. AddrSpace - 1

Instruction == [family : {"LD", "CP", "IN", "OT"}, decrement : BOOLEAN, repeat : BOOLEAN]

State == [memory : [Addr -> Byte], pc : Addr, sp : Addr, a : Byte,
          hl : Addr, de : Addr, bc : Addr]

ASSUME BaseAssumption == Base \in Nat /\ Base > 1
ASSUME OpcodesAssumption == ED \in Byte /\ Op \in Byte /\ Vector \in Addr
ASSUME InputsAssumption == Instructions \subseteq Instruction /\ Starts \subseteq State
ASSUME BoundAssumption == MaxInterrupts \in Nat

VARIABLES
  instruction,
  memory, pc, sp, hl, de, bc,
  zero,            \* the Z flag
  inHandler, interrupts,
  start,           \* history: the state in the beginning
  ports            \* history: the port accesses, with their data

a == start.a       \* no block instruction writes it

cpuVars == <<memory, pc, sp, hl, de, bc, zero>>
vars == <<instruction, cpuVars, inHandler, interrupts, start, ports>>

Init ==
  /\ instruction \in Instructions
  /\ start \in Starts
  /\ start.memory[start.pc] = ED /\ start.memory[(start.pc + 1) % AddrSpace] = Op
  /\ memory = start.memory /\ pc = start.pc /\ sp = start.sp
  /\ hl = start.hl /\ de = start.de /\ bc = start.bc
  /\ zero = FALSE
  /\ inHandler = FALSE /\ interrupts = 0
  /\ ports = <<>>

----------------------------------------------------------------------------
After(addr) == (addr + (IF instruction.decrement THEN -1 ELSE 1)) % AddrSpace

B == bc \div Base
DecrementB == ((B - 1) % Base) * Base + (bc % Base)

AtInstruction ==
  ~inHandler /\ pc = start.pc /\ memory[pc] = ED /\ memory[(pc + 1) % AddrSpace] = Op

(***************************************************************************)
(* pc - 2 after the two opcode bytes were fetched, if the round is not the *)
(* last one.                                                               *)
(***************************************************************************)
Repeat(more) ==
  pc' = IF instruction.repeat /\ more THEN pc ELSE (pc + 2) % AddrSpace

Round(family) ==
  /\ instruction.family = family /\ AtInstruction
  /\ hl' = After(hl)
  /\ UNCHANGED <<instruction, sp, inHandler, interrupts, start>>

Transfer_TestsOldCount ==                        \* mutant: tested before it is decremented
  /\ Round("LD")
  /\ memory' = [memory EXCEPT ![de] = memory[hl]]
  /\ de' = After(de)
  /\ bc' = (bc - 1) % AddrSpace
  /\ zero' = FALSE
  /\ Repeat(bc # 0)
  /\ UNCHANGED ports
Transfer ==
  /\ Round("LD")
  /\ memory' = [memory EXCEPT ![de] = memory[hl]]
  /\ de' = After(de)
  /\ bc' = (bc - 1) % AddrSpace
  /\ zero' = FALSE
  /\ Repeat(bc' # 0)
  /\ UNCHANGED ports

Search_IgnoresCount ==                           \* mutant: only a match ends it
  /\ Round("CP")
  /\ zero' = (memory[hl] = a)
  /\ bc' = (bc - 1) % AddrSpace
  /\ Repeat(~zero')
  /\ UNCHANGED <<memory, de, ports>>
Search ==
  /\ Round("CP")
  /\ zero' = (memory[hl] = a)
  /\ bc' = (bc - 1) % AddrSpace
  /\ Repeat(bc' # 0 /\ ~zero')
  /\ UNCHANGED <<memory, de, ports>>

(***************************************************************************)
(* The port is BC before B is decremented, for output too.                 *)
(***************************************************************************)
Input ==
  /\ Round("IN")
  /\ \E data \in Byte :
       /\ memory' = [memory EXCEPT ![hl] = data]
       /\ ports' = Append(ports, [port |-> bc, data |-> data])
  /\ bc' = DecrementB
  /\ zero' = (bc' \div Base = 0)
  /\ Repeat(~zero')
  /\ UNCHANGED de

Output ==
  /\ Round("OT")
  /\ ports' = Append(ports, [port |-> bc, data |-> memory[hl]])
  /\ bc' = DecrementB
  /\ zero' = (bc' \div Base = 0)
  /\ Repeat(~zero')
  /\ UNCHANGED <<memory, de>>

(***************************************************************************)
(* ServiceNMI or ServiceMaskableInterrupt in front of a round, and the RET *)
(* of the handler.                                                         *)
(***************************************************************************)
Push16(word) ==
  /\ sp' = (sp - 2) % AddrSpace
  /\ memory' = [memory EXCEPT ![(sp - 1) % AddrSpace] = word \div Base,
                              ![(sp - 2) % AddrSpace] = word % Base]

AcceptInterrupt ==
  /\ AtInstruction /\ interrupts < MaxInterrupts
  /\ Push16(pc)
  /\ pc' = Vector
  /\ inHandler' = TRUE /\ interrupts' = interrupts + 1
  /\ UNCHANGED <<instruction, hl, de, bc, zero, start, ports>>

ReturnFromHandler ==
  /\ inHandler
  /\ pc' = memory[(sp + 1) % AddrSpace] * Base + memory[sp]
  /\ sp' = (sp + 2) % AddrSpace
  /\ inHandler' = FALSE
  /\ UNCHANGED <<instruction, memory, hl, de, bc, zero, interrupts, start, ports>>

Left == ~inHandler /\ ~AtInstruction
Ended == Left /\ UNCHANGED vars

Step == Transfer \/ Search \/ Input \/ Output \/ ReturnFromHandler

Next == Step \/ AcceptInterrupt \/ Ended

Spec == Init /\ [][Next]_vars /\ WF_vars(Step)

----------------------------------------------------------------------------
(***************************************************************************)
(* The addresses of so many rounds, from one on; a count of 0 is all of    *)
(* memory, or all values of B.                                             *)
(***************************************************************************)
Toward(addr, i) == (addr + (IF instruction.decrement THEN -i ELSE i)) % AddrSpace
Block(addr, n) == {Toward(addr, i) : i \in 0 .. n - 1}

Limit ==
  LET b == start.bc \div Base
  IN IF ~instruction.repeat THEN 1
     ELSE IF instruction.family \in {"LD", "CP"}
          THEN IF start.bc = 0 THEN AddrSpace ELSE start.bc
          ELSE IF b = 0 THEN Base ELSE b

Code == {start.pc, (start.pc + 1) % AddrSpace}
Stack == IF MaxInterrupts = 0 THEN {}
         ELSE {(start.sp - 1) % AddrSpace, (start.sp - 2) % AddrSpace}

Written == CASE instruction.family = "LD" -> Block(start.de, Limit)
             [] instruction.family = "IN" -> Block(start.hl, Limit)
             [] OTHER -> {}
Read == IF instruction.family = "IN" THEN {} ELSE Block(start.hl, Limit)

(***************************************************************************)
(* The instruction and the stack of the handlers are out of the way.       *)
(***************************************************************************)
Apart == /\ Code \cap (Written \union Stack) = {}
         /\ Stack \cap (Written \union Read) = {}

Finished == ~inHandler /\ pc = (start.pc + 2) % AddrSpace

(***************************************************************************)
(* A block copy is the copy of the block, whatever handlers ran between    *)
(* its rounds; with the destination behind the source's start it repeats   *)
(* the distance between them as a pattern.                                 *)
(***************************************************************************)
Distance == IF instruction.decrement THEN (start.hl - start.de) % AddrSpace
            ELSE (start.de - start.hl) % AddrSpace

CopyIsPattern ==
  /\ \A i \in 0 .. Limit - 1 :
       memory[Toward(start.de, i)] =
         start.memory[Toward(start.hl, IF Distance = 0 THEN i ELSE i % Distance)]
  /\ hl = Toward(start.hl, Limit) /\ de = Toward(start.de, Limit)
  /\ bc = (start.bc - Limit) % AddrSpace

(***************************************************************************)
(* A search stops behind the first match, and says whether it found one.   *)
(***************************************************************************)
Matches == {i \in 0 .. Limit - 1 : start.memory[Toward(start.hl, i)] = a}
Rounds == IF Matches = {} THEN Limit
          ELSE 1 + CHOOSE i \in Matches : \A j \in Matches : i <= j

SearchFindsFirst ==
  /\ zero <=> Matches # {}
  /\ hl = Toward(start.hl, Rounds) /\ bc = (start.bc - Rounds) % AddrSpace

(***************************************************************************)
(* A block of input or output moves a byte per value of B, in order.       *)
(***************************************************************************)
PortsInOrder ==
  /\ Len(ports) = Limit
  /\ \A i \in 1 .. Limit :
       /\ ports[i].data = memory[Toward(start.hl, i - 1)]
       /\ ports[i].port = (start.bc - (i - 1) * Base) % AddrSpace
  /\ hl = Toward(start.hl, Limit) /\ bc = (start.bc - Limit * Base) % AddrSpace

BlockResult ==
  Finished /\ Apart =>
    /\ CASE instruction.family = "LD" -> CopyIsPattern
         [] instruction.family = "CP" -> SearchFindsFirst
         [] OTHER -> PortsInOrder
    /\ \A x \in Addr \ (Written \union Stack) : memory[x] = start.memory[x]
    /\ sp = start.sp

(***************************************************************************)
(* A block instruction comes to an end, from any count, with handlers      *)
(* between its rounds, and also when it overwrites itself or the address a *)
(* handler returns to.                                                     *)
(***************************************************************************)
BlockEnds == <>[]Left
=============================================================================
