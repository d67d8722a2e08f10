----------------------------- MODULE Z80Decode -----------------------------
(***************************************************************************)
(* One instruction, twice: as the executor decodes it (EmulateZ80Op,       *)
(* ExecuteCB and ExecuteED, src/z80_exec.c) and as the disassembler prints *)
(* it (src/z80_disasm.c).  Each has a decoder of its own.                  *)
(*                                                                         *)
(* An opcode byte is x*64 + y*8 + z, and y is 2p + q, the fields both      *)
(* decoders take it apart into.  What the executor does is abstracted to   *)
(* the operation, the registers and memory it works on, the bytes it reads *)
(* behind the opcode, and its clock: the T-states it adds, and those its   *)
(* data accesses take on the bus, three for memory and four for a port.    *)
(***************************************************************************)
EXTENDS Integers, Sequences

CONSTANTS
  Codes,       \* the instructions considered
  MaxPrefixes  \* bound: DD and FD bytes in front

DD == 221
FD == 253
CB == 203
ED == 237

(***************************************************************************)
(* Prefixes, opcode, the byte behind CB or ED (behind the displacement of  *)
(* DD CB), and whether a condition or a count lets the instruction jump,   *)
(* call, return or repeat.                                                 *)
(***************************************************************************)
Code == [prefixes : UNION {[1 .. n -> {DD, FD}] : n \in 0 .. MaxPrefixes},
         op : (0 .. 255) \ {DD, FD}, sub : 0 .. 255, taken : BOOLEAN]

ASSUME CodesAssumption == MaxPrefixes \in Nat /\ Codes \subseteq Code

VARIABLES
  code,
  cursor,      \* opcode bytes fetched
  index,       \* "HL" for INDEX_NONE, "IX" or "IY"
  effect       \* what was executed

decodeVars == <<code, cursor, index, effect>>

X(op) == op \div 64
Y(op) == (op \div 8) % 8
Z(op) == op % 8
P(op) == Y(op) \div 2
Q(op) == Y(op) % 2

----------------------------------------------------------------------------
(***************************************************************************)
(* The registers an instruction with an index names.                       *)
(***************************************************************************)
BaseReg(r) == <<"B", "C", "D", "E", "H", "L", "(HL)", "A">>[r + 1]

High == [HL |-> "H", IX |-> "IXH", IY |-> "IYH"]
Low == [HL |-> "L", IX |-> "IXL", IY |-> "IYL"]
Memory == [HL |-> "(HL)", IX |-> "(IX+d)", IY |-> "(IY+d)"]

IndexReg_HighOnly(r, i) ==                       \* mutant: L stays L
  CASE r = 4 -> High[i] [] r = 6 -> Memory[i] [] OTHER -> BaseReg(r)
IndexReg(r, i) ==
  CASE r = 4 -> High[i] [] r = 5 -> Low[i] [] r = 6 -> Memory[i] [] OTHER -> BaseReg(r)

Pair(p, i, fourth) == <<"BC", "DE", i, fourth>>[p + 1]
Restart(y) == <<"00", "08", "10", "18", "20", "28", "30", "38">>[y + 1]
Cond(y) == <<"NZ", "Z", "NC", "C", "PO", "PE", "P", "M">>[y + 1]

----------------------------------------------------------------------------
(***************************************************************************)
(* The executor.                                                           *)
(***************************************************************************)
Ins(op, args, operands, bus, clock) ==
  [op |-> op, args |-> args, operands |-> operands, bus |-> bus, clock |-> clock]

Rotations == <<"RLC", "RRC", "RL", "RR", "SLA", "SRA", "SLL", "SRL">>
Operations == <<"ADD_A", "ADC_A", "SUB", "SBC_A", "AND", "XOR", "OR", "CP">>

Low6(op, i, taken) ==
  LET indexed == i # "HL"
      y == Y(op)  p == P(op)
      half == indexed /\ y \in {4, 5}
      jump == IF taken THEN 12 ELSE 7
      operands == IF indexed THEN 1 ELSE 0
  IN CASE Z(op) = 0 ->
            (CASE y = 0 -> Ins("NOP", <<>>, 0, 0, 4)
               [] y = 1 -> Ins("EX", <<"AF", "AF'">>, 0, 0, 4)
               [] y = 2 -> Ins("DJNZ", <<"e">>, 1, 0, IF taken THEN 13 ELSE 8)
               [] y = 3 -> Ins("JR", <<"e">>, 1, 0, 12)
               [] OTHER -> Ins("JR", <<Cond(y - 4), "e">>, 1, 0, jump))
       [] Z(op) = 1 ->
            IF Q(op) = 0 THEN Ins("LD", <<Pair(p, i, "SP"), "nn">>, 2, 0, 10)
            ELSE Ins("ADD", <<i, Pair(p, i, "SP")>>, 0, 0, IF indexed THEN 15 ELSE 11)
       [] Z(op) = 2 ->
            LET store(to, from, n, bus, clock) ==
                  Ins("LD", IF Q(op) = 0 THEN <<to, from>> ELSE <<from, to>>, n, bus, clock)
            IN (CASE p = 0 -> store("(BC)", "A", 0, 3, 7)
                  [] p = 1 -> store("(DE)", "A", 0, 3, 7)
                  [] p = 2 -> store("(nn)", i, 2, 6, IF indexed THEN 20 ELSE 16)
                  [] p = 3 -> store("(nn)", "A", 2, 3, 13))
       [] Z(op) = 3 ->
            Ins(<<"INC", "DEC">>[Q(op) + 1], <<Pair(p, i, "SP")>>, 0, 0,
                IF indexed /\ p = 2 THEN 10 ELSE 6)
       [] Z(op) \in {4, 5} ->
            Ins(<<"INC", "DEC">>[Z(op) - 3], <<IndexReg(y, i)>>,
                IF y = 6 THEN operands ELSE 0, IF y = 6 THEN 6 ELSE 0,
                IF y = 6 THEN (IF indexed THEN 23 ELSE 11) ELSE IF half THEN 8 ELSE 4)
       [] Z(op) = 6 ->
            Ins("LD", <<IndexReg(y, i), "n">>,
                IF y = 6 THEN operands + 1 ELSE 1, IF y = 6 THEN 3 ELSE 0,
                IF y = 6 THEN (IF indexed THEN 19 ELSE 10) ELSE IF half THEN 11 ELSE 7)
       [] OTHER ->
            Ins(<<"RLCA", "RRCA", "RLA", "RRA", "DAA", "CPL", "SCF", "CCF">>[y + 1], <<>>, 0, 0, 4)

(***************************************************************************)
(* LD r,r' and the operations on A: memory if an operand says so, behind a *)
(* displacement if there is an index.  The registers follow the index also *)
(* where memory does.                                                      *)
(***************************************************************************)
Middle(op, i) ==
  LET memory == Z(op) = 6 \/ (X(op) = 1 /\ Y(op) = 6)
      indexed == memory /\ i # "HL"
      args == IF X(op) = 1 THEN <<IndexReg(Y(op), i), IndexReg(Z(op), i)>>
              ELSE <<IndexReg(Z(op), i)>>
  IN IF op = 118 THEN Ins("HALT", <<>>, 0, 0, 4)
     ELSE Ins(IF X(op) = 1 THEN "LD" ELSE Operations[Y(op) + 1], args,
              IF indexed THEN 1 ELSE 0, IF memory THEN 3 ELSE 0,
              IF indexed THEN 19 ELSE IF memory THEN 7 ELSE 4)

(***************************************************************************)
(* From C0 upwards: the opcodes in rows of eight, and the others.          *)
(***************************************************************************)
Exchanges(op, i) ==
  LET indexed == i # "HL"
  IN CASE op = 217 -> Ins("EXX", <<>>, 0, 0, 4)
       [] op = 219 -> Ins("IN", <<"A", "(n)">>, 1, 4, 11)
       [] op = 211 -> Ins("OUT", <<"(n)", "A">>, 1, 4, 11)
       [] op = 227 -> Ins("EX", <<"(SP)", i>>, 0, 12, IF indexed THEN 23 ELSE 19)
       [] op = 233 -> Ins("JP", <<i>>, 0, 0, 4)
       [] op = 235 -> Ins("EX", <<"DE", "HL">>, 0, 0, 4)
       [] op = 243 -> Ins("DI", <<>>, 0, 0, 4)
       [] op = 249 -> Ins("LD", <<"SP", i>>, 0, 0, IF indexed THEN 10 ELSE 6)
       [] op = 251 -> Ins("EI", <<>>, 0, 0, 4)

Top(op, i, taken) ==
  LET indexed == i # "HL"
      y == Y(op)  p == P(op)
      pushed == IF taken THEN 6 ELSE 0
  IN CASE Z(op) = 0 -> Ins("RET", <<Cond(y)>>, 0, pushed, IF taken THEN 11 ELSE 5)
       [] Z(op) = 1 /\ Q(op) = 0 ->
            Ins("POP", <<Pair(p, i, "AF")>>, 0, 6, IF indexed /\ p = 2 THEN 14 ELSE 10)
       [] Z(op) = 2 -> Ins("JP", <<Cond(y), "nn">>, 2, 0, 10)
       [] Z(op) = 4 -> Ins("CALL", <<Cond(y), "nn">>, 2, pushed, IF taken THEN 17 ELSE 10)
       [] Z(op) = 5 /\ Q(op) = 0 ->
            Ins("PUSH", <<Pair(p, i, "AF")>>, 0, 6, IF indexed /\ p = 2 THEN 15 ELSE 11)
       [] Z(op) = 6 -> Ins(Operations[y + 1], <<"n">>, 1, 0, 7)
       [] Z(op) = 7 -> Ins("RST", <<Restart(y)>>, 0, 6, 11)
       [] op = 195 -> Ins("JP", <<"nn">>, 2, 0, 10)
       [] op = 201 -> Ins("RET", <<>>, 0, 6, 10)
       [] op = 205 -> Ins("CALL", <<"nn">>, 2, 6, 17)
       [] OTHER -> Exchanges(op, i)

(***************************************************************************)
(* CB.  Behind a displacement, z = 6 is the indexed memory; another z is a *)
(* register, and the result goes to the plain register as well.            *)
(***************************************************************************)
Bit(y) == <<"0", "1", "2", "3", "4", "5", "6", "7">>[y + 1]

CBClock_Unindexed(op, i) ==                      \* mutant: as without an index
  IF Z(op) # 6 THEN 8 ELSE IF X(op) = 1 THEN 12 ELSE 15
CBClock(op, i) ==
  CASE i # "HL" -> IF X(op) = 1 THEN 20 ELSE 23
    [] i = "HL" /\ Z(op) = 6 -> IF X(op) = 1 THEN 12 ELSE 15
    [] OTHER -> 8

ExecuteCB(op, i) ==
  LET copied == i # "HL" /\ Z(op) # 6 /\ X(op) # 1
  IN Ins(IF X(op) = 0 THEN Rotations[Y(op) + 1] ELSE <<"BIT", "RES", "SET">>[X(op)],
         (IF X(op) = 0 THEN <<>> ELSE <<Bit(Y(op))>>) \o <<IndexReg(Z(op), i)>>
           \o (IF copied THEN <<BaseReg(Z(op))>> ELSE <<>>),
         IF i # "HL" THEN 2 ELSE 0,
         IF Z(op) # 6 THEN 0 ELSE IF X(op) = 1 THEN 3 ELSE 6,
         CBClock(op, i))

(***************************************************************************)
(* ED 67 and ED 6F move three digits in a circle: the low digit of A and   *)
(* the two of memory.  Moving the low digit of memory to the high one is a *)
(* rotation to the left.                                                   *)
(***************************************************************************)
Digits(op) ==
  IF op = 103 THEN [memoryHigh |-> "memoryLow", memoryLow |-> "a", a |-> "memoryHigh"]
  ELSE [memoryHigh |-> "a", memoryLow |-> "memoryHigh", a |-> "memoryLow"]

DigitRotation(op) == IF Digits(op).memoryHigh = "memoryLow" THEN "RLD" ELSE "RRD"

BlockNames ==
  <<<<"LDI", "CPI", "INI", "OUTI">>, <<"LDD", "CPD", "IND", "OUTD">>,
    <<"LDIR", "CPIR", "INIR", "OTIR">>, <<"LDDR", "CPDR", "INDR", "OTDR">>>>

EDNop == Ins("NOP", <<>>, 0, 0, 8)

ExecuteED(op, taken) ==
  LET y == Y(op)
      pair == Pair(P(op), "HL", "SP")
      interruptMode == IF y \in {2, 6} THEN "1" ELSE IF y \in {3, 7} THEN "2" ELSE "0"
  IN CASE X(op) = 1 ->
            (CASE Z(op) = 0 -> Ins("IN", IF y = 6 THEN <<"(C)">> ELSE <<BaseReg(y), "(C)">>, 0, 4, 12)
               [] Z(op) = 1 -> Ins("OUT", <<"(C)", IF y = 6 THEN "0" ELSE BaseReg(y)>>, 0, 4, 12)
               [] Z(op) = 2 -> Ins(<<"SBC", "ADC">>[Q(op) + 1], <<"HL", pair>>, 0, 0, 15)
               [] Z(op) = 3 ->
                    Ins("LD", IF Q(op) = 0 THEN <<"(nn)", pair>> ELSE <<pair, "(nn)">>, 2, 6, 20)
               [] Z(op) = 4 -> Ins("NEG", <<>>, 0, 0, 8)
               [] Z(op) = 5 ->
                    IF y = 7 THEN EDNop ELSE Ins(IF y = 1 THEN "RETI" ELSE "RETN", <<>>, 0, 6, 14)
               [] Z(op) = 6 -> Ins("IM", <<interruptMode>>, 0, 0, 8)
               [] Z(op) = 7 ->
                    (CASE y = 0 -> Ins("LD", <<"I", "A">>, 0, 0, 9)
                       [] y = 1 -> Ins("LD", <<"R", "A">>, 0, 0, 9)
                       [] y = 2 -> Ins("LD", <<"A", "I">>, 0, 0, 9)
                       [] y = 3 -> Ins("LD", <<"A", "R">>, 0, 0, 9)
                       [] y \in {4, 5} -> Ins(DigitRotation(op), <<>>, 0, 6, 18)
                       [] OTHER -> EDNop))
       [] X(op) = 2 /\ y >= 4 /\ Z(op) < 4 ->
            Ins(BlockNames[y - 3][Z(op) + 1], <<>>, 0, <<6, 3, 7, 7>>[Z(op) + 1],
                IF y >= 6 /\ taken THEN 21 ELSE 16)
       [] OTHER -> EDNop

Execute ==
  CASE code.op = CB -> ExecuteCB(code.sub, index)
    [] code.op = ED -> ExecuteED(code.sub, code.taken)
    [] OTHER ->
         CASE X(code.op) = 0 -> Low6(code.op, index, code.taken)
           [] X(code.op) \in {1, 2} -> Middle(code.op, index)
           [] X(code.op) = 3 -> Top(code.op, index, code.taken)

NoEffect == Ins("", <<>>, 0, 0, 0)

InitDecode ==
  /\ code \in Codes
  /\ cursor = 0 /\ index = "HL" /\ effect = NoEffect

(***************************************************************************)
(* Every prefix replaces the index of the one before.                      *)
(***************************************************************************)
FetchPrefix ==
  /\ cursor < Len(code.prefixes)
  /\ cursor' = cursor + 1
  /\ index' = IF code.prefixes[cursor + 1] = DD THEN "IX" ELSE "IY"
  /\ UNCHANGED <<code, effect>>

(***************************************************************************)
(* The byte behind ED, or behind CB without an index, is an opcode byte of *)
(* its own; behind DD CB and the displacement it is read as an operand.    *)
(***************************************************************************)
EmulateZ80Op ==
  /\ cursor = Len(code.prefixes)
  /\ cursor' = cursor + (IF code.op = ED \/ (code.op = CB /\ index = "HL") THEN 2 ELSE 1)
  /\ effect' = Execute
  /\ UNCHANGED <<code, index>>

NextDecode == FetchPrefix \/ EmulateZ80Op

SpecDecode == InitDecode /\ [][NextDecode]_decodeVars

Executed == effect # NoEffect

----------------------------------------------------------------------------
(***************************************************************************)
(* The disassembler: text and length behind the prefixes.                  *)
(***************************************************************************)
Text(op, args, length) == [op |-> op, args |-> args, length |-> length]

DisassembleCB(op, i) ==
  LET z == Z(op)
      reference == IF i = "HL" THEN BaseReg(z) ELSE Memory[i]
      target == IF i # "HL" /\ z # 6 /\ X(op) # 1 THEN <<reference, BaseReg(z)>> ELSE <<reference>>
      length == IF i = "HL" THEN 2 ELSE 3
  IN IF X(op) = 0 THEN Text(Rotations[Y(op) + 1], target, length)
     ELSE Text(<<"BIT", "RES", "SET">>[X(op)], <<Bit(Y(op))>> \o target, length)

Column(from) == {from + 8 * n : n \in 0 .. 7}

EDWords(op) ==
  LET y == Y(op)
      pair == Pair(P(op), "HL", "SP")
  IN CASE op \in Column(68) -> <<"NEG">>
       [] op \in Column(69) \ {77, 125} -> <<"RETN">>
       [] op = 77 -> <<"RETI">>
       [] op \in {70, 78, 102, 110} -> <<"IM", "0">>
       [] op \in {86, 118} -> <<"IM", "1">>
       [] op \in {94, 126} -> <<"IM", "2">>
       [] op = 71 -> <<"LD", "I", "A">>
       [] op = 79 -> <<"LD", "R", "A">>
       [] op = 87 -> <<"LD", "A", "I">>
       [] op = 95 -> <<"LD", "A", "R">>
       [] op = 103 -> <<"RRD">>
       [] op = 111 -> <<"RLD">>
       [] op = 112 -> <<"IN", "(C)">>
       [] op \in Column(64) \ {112} -> <<"IN", BaseReg(y), "(C)">>
       [] op = 113 -> <<"OUT", "(C)", "0">>
       [] op \in Column(65) \ {113} -> <<"OUT", "(C)", BaseReg(y)>>
       [] op \in {66, 82, 98, 114} -> <<"SBC", "HL", pair>>
       [] op \in {74, 90, 106, 122} -> <<"ADC", "HL", pair>>
       [] op \in {67, 83, 99, 115} -> <<"LD", "(nn)", pair>>
       [] op \in {75, 91, 107, 123} -> <<"LD", pair, "(nn)">>
       [] op \in {160 + 8 * m + n : m \in 0 .. 3, n \in 0 .. 3} -> <<BlockNames[y - 3][Z(op) + 1]>>
       [] OTHER -> <<"NOP">>

DisassembleED(op) ==
  LET words == EDWords(op)
  IN Text(words[1], Tail(words), IF X(op) = 1 /\ Z(op) = 3 THEN 4 ELSE 2)

(***************************************************************************)
(* H and L follow the index here too, and memory is written out apart.     *)
(***************************************************************************)
IndexRegName(r, i) ==
  IF i # "HL" /\ r \in {4, 5} THEN IF r = 4 THEN High[i] ELSE Low[i] ELSE BaseReg(r)

(***************************************************************************)
(* The opcodes with a case of their own; those without follow by fields.   *)
(***************************************************************************)
BaseWords(op, i) ==
  LET pair == Pair(P(op), i, "SP")
      stack == Pair(P(op), i, "AF")
  IN CASE op = 0 -> <<"NOP">>
       [] op = 7 -> <<"RLCA">>
       [] op = 15 -> <<"RRCA">>
       [] op = 23 -> <<"RLA">>
       [] op = 31 -> <<"RRA">>
       [] op = 39 -> <<"DAA">>
       [] op = 47 -> <<"CPL">>
       [] op = 55 -> <<"SCF">>
       [] op = 63 -> <<"CCF">>
       [] op = 118 -> <<"HALT">>
       [] op = 201 -> <<"RET">>
       [] op = 217 -> <<"EXX">>
       [] op = 243 -> <<"DI">>
       [] op = 251 -> <<"EI">>
       [] op = 8 -> <<"EX", "AF", "AF'">>
       [] op = 227 -> <<"EX", "(SP)", i>>
       [] op = 235 -> <<"EX", "DE", "HL">>
       [] op = 2 -> <<"LD", "(BC)", "A">>
       [] op = 10 -> <<"LD", "A", "(BC)">>
       [] op = 18 -> <<"LD", "(DE)", "A">>
       [] op = 26 -> <<"LD", "A", "(DE)">>
       [] op = 34 -> <<"LD", "(nn)", i>>
       [] op = 42 -> <<"LD", i, "(nn)">>
       [] op = 50 -> <<"LD", "(nn)", "A">>
       [] op = 58 -> <<"LD", "A", "(nn)">>
       [] op = 249 -> <<"LD", "SP", i>>
       [] op = 233 -> <<"JP", i>>
       [] op = 195 -> <<"JP", "nn">>
       [] op = 205 -> <<"CALL", "nn">>
       [] op = 16 -> <<"DJNZ", "e">>
       [] op = 24 -> <<"JR", "e">>
       [] op = 211 -> <<"OUT", "(n)", "A">>
       [] op = 219 -> <<"IN", "A", "(n)">>
       [] op \in {1, 17, 33, 49} -> <<"LD", pair, "nn">>
       [] op \in {3, 19, 35, 51} -> <<"INC", pair>>
       [] op \in {11, 27, 43, 59} -> <<"DEC", pair>>
       [] op \in {9, 25, 41, 57} -> <<"ADD", i, pair>>
       [] op \in {193, 209, 225, 241} -> <<"POP", stack>>
       [] op \in {197, 213, 229, 245} -> <<"PUSH", stack>>
       [] op \in {32, 40, 48, 56} -> <<"JR", Cond((op - 32) \div 8), "e">>
       [] op \in Column(192) -> <<"RET", Cond(Y(op))>>
       [] op \in Column(194) -> <<"JP", Cond(Y(op)), "nn">>
       [] op \in Column(196) -> <<"CALL", Cond(Y(op)), "nn">>
       [] op \in Column(198) -> <<Operations[Y(op) + 1], "n">>
       [] op \in Column(199) -> <<"RST", Restart((op - 199) \div 8)>>
       [] OTHER -> <<>>

WordsLength(words) ==
  LET has(operands) == \E k \in DOMAIN words : words[k] \in operands
  IN IF has({"nn", "(nn)"}) THEN 3 ELSE IF has({"n", "(n)", "e"}) THEN 2 ELSE 1

DisassembleBase(op, i) ==
  LET y == Y(op)
      displaced == IF i # "HL" THEN 1 ELSE 0
      words == BaseWords(op, i)
      operand(r) == IF r = 6 THEN Memory[i] ELSE IndexRegName(r, i)
      besideMemory(r) == IF r = 6 THEN Memory[i] ELSE BaseReg(r)
      memory == Z(op) = 6 \/ (X(op) = 1 /\ y = 6)
  IN IF words # <<>>
     THEN Text(words[1], Tail(words), WordsLength(words))
     ELSE
     CASE X(op) = 0 /\ Z(op) \in {4, 5} ->
            Text(<<"INC", "DEC">>[Z(op) - 3], <<operand(y)>>, IF y = 6 THEN 1 + displaced ELSE 1)
       [] X(op) = 0 /\ Z(op) = 6 ->
            Text("LD", <<operand(y), "n">>, IF y = 6 THEN 2 + displaced ELSE 2)
       [] X(op) = 1 ->
            Text("LD", <<IF memory THEN besideMemory(y) ELSE operand(y), operand(Z(op))>>,
                 IF memory THEN 1 + displaced ELSE 1)
       [] X(op) = 2 ->
            Text(Operations[y + 1], <<operand(Z(op))>>, IF memory THEN 1 + displaced ELSE 1)
       [] OTHER -> Text("DB", <<>>, 1)

LastIndex(prefixes) ==
  IF prefixes = <<>> THEN "HL" ELSE IF prefixes[Len(prefixes)] = DD THEN "IX" ELSE "IY"

Disassemble ==
  LET i == LastIndex(code.prefixes)
  IN CASE code.op = CB -> DisassembleCB(code.sub, i)
       [] code.op = ED -> DisassembleED(code.sub)
       [] OTHER -> DisassembleBase(code.op, i)

----------------------------------------------------------------------------
(***************************************************************************)
(* Where the two decoders disagree: an undocumented form, a register       *)
(* behind DD CB, which the executor works on in place of memory; and two   *)
(* documented ones, RRD and RLD, and LD from indexed memory to H or L,     *)
(* which the executor makes a half of the index.                           *)
(***************************************************************************)
IndexedCopy == code.op = CB /\ index # "HL" /\ Z(code.sub) # 6
DigitRotate == code.op = ED /\ code.sub \in {103, 111}
IndexedHalf == index # "HL" /\ X(code.op) = 1 /\ Y(code.op) \in {4, 5} /\ Z(code.op) = 6

SameInstruction ==
  LET text == Disassemble
  IN /\ effect.op = text.op
     /\ effect.args = text.args
     /\ cursor + effect.operands = Len(code.prefixes) + text.length

(***************************************************************************)
(* What the trace prints is what was executed, and the bytes it takes are  *)
(* the bytes pc moved over, for two decoders that share nothing: all       *)
(* opcodes behind any number of prefixes but the ones named above.  What   *)
(* both get wrong it cannot tell: LD (IX+d),H stores IXH, and is so named. *)
(***************************************************************************)
DisassemblyMatches ==
  Executed => SameInstruction \/ IndexedCopy \/ DigitRotate \/ IndexedHalf

(***************************************************************************)
(* README.md:7 says the full documented opcode families are implemented:   *)
(* then every documented instruction does what its name says.  RRD and RLD *)
(* are exchanged in the executor.                                          *)
(***************************************************************************)
TraceNamesTheInstruction == Executed => SameInstruction \/ IndexedCopy

UsesIndex ==
  \E k \in DOMAIN effect.args : effect.args[k] \in {index, High[index], Low[index], Memory[index]}

Displaced == \E k \in DOMAIN effect.args : effect.args[k] \in {"(IX+d)", "(IY+d)"}

TimeOnTheBus == 4 * cursor + 3 * effect.operands + effect.bus

(***************************************************************************)
(* An instruction takes at least the time its bytes and its data need on   *)
(* the bus: four T-states for an opcode byte, three for another one, and   *)
(* what its accesses take.  Holds without a prefix and, behind one, for an *)
(* instruction on indexed memory.                                          *)
(***************************************************************************)
ClockCoversBus ==
  Executed /\ (code.prefixes = <<>> \/ (Len(code.prefixes) = 1 /\ Displaced))
    => effect.clock >= TimeOnTheBus

(***************************************************************************)
(* README.md:36 says the totals are instruction-accurate: then the same    *)
(* holds for every documented use of one prefix.  LD IX,nn takes ten       *)
(* T-states, as LD HL,nn does.                                             *)
(***************************************************************************)
TStatesAccurate ==
  Executed /\ (code.prefixes = <<>> \/ (Len(code.prefixes) = 1 /\ UsesIndex))
    => effect.clock >= TimeOnTheBus
=============================================================================
