---------------------------- MODULE Z80IsaProofs ----------------------------
(***************************************************************************)
(* What the run of MCZ80Isa finds for two prefixes, two limbs and the      *)
(* boundary bytes, proved for any number of prefixes, every byte and every *)
(* length of a number. First the two decoders of an instruction; then the  *)
(* chains of byte instructions that compute on wide numbers.               *)
(***************************************************************************)
EXTENDS Z80Decode, Z80Arithmetic, WellFoundedInduction, TLAPS

-----------------------------------------------------------------------------
(***************************************************************************)
(* The fields of an opcode byte are what it is made of.                    *)
(***************************************************************************)
Decoded(op) ==
  /\ X(op) \in 0 .. 3 /\ Y(op) \in 0 .. 7 /\ Z(op) \in 0 .. 7 /\ op = 64 * X(op) + 8 * Y(op) + Z(op)
  /\ P(op) \in 0 .. 3 /\ Q(op) \in 0 .. 1 /\ Y(op) = 2 * P(op) + Q(op)

(***************************************************************************)
(* A byte is taken apart into its fields and put together from them.       *)
(***************************************************************************)
LEMMA Fields == ASSUME NEW op \in 0 .. 255 PROVE Decoded(op)
<1>1. X(op) \in 0 .. 3 /\ Y(op) \in 0 .. 7 /\ Z(op) \in 0 .. 7 /\ op = 64 * X(op) + 8 * Y(op) + Z(op)
  BY SMT DEF X, Y, Z
<1>2. P(op) \in 0 .. 3 /\ Q(op) \in 0 .. 1 /\ Y(op) = 2 * P(op) + Q(op)
  BY <1>1, SMT DEF P, Q
<1> QED BY <1>1, <1>2 DEF Decoded

(***************************************************************************)
(* The text of a row of the tables: the mnemonic, then what it works on.   *)
(***************************************************************************)
Written(words, l) == Text(words[1], Tail(words), l)

(***************************************************************************)
(* The index a prefix selects, and the memory behind a displacement:       *)
(* behind a prefix, only an instruction on that memory has its clock       *)
(* accounted for.                                                          *)
(***************************************************************************)
Indexes == {"HL", "IX", "IY"}
Indexed == {"(IX+d)", "(IY+d)"}
Plain(a) == a \notin Indexed

(***************************************************************************)
(* For e, what the executor does, and t, what the disassembler prints, of  *)
(* an instruction with c opcode bytes: they name the same operation on the *)
(* same registers and take the same bytes.                                 *)
(***************************************************************************)
Names(e, t, c) ==
  e.op = t.op /\ e.args = t.args /\ e.operands \in Nat /\ c + e.operands = t.length

(***************************************************************************)
(* The clock of e covers the bus: without a prefix, and behind one for     *)
(* indexed memory, with the four T-states of the prefix added.             *)
(***************************************************************************)
Timely(e, c, i) ==
  /\ i = "HL" => e.clock >= 4 * c + 3 * e.operands + e.bus
  /\ i # "HL" /\ (\E k \in DOMAIN e.args : e.args[k] \in Indexed)
       => e.clock >= 4 * c + 4 + 3 * e.operands + e.bus

Agrees(e, t, c, i) == Names(e, t, c) /\ Timely(e, c, i)

Timed(c, n, bus, clock, l) ==
  c \in Nat /\ n \in Nat /\ bus \in Nat /\ clock \in Nat /\ clock >= 4 * c + 3 * n + bus /\ l = c + n

(***************************************************************************)
(* A row that works on nothing, on one thing or on two: what remains to    *)
(* compare is the timing.                                                  *)
(***************************************************************************)
LEMMA NoneFits ==
  ASSUME NEW o, NEW c, NEW n, NEW bus, NEW clock, NEW l, Timed(c, n, bus, clock, l), NEW i
  PROVE Agrees(Ins(o, <<>>, n, bus, clock), Written(<<o>>, l), c, i)
<1>1. Tail(<<o>>) = <<>>
  OBVIOUS
<1>2. DOMAIN <<>> = {}
  OBVIOUS
<1> QED BY <1>1, <1>2 DEF Agrees, Names, Timely, Timed, Ins, Written, Text

(***************************************************************************)
(* A row with one operand.                                                 *)
(***************************************************************************)
LEMMA OneFits ==
  ASSUME NEW o, NEW a, Plain(a), NEW c, NEW n, NEW bus, NEW clock, NEW l, Timed(c, n, bus, clock, l), NEW i
  PROVE Agrees(Ins(o, <<a>>, n, bus, clock), Written(<<o, a>>, l), c, i)
<1>1. Tail(<<o, a>>) = <<a>>
  OBVIOUS
<1>2. \A k \in DOMAIN <<a>> : <<a>>[k] = a
  OBVIOUS
<1> QED BY <1>1, <1>2 DEF Agrees, Names, Timely, Timed, Ins, Written, Text, Plain

(***************************************************************************)
(* A row with two operands.                                                *)
(***************************************************************************)
LEMMA TwoFit ==
  ASSUME NEW o, NEW a, Plain(a), NEW b, Plain(b),
         NEW c, NEW n, NEW bus, NEW clock, NEW l, Timed(c, n, bus, clock, l), NEW i
  PROVE Agrees(Ins(o, <<a, b>>, n, bus, clock), Written(<<o, a, b>>, l), c, i)
<1>1. Tail(<<o, a, b>>) = <<a, b>>
  OBVIOUS
<1>2. \A k \in DOMAIN <<a, b>> : <<a, b>>[k] \in {a, b}
  OBVIOUS
<1> QED BY <1>1, <1>2 DEF Agrees, Names, Timely, Timed, Ins, Written, Text, Plain

(***************************************************************************)
(* Names that stand for no byte behind the opcode and for no indexed       *)
(* memory.                                                                 *)
(***************************************************************************)
Sized == {"nn", "(nn)", "n", "(n)", "e"}
Bare(a) == a \notin Indexed \cup Sized

(***************************************************************************)
(* The registers, conditions, restarts and operations are such names.      *)
(***************************************************************************)
LEMMA BareNames ==
  /\ \A y \in 0 .. 7 : Bare(BaseReg(y)) /\ Bare(Cond(y)) /\ Bare(Restart(y)) /\ Bare(Bit(y))
  /\ \A k \in 1 .. 8 : Bare(Operations[k]) /\ Bare(Rotations[k])
  /\ \A p \in 0 .. 3, i \in Indexes, fourth \in {"SP", "AF"} : Bare(Pair(p, i, fourth))
  /\ \A a : Bare(a) => Plain(a)
<1>1. \A y \in 0 .. 7 : Bare(BaseReg(y)) /\ Bare(Cond(y)) /\ Bare(Restart(y)) /\ Bare(Bit(y))
  BY SMT DEF Bare, Indexed, Sized, BaseReg, Cond, Restart, Bit
<1>2. \A k \in 1 .. 8 : Bare(Operations[k]) /\ Bare(Rotations[k])
  <2> SUFFICES ASSUME NEW k \in 1 .. 8 PROVE Bare(Operations[k]) /\ Bare(Rotations[k])
    OBVIOUS
  <2>1. Operations[k] \in {"ADD_A", "ADC_A", "SUB", "SBC_A", "AND", "XOR", "OR", "CP"}
    BY SMT DEF Operations
  <2>2. Rotations[k] \in {"RLC", "RRC", "RL", "RR", "SLA", "SRA", "SLL", "SRL"}
    BY SMT DEF Rotations
  <2> QED BY <2>1, <2>2 DEF Bare, Indexed, Sized
<1>3. \A p \in 0 .. 3, i \in Indexes, fourth \in {"SP", "AF"} : Bare(Pair(p, i, fourth))
  BY SMT DEF Bare, Indexed, Sized, Pair, Indexes
<1>4. \A a : Bare(a) => Plain(a)
  BY DEF Bare, Plain
<1> QED BY <1>1, <1>2, <1>3, <1>4

(***************************************************************************)
(* What the disassembler prints behind ED.                                 *)
(***************************************************************************)
LEMMA EDTexts ==
  ASSUME NEW op
  PROVE /\ X(op) = 1 /\ Z(op) = 3 => DisassembleED(op) = Written(EDWords(op), 4)
        /\ ~(X(op) = 1 /\ Z(op) = 3) => DisassembleED(op) = Written(EDWords(op), 2)
BY DEF DisassembleED, Written

(***************************************************************************)
(* ED: opcode by opcode, the executor, which decodes by fields, and the    *)
(* disassembler, which decodes by a table, agree on all but RRD and RLD.   *)
(***************************************************************************)
LEMMA EDFits ==
  ASSUME NEW op \in 0 .. 255, NEW taken \in BOOLEAN, op \notin {103, 111}, NEW i
  PROVE Agrees(ExecuteED(op, taken), DisassembleED(op), 2, i)
<1>0. /\ X(op) \in 0 .. 3 /\ Y(op) \in 0 .. 7 /\ Z(op) \in 0 .. 7 /\ op = 64 * X(op) + 8 * Y(op) + Z(op)
      /\ P(op) \in 0 .. 3 /\ Q(op) \in 0 .. 1 /\ Y(op) = 2 * P(op) + Q(op)
  <2>1. Decoded(op)
    BY Fields
  <2> QED BY <2>1 DEF Decoded
<1>1. CASE X(op) = 1 /\ Z(op) = 0 /\ Y(op) # 6
  <2>1. op = 64 + 8 * Y(op) /\ Y(op) \in 0 .. 7
    BY <1>1, <1>0
  <2>2. op # 112
    BY <1>1, <2>1
  <2>3. EDWords(op) = <<"IN", BaseReg(Y(op)), "(C)">>
    BY <2>1, <2>2, SMT DEF EDWords, Column
  <2>4. ExecuteED(op, taken) = Ins("IN", <<BaseReg(Y(op)), "(C)">>, 0, 4, 12)
    BY <1>1 DEF ExecuteED
  <2>5. DisassembleED(op) = Written(<<"IN", BaseReg(Y(op)), "(C)">>, 2)
    BY <1>1, <2>3, EDTexts
  <2>6. Timed(2, 0, 4, 12, 2)
    BY DEF Timed
  <2>7. Plain(BaseReg(Y(op))) /\ Plain("(C)")
    BY <1>0, BareNames DEF Plain, Indexed, Indexes
  <2> QED BY <2>4, <2>5, <2>6, <2>7, TwoFit
<1>2. CASE X(op) = 1 /\ Z(op) = 0 /\ Y(op) = 6
  <2>1. op = 112
    BY <1>2, <1>0
  <2>2. EDWords(op) = <<"IN", "(C)">>
    BY <2>1, SMT DEF EDWords, Column
  <2>3. ExecuteED(op, taken) = Ins("IN", <<"(C)">>, 0, 4, 12)
    BY <1>2 DEF ExecuteED
  <2>4. DisassembleED(op) = Written(<<"IN", "(C)">>, 2)
    BY <1>2, <2>2, EDTexts
  <2>5. Timed(2, 0, 4, 12, 2)
    BY DEF Timed
  <2>6. Plain("(C)")
    BY <1>0, BareNames DEF Plain, Indexed, Indexes
  <2> QED BY <2>3, <2>4, <2>5, <2>6, OneFits
<1>3. CASE X(op) = 1 /\ Z(op) = 1 /\ Y(op) # 6
  <2>1. op = 65 + 8 * Y(op) /\ Y(op) \in 0 .. 7
    BY <1>3, <1>0
  <2>2. op # 113
    BY <1>3, <2>1
  <2>3. EDWords(op) = <<"OUT", "(C)", BaseReg(Y(op))>>
    BY <2>1, <2>2, SMT DEF EDWords, Column
  <2>4. ExecuteED(op, taken) = Ins("OUT", <<"(C)", BaseReg(Y(op))>>, 0, 4, 12)
    BY <1>3 DEF ExecuteED
  <2>5. DisassembleED(op) = Written(<<"OUT", "(C)", BaseReg(Y(op))>>, 2)
    BY <1>3, <2>3, EDTexts
  <2>6. Timed(2, 0, 4, 12, 2)
    BY DEF Timed
  <2>7. Plain("(C)") /\ Plain(BaseReg(Y(op)))
    BY <1>0, BareNames DEF Plain, Indexed, Indexes
  <2> QED BY <2>4, <2>5, <2>6, <2>7, TwoFit
<1>4. CASE X(op) = 1 /\ Z(op) = 1 /\ Y(op) = 6
  <2>1. op = 113
    BY <1>4, <1>0
  <2>2. EDWords(op) = <<"OUT", "(C)", "0">>
    BY <2>1, SMT DEF EDWords, Column
  <2>3. ExecuteED(op, taken) = Ins("OUT", <<"(C)", "0">>, 0, 4, 12)
    BY <1>4 DEF ExecuteED
  <2>4. DisassembleED(op) = Written(<<"OUT", "(C)", "0">>, 2)
    BY <1>4, <2>2, EDTexts
  <2>5. Timed(2, 0, 4, 12, 2)
    BY DEF Timed
  <2>6. Plain("(C)") /\ Plain("0")
    BY <1>0, BareNames DEF Plain, Indexed, Indexes
  <2> QED BY <2>3, <2>4, <2>5, <2>6, TwoFit
<1>5. CASE X(op) = 1 /\ Z(op) = 2 /\ Q(op) = 0
  <2>1. op = 66 + 16 * P(op) /\ P(op) \in 0 .. 3
    BY <1>5, <1>0
  <2>2. EDWords(op) = <<"SBC", "HL", Pair(P(op), "HL", "SP")>>
    BY <2>1, SMT DEF EDWords, Column
  <2>3. ExecuteED(op, taken) = Ins("SBC", <<"HL", Pair(P(op), "HL", "SP")>>, 0, 0, 15)
    BY <1>5 DEF ExecuteED
  <2>4. DisassembleED(op) = Written(<<"SBC", "HL", Pair(P(op), "HL", "SP")>>, 2)
    BY <1>5, <2>2, EDTexts
  <2>5. Timed(2, 0, 0, 15, 2)
    BY DEF Timed
  <2>6. Plain("HL") /\ Plain(Pair(P(op), "HL", "SP"))
    BY <1>0, BareNames DEF Plain, Indexed, Indexes
  <2> QED BY <2>3, <2>4, <2>5, <2>6, TwoFit
<1>6. CASE X(op) = 1 /\ Z(op) = 2 /\ Q(op) = 1
  <2>1. op = 74 + 16 * P(op) /\ P(op) \in 0 .. 3
    BY <1>6, <1>0
  <2>2. EDWords(op) = <<"ADC", "HL", Pair(P(op), "HL", "SP")>>
    BY <2>1, SMT DEF EDWords, Column
  <2>3. ExecuteED(op, taken) = Ins("ADC", <<"HL", Pair(P(op), "HL", "SP")>>, 0, 0, 15)
    BY <1>6 DEF ExecuteED
  <2>4. DisassembleED(op) = Written(<<"ADC", "HL", Pair(P(op), "HL", "SP")>>, 2)
    BY <1>6, <2>2, EDTexts
  <2>5. Timed(2, 0, 0, 15, 2)
    BY DEF Timed
  <2>6. Plain("HL") /\ Plain(Pair(P(op), "HL", "SP"))
    BY <1>0, BareNames DEF Plain, Indexed, Indexes
  <2> QED BY <2>3, <2>4, <2>5, <2>6, TwoFit
<1>7. CASE X(op) = 1 /\ Z(op) = 3 /\ Q(op) = 0
  <2>1. op = 67 + 16 * P(op) /\ P(op) \in 0 .. 3
    BY <1>7, <1>0
  <2>2. EDWords(op) = <<"LD", "(nn)", Pair(P(op), "HL", "SP")>>
    BY <2>1, SMT DEF EDWords, Column
  <2>3. ExecuteED(op, taken) = Ins("LD", <<"(nn)", Pair(P(op), "HL", "SP")>>, 2, 6, 20)
    BY <1>7 DEF ExecuteED
  <2>4. DisassembleED(op) = Written(<<"LD", "(nn)", Pair(P(op), "HL", "SP")>>, 4)
    BY <1>7, <2>2, EDTexts
  <2>5. Timed(2, 2, 6, 20, 4)
    BY DEF Timed
  <2>6. Plain("(nn)") /\ Plain(Pair(P(op), "HL", "SP"))
    BY <1>0, BareNames DEF Plain, Indexed, Indexes
  <2> QED BY <2>3, <2>4, <2>5, <2>6, TwoFit
<1>8. CASE X(op) = 1 /\ Z(op) = 3 /\ Q(op) = 1
  <2>1. op = 75 + 16 * P(op) /\ P(op) \in 0 .. 3
    BY <1>8, <1>0
  <2>2. EDWords(op) = <<"LD", Pair(P(op), "HL", "SP"), "(nn)">>
    BY <2>1, SMT DEF EDWords, Column
  <2>3. ExecuteED(op, taken) = Ins("LD", <<Pair(P(op), "HL", "SP"), "(nn)">>, 2, 6, 20)
    BY <1>8 DEF ExecuteED
  <2>4. DisassembleED(op) = Written(<<"LD", Pair(P(op), "HL", "SP"), "(nn)">>, 4)
    BY <1>8, <2>2, EDTexts
  <2>5. Timed(2, 2, 6, 20, 4)
    BY DEF Timed
  <2>6. Plain(Pair(P(op), "HL", "SP")) /\ Plain("(nn)")
    BY <1>0, BareNames DEF Plain, Indexed, Indexes
  <2> QED BY <2>3, <2>4, <2>5, <2>6, TwoFit
<1>9. CASE X(op) = 1 /\ Z(op) = 4
  <2>1. op = 68 + 8 * Y(op) /\ Y(op) \in 0 .. 7
    BY <1>9, <1>0
  <2>2. EDWords(op) = <<"NEG">>
    BY <2>1, SMT DEF EDWords, Column
  <2>3. ExecuteED(op, taken) = Ins("NEG", <<>>, 0, 0, 8)
    BY <1>9 DEF ExecuteED
  <2>4. DisassembleED(op) = Written(<<"NEG">>, 2)
    BY <1>9, <2>2, EDTexts
  <2>5. Timed(2, 0, 0, 8, 2)
    BY DEF Timed
  <2> QED BY <2>3, <2>4, <2>5, NoneFits
<1>10. CASE X(op) = 1 /\ Z(op) = 5 /\ Y(op) = 1
  <2>1. op = 77
    BY <1>10, <1>0
  <2>2. EDWords(op) = <<"RETI">>
    BY <2>1, SMT DEF EDWords, Column
  <2>3. ExecuteED(op, taken) = Ins("RETI", <<>>, 0, 6, 14)
    BY <1>10 DEF ExecuteED
  <2>4. DisassembleED(op) = Written(<<"RETI">>, 2)
    BY <1>10, <2>2, EDTexts
  <2>5. Timed(2, 0, 6, 14, 2)
    BY DEF Timed
  <2> QED BY <2>3, <2>4, <2>5, NoneFits
<1>11. CASE X(op) = 1 /\ Z(op) = 5 /\ Y(op) \notin {1, 7}
  <2>1. op = 69 + 8 * Y(op) /\ Y(op) \in 0 .. 6 /\ Y(op) # 1
    BY <1>11, <1>0
  <2>2. EDWords(op) = <<"RETN">>
    BY <2>1, SMT DEF EDWords, Column
  <2>3. ExecuteED(op, taken) = Ins("RETN", <<>>, 0, 6, 14)
    BY <1>11 DEF ExecuteED
  <2>4. DisassembleED(op) = Written(<<"RETN">>, 2)
    BY <1>11, <2>2, EDTexts
  <2>5. Timed(2, 0, 6, 14, 2)
    BY DEF Timed
  <2> QED BY <2>3, <2>4, <2>5, NoneFits
<1>12. CASE X(op) = 1 /\ Z(op) = 6 /\ Y(op) \in {2, 6}
  <2>1. op \in {86, 118}
    BY <1>12, <1>0
  <2>2. EDWords(op) = <<"IM", "1">>
    BY <2>1, SMT DEF EDWords, Column
  <2>3. ExecuteED(op, taken) = Ins("IM", <<"1">>, 0, 0, 8)
    BY <1>12 DEF ExecuteED
  <2>4. DisassembleED(op) = Written(<<"IM", "1">>, 2)
    BY <1>12, <2>2, EDTexts
  <2>5. Timed(2, 0, 0, 8, 2)
    BY DEF Timed
  <2>6. Plain("1")
    BY <1>0, BareNames DEF Plain, Indexed, Indexes
  <2> QED BY <2>3, <2>4, <2>5, <2>6, OneFits
<1>13. CASE X(op) = 1 /\ Z(op) = 6 /\ Y(op) \in {3, 7}
  <2>1. op \in {94, 126}
    BY <1>13, <1>0
  <2>2. EDWords(op) = <<"IM", "2">>
    BY <2>1, SMT DEF EDWords, Column
  <2>3. ExecuteED(op, taken) = Ins("IM", <<"2">>, 0, 0, 8)
    BY <1>13 DEF ExecuteED
  <2>4. DisassembleED(op) = Written(<<"IM", "2">>, 2)
    BY <1>13, <2>2, EDTexts
  <2>5. Timed(2, 0, 0, 8, 2)
    BY DEF Timed
  <2>6. Plain("2")
    BY <1>0, BareNames DEF Plain, Indexed, Indexes
  <2> QED BY <2>3, <2>4, <2>5, <2>6, OneFits
<1>14. CASE X(op) = 1 /\ Z(op) = 6 /\ Y(op) \in {0, 1, 4, 5}
  <2>1. op \in {70, 78, 102, 110}
    BY <1>14, <1>0
  <2>2. EDWords(op) = <<"IM", "0">>
    BY <2>1, SMT DEF EDWords, Column
  <2>3. ExecuteED(op, taken) = Ins("IM", <<"0">>, 0, 0, 8)
    BY <1>14 DEF ExecuteED
  <2>4. DisassembleED(op) = Written(<<"IM", "0">>, 2)
    BY <1>14, <2>2, EDTexts
  <2>5. Timed(2, 0, 0, 8, 2)
    BY DEF Timed
  <2>6. Plain("0")
    BY <1>0, BareNames DEF Plain, Indexed, Indexes
  <2> QED BY <2>3, <2>4, <2>5, <2>6, OneFits
<1>15. CASE X(op) = 1 /\ Z(op) = 7 /\ Y(op) = 0
  <2>1. op = 71
    BY <1>15, <1>0
  <2>2. EDWords(op) = <<"LD", "I", "A">>
    BY <2>1, SMT DEF EDWords, Column
  <2>3. ExecuteED(op, taken) = Ins("LD", <<"I", "A">>, 0, 0, 9)
    BY <1>15 DEF ExecuteED
  <2>4. DisassembleED(op) = Written(<<"LD", "I", "A">>, 2)
    BY <1>15, <2>2, EDTexts
  <2>5. Timed(2, 0, 0, 9, 2)
    BY DEF Timed
  <2>6. Plain("I") /\ Plain("A")
    BY <1>0, BareNames DEF Plain, Indexed, Indexes
  <2> QED BY <2>3, <2>4, <2>5, <2>6, TwoFit
<1>16. CASE X(op) = 1 /\ Z(op) = 7 /\ Y(op) = 1
  <2>1. op = 79
    BY <1>16, <1>0
  <2>2. EDWords(op) = <<"LD", "R", "A">>
    BY <2>1, SMT DEF EDWords, Column
  <2>3. ExecuteED(op, taken) = Ins("LD", <<"R", "A">>, 0, 0, 9)
    BY <1>16 DEF ExecuteED
  <2>4. DisassembleED(op) = Written(<<"LD", "R", "A">>, 2)
    BY <1>16, <2>2, EDTexts
  <2>5. Timed(2, 0, 0, 9, 2)
    BY DEF Timed
  <2>6. Plain("R") /\ Plain("A")
    BY <1>0, BareNames DEF Plain, Indexed, Indexes
  <2> QED BY <2>3, <2>4, <2>5, <2>6, TwoFit
<1>17. CASE X(op) = 1 /\ Z(op) = 7 /\ Y(op) = 2
  <2>1. op = 87
    BY <1>17, <1>0
  <2>2. EDWords(op) = <<"LD", "A", "I">>
    BY <2>1, SMT DEF EDWords, Column
  <2>3. ExecuteED(op, taken) = Ins("LD", <<"A", "I">>, 0, 0, 9)
    BY <1>17 DEF ExecuteED
  <2>4. DisassembleED(op) = Written(<<"LD", "A", "I">>, 2)
    BY <1>17, <2>2, EDTexts
  <2>5. Timed(2, 0, 0, 9, 2)
    BY DEF Timed
  <2>6. Plain("A") /\ Plain("I")
    BY <1>0, BareNames DEF Plain, Indexed, Indexes
  <2> QED BY <2>3, <2>4, <2>5, <2>6, TwoFit
<1>18. CASE X(op) = 1 /\ Z(op) = 7 /\ Y(op) = 3
  <2>1. op = 95
    BY <1>18, <1>0
  <2>2. EDWords(op) = <<"LD", "A", "R">>
    BY <2>1, SMT DEF EDWords, Column
  <2>3. ExecuteED(op, taken) = Ins("LD", <<"A", "R">>, 0, 0, 9)
    BY <1>18 DEF ExecuteED
  <2>4. DisassembleED(op) = Written(<<"LD", "A", "R">>, 2)
    BY <1>18, <2>2, EDTexts
  <2>5. Timed(2, 0, 0, 9, 2)
    BY DEF Timed
  <2>6. Plain("A") /\ Plain("R")
    BY <1>0, BareNames DEF Plain, Indexed, Indexes
  <2> QED BY <2>3, <2>4, <2>5, <2>6, TwoFit
<1>19. CASE X(op) = 2 /\ Y(op) >= 4 /\ Z(op) < 4
  <2> DEFINE name == BlockNames[Y(op) - 3][Z(op) + 1]
  <2>1. op = 160 + 8 * (Y(op) - 4) + Z(op) /\ Y(op) - 4 \in 0 .. 3 /\ Z(op) \in 0 .. 3
    BY <1>19, <1>0
  <2>2. EDWords(op) = <<name>>
    BY <2>1, SMT DEF EDWords, Column
  <2>3. ExecuteED(op, taken) = Ins(name, <<>>, 0, <<6, 3, 7, 7>>[Z(op) + 1], IF Y(op) >= 6 /\ taken THEN 21 ELSE 16)
    BY <1>19 DEF ExecuteED
  <2>4. PICK bus \in 0 .. 7, clock \in 16 .. 21 :
          bus = <<6, 3, 7, 7>>[Z(op) + 1] /\ clock = IF Y(op) >= 6 /\ taken THEN 21 ELSE 16
    BY <2>1
  <2>5. DisassembleED(op) = Written(<<name>>, 2)
    BY <1>19, <2>2, EDTexts
  <2>6. Timed(2, 0, bus, clock, 2)
    BY DEF Timed
  <2> HIDE DEF name
  <2> QED BY <2>3, <2>4, <2>5, <2>6, NoneFits
<1>20. CASE \/ X(op) \in {0, 3}
            \/ X(op) = 2 /\ (Y(op) < 4 \/ Z(op) >= 4)
            \/ X(op) = 1 /\ Z(op) = 5 /\ Y(op) = 7
            \/ X(op) = 1 /\ Z(op) = 7 /\ Y(op) \in {6, 7}
  <2>1. op < 64 \/ op > 191 \/ op \in 128 .. 159 \/ op \in {119, 125, 127} \/ \E m \in 0 .. 3, k \in 4 .. 7 : op = 160 + 8 * m + k
    <3>1. CASE X(op) = 2 /\ Y(op) >= 4 /\ Z(op) >= 4
      <4>1. Y(op) - 4 \in 0 .. 3 /\ Z(op) \in 4 .. 7 /\ op = 160 + 8 * (Y(op) - 4) + Z(op)
        BY <3>1, <1>0
      <4> QED BY <4>1
    <3>2. CASE X(op) = 2 /\ Y(op) < 4
      BY <3>2, <1>0
    <3>3. CASE X(op) \in {0, 3}
      BY <3>3, <1>0
    <3>4. CASE X(op) = 1
      BY <1>20, <3>4, <1>0
    <3> QED BY <1>20, <3>1, <3>2, <3>3, <3>4, <1>0
  <2>2. EDWords(op) = <<"NOP">>
    BY <2>1, SMT DEF EDWords, Column
  <2>3. ExecuteED(op, taken) = Ins("NOP", <<>>, 0, 0, 8)
    <3>1. CASE X(op) \in {0, 3}
      BY <3>1 DEF ExecuteED, EDNop
    <3>2. CASE X(op) = 2 /\ (Y(op) < 4 \/ Z(op) >= 4)
      <4>1. ~(Y(op) >= 4 /\ Z(op) < 4)
        BY <3>2, <1>0
      <4> QED BY <3>2, <4>1 DEF ExecuteED, EDNop
    <3>3. CASE X(op) = 1 /\ Z(op) = 5 /\ Y(op) = 7
      BY <3>3 DEF ExecuteED, EDNop
    <3>4. CASE X(op) = 1 /\ Z(op) = 7 /\ Y(op) \in {6, 7}
      BY <3>4 DEF ExecuteED, EDNop
    <3> QED BY <1>20, <3>1, <3>2, <3>3, <3>4
  <2>4. DisassembleED(op) = Written(<<"NOP">>, 2)
    BY <1>20, <2>2, EDTexts
  <2>5. Timed(2, 0, 0, 8, 2)
    BY DEF Timed
  <2> QED BY <2>3, <2>4, <2>5, NoneFits
<1> QED
  <2>1. CASE X(op) = 1
    <3>1. CASE Z(op) = 0
      BY <1>1, <1>2, <2>1, <3>1
    <3>2. CASE Z(op) = 1
      BY <1>3, <1>4, <2>1, <3>2
    <3>3. CASE Z(op) = 2
      BY <1>5, <1>6, <2>1, <3>3, <1>0
    <3>4. CASE Z(op) = 3
      BY <1>7, <1>8, <2>1, <3>4, <1>0
    <3>5. CASE Z(op) = 4
      BY <1>9, <2>1, <3>5
    <3>6. CASE Z(op) = 5
      BY <1>10, <1>11, <1>20, <2>1, <3>6
    <3>7. CASE Z(op) = 6
      BY <1>12, <1>13, <1>14, <2>1, <3>7, <1>0
    <3>8. CASE Z(op) = 7
      <4>1. Y(op) \notin {4, 5}
        BY <2>1, <3>8, <1>0
      <4> QED BY <1>15, <1>16, <1>17, <1>18, <1>20, <2>1, <3>8, <4>1, <1>0
    <3> QED BY <3>1, <3>2, <3>3, <3>4, <3>5, <3>6, <3>7, <3>8, <1>0
  <2>2. CASE X(op) = 2
    BY <1>19, <1>20, <2>2, <1>0
  <2>3. CASE X(op) \in {0, 3}
    BY <1>20, <2>3
  <2> QED BY <2>1, <2>2, <2>3, <1>0

(***************************************************************************)
(* Without an index the executor names the plain registers; the operand    *)
(* with number 6 is memory.                                                *)
(***************************************************************************)
LEMMA IndexRegs ==
  /\ \A r \in 0 .. 7 : IndexReg(r, "HL") = BaseReg(r)
  /\ \A i \in Indexes : IndexReg(6, i) = Memory[i]
<1>1. ASSUME NEW r \in 0 .. 7 PROVE IndexReg(r, "HL") = BaseReg(r)
  <2>1. High["HL"] = "H" /\ Low["HL"] = "L" /\ Memory["HL"] = "(HL)"
    BY DEF High, Low, Memory
  <2>2. BaseReg(4) = "H" /\ BaseReg(5) = "L" /\ BaseReg(6) = "(HL)"
    BY SMT DEF BaseReg
  <2> QED BY <2>1, <2>2 DEF IndexReg
<1>2. ASSUME NEW i \in Indexes PROVE IndexReg(6, i) = Memory[i]
  BY DEF IndexReg
<1> QED BY <1>1, <1>2

(***************************************************************************)
(* Behind DD CB and the displacement the last byte is read as an operand.  *)
(***************************************************************************)
CBBytes(i) == IF i = "HL" THEN 2 ELSE 1

(***************************************************************************)
(* CB: the clock covers the bus, with an index or without.                 *)
(***************************************************************************)
LEMMA CBTimely ==
  ASSUME NEW op \in 0 .. 255, NEW i
  PROVE Timely(ExecuteCB(op, i), CBBytes(i), i)
<1> DEFINE e == ExecuteCB(op, i)
<1>1. /\ e.operands = IF i # "HL" THEN 2 ELSE 0
      /\ e.bus = IF Z(op) # 6 THEN 0 ELSE IF X(op) = 1 THEN 3 ELSE 6
      /\ e.clock = CBClock(op, i)
  BY DEF ExecuteCB, Ins
<1> HIDE DEF e
<1>2. CASE i = "HL"
  <2>1. CBClock(op, i) = IF Z(op) = 6 THEN IF X(op) = 1 THEN 12 ELSE 15 ELSE 8
    BY <1>2 DEF CBClock
  <2>2. e.operands = 0 /\ e.bus \in {0, 3, 6} /\ e.clock \in {8, 12, 15} /\ e.clock >= 8 + e.bus
    BY <1>1, <1>2, <2>1
  <2>3. e.clock >= 4 * CBBytes(i) + 3 * e.operands + e.bus
    BY <1>2, <2>2 DEF CBBytes
  <2> QED BY <1>2, <2>3 DEF Timely, e
<1>3. CASE i # "HL"
  <2>1. CBClock(op, i) = IF X(op) = 1 THEN 20 ELSE 23
    BY <1>3 DEF CBClock
  <2>2. e.operands = 2 /\ e.bus \in {0, 3, 6} /\ e.clock \in {20, 23} /\ e.clock >= 14 + e.bus
    BY <1>1, <1>3, <2>1
  <2>3. e.clock >= 4 * CBBytes(i) + 4 + 3 * e.operands + e.bus
    BY <1>3, <2>2 DEF CBBytes
  <2> QED BY <1>3, <2>3 DEF Timely, e
<1> QED BY <1>2, <1>3 DEF e

(***************************************************************************)
(* CB: the decoders agree on memory and, without an index, on the          *)
(* registers.                                                              *)
(***************************************************************************)
LEMMA CBNames ==
  ASSUME NEW op \in 0 .. 255, NEW i \in Indexes, i = "HL" \/ Z(op) = 6
  PROVE Names(ExecuteCB(op, i), DisassembleCB(op, i), CBBytes(i))
<1> DEFINE e == ExecuteCB(op, i)
           t == DisassembleCB(op, i)
           bit == Bit(Y(op))
           name == IF X(op) = 0 THEN Rotations[Y(op) + 1] ELSE <<"BIT", "RES", "SET">>[X(op)]
           target == IndexReg(Z(op), i)
<1>0. /\ X(op) \in 0 .. 3 /\ Y(op) \in 0 .. 7 /\ Z(op) \in 0 .. 7 /\ op = 64 * X(op) + 8 * Y(op) + Z(op)
      /\ P(op) \in 0 .. 3 /\ Q(op) \in 0 .. 1 /\ Y(op) = 2 * P(op) + Q(op)
  <2>1. Decoded(op)
    BY Fields
  <2> QED BY <2>1 DEF Decoded
<1>1. target = IF i = "HL" THEN BaseReg(Z(op)) ELSE Memory[i]
  BY IndexRegs, <1>0
<1>2. ASSUME NEW a, NEW b PROVE <<>> \o <<a>> \o <<>> = <<a>> /\ (<<b>> \o <<a>>) \o <<>> = <<b>> \o <<a>>
  <2>1. <<a>> \in Seq({a, b}) /\ <<b>> \in Seq({a, b}) /\ <<b>> \o <<a>> \in Seq({a, b})
    OBVIOUS
  <2> QED BY <2>1
<1>3. e.op = name /\ e.args = (IF X(op) = 0 THEN <<>> ELSE <<bit>>) \o <<target>> \o <<>>
  BY DEF ExecuteCB, Ins
<1>4. /\ t.op = name
      /\ t.args = IF X(op) = 0 THEN <<target>> ELSE <<bit>> \o <<target>>
      /\ t.length = IF i = "HL" THEN 2 ELSE 3
  BY <1>1 DEF DisassembleCB, Text
<1>5. e.operands = IF i # "HL" THEN 2 ELSE 0
  BY DEF ExecuteCB, Ins
<1> HIDE DEF e, t, bit, name, target
<1>6. e.args = t.args
  BY <1>2, <1>3, <1>4
<1>7. e.operands \in Nat /\ CBBytes(i) + e.operands = t.length
  BY <1>4, <1>5 DEF CBBytes
<1> QED BY <1>3, <1>4, <1>6, <1>7 DEF Names, e, t

(***************************************************************************)
(* The bytes an operand takes behind the opcode.                           *)
(***************************************************************************)
OperandBytes(a) == IF a \in {"nn", "(nn)"} THEN 2 ELSE IF a \in {"n", "(n)", "e"} THEN 1 ELSE 0

(***************************************************************************)
(* How the length of a row follows from what it works on.                  *)
(***************************************************************************)
Has(words, operands) == \E k \in DOMAIN words : words[k] \in operands
Long == {"nn", "(nn)"}
Short == {"n", "(n)", "e"}

(***************************************************************************)
(* The length of a row, and the bytes of an operand, by the two sets of    *)
(* operands that take bytes.                                               *)
(***************************************************************************)
LEMMA Lengths ==
  /\ \A w : WordsLength(w) = IF Has(w, Long) THEN 3 ELSE IF Has(w, Short) THEN 2 ELSE 1
  /\ \A o, s : Has(<<o>>, s) <=> o \in s
  /\ \A o, a, s : Has(<<o, a>>, s) <=> o \in s \/ a \in s
  /\ \A o, a, b, s : Has(<<o, a, b>>, s) <=> o \in s \/ a \in s \/ b \in s
  /\ \A a : OperandBytes(a) = IF a \in Long THEN 2 ELSE IF a \in Short THEN 1 ELSE 0
  /\ \A a : OperandBytes(a) = 0 <=> a \notin Long /\ a \notin Short
<1>1. \A w : WordsLength(w) = IF Has(w, Long) THEN 3 ELSE IF Has(w, Short) THEN 2 ELSE 1
  BY DEF WordsLength, Has, Long, Short
<1>2. \A o, s : Has(<<o>>, s) <=> o \in s
  BY DEF Has
<1>3. \A o, a, s : Has(<<o, a>>, s) <=> o \in s \/ a \in s
  BY DEF Has
<1>4. \A o, a, b, s : Has(<<o, a, b>>, s) <=> o \in s \/ a \in s \/ b \in s
  BY DEF Has
<1>5. \A a : OperandBytes(a) = IF a \in Long THEN 2 ELSE IF a \in Short THEN 1 ELSE 0
  BY DEF OperandBytes, Long, Short
<1>6. \A a : OperandBytes(a) = 0 <=> a \notin Long /\ a \notin Short
  BY <1>5
<1> QED BY <1>1, <1>2, <1>3, <1>4, <1>5, <1>6

(***************************************************************************)
(* A row is as long as its mnemonic with the operand that takes bytes.     *)
(***************************************************************************)
LEMMA OneWord ==
  ASSUME NEW o, OperandBytes(o) = 0
  PROVE WordsLength(<<o>>) = 1
BY Lengths

(***************************************************************************)
(* With one operand, a row is as much longer as the operand has bytes.     *)
(***************************************************************************)
LEMMA TwoWords ==
  ASSUME NEW o, OperandBytes(o) = 0, NEW a, NEW n, OperandBytes(a) = n
  PROVE WordsLength(<<o, a>>) = 1 + n
BY Lengths

(***************************************************************************)
(* With two operands at most one of which takes bytes, it is the bytes of  *)
(* both that count.                                                        *)
(***************************************************************************)
LEMMA ThreeWords ==
  ASSUME NEW o, OperandBytes(o) = 0, NEW a, NEW b, OperandBytes(a) = 0 \/ OperandBytes(b) = 0, NEW n, OperandBytes(a) + OperandBytes(b) = n
  PROVE WordsLength(<<o, a, b>>) = 1 + n
<1>1. o \notin Long /\ o \notin Short
  BY Lengths
<1>2. CASE OperandBytes(a) = 0
  <2>1. WordsLength(<<o, a, b>>) = IF b \in Long THEN 3 ELSE IF b \in Short THEN 2 ELSE 1
    BY <1>1, <1>2, Lengths
  <2>2. n = OperandBytes(b)
    BY <1>2, Lengths
  <2> QED BY <2>1, <2>2, Lengths
<1>3. CASE OperandBytes(b) = 0
  <2>1. WordsLength(<<o, a, b>>) = IF a \in Long THEN 3 ELSE IF a \in Short THEN 2 ELSE 1
    BY <1>1, <1>3, Lengths
  <2>2. n = OperandBytes(a)
    BY <1>3, Lengths
  <2> QED BY <2>1, <2>2, Lengths
<1> QED BY <1>2, <1>3

(***************************************************************************)
(* The executor outside CB and ED.                                         *)
(***************************************************************************)
ExecuteBase(op, i, taken) ==
  CASE X(op) = 0 -> Low6(op, i, taken)
    [] X(op) \in {1, 2} -> Middle(op, i)
    [] X(op) = 3 -> Top(op, i, taken)

BaseFits(op, i, taken) == Agrees(ExecuteBase(op, i, taken), DisassembleBase(op, i), 1, i)

Takes(n, bus, clock) == Timed(1, n, bus, clock, 1 + n)

(***************************************************************************)
(* A row of the table is printed as it stands.                             *)
(***************************************************************************)
LEMMA WordText ==
  ASSUME NEW op, NEW i, NEW words, BaseWords(op, i) = words, words # <<>>, NEW l, WordsLength(words) = l
  PROVE DisassembleBase(op, i) = Written(words, l)
BY DEF DisassembleBase, Written

(***************************************************************************)
(* Where the table has a row and the executor does what it says, they      *)
(* agree.                                                                  *)
(***************************************************************************)
LEMMA NoneRow ==
  ASSUME NEW op, NEW i, NEW taken, NEW o, OperandBytes(o) = 0, BaseWords(op, i) = <<o>>,
         NEW bus, NEW clock, ExecuteBase(op, i, taken) = Ins(o, <<>>, 0, bus, clock), Takes(0, bus, clock)
  PROVE BaseFits(op, i, taken)
<1>1. WordsLength(<<o>>) = 1 + 0
  <2>1. WordsLength(<<o>>) = 1
    BY OneWord
  <2> QED BY <2>1
<1>2. <<o>> # <<>>
  OBVIOUS
<1>3. DisassembleBase(op, i) = Written(<<o>>, 1 + 0)
  BY <1>1, <1>2, WordText
<1> QED BY <1>3, NoneFits DEF BaseFits, Takes

(***************************************************************************)
(* The same for a row with one operand.                                    *)
(***************************************************************************)
LEMMA OneRow ==
  ASSUME NEW op, NEW i, NEW taken, NEW o, OperandBytes(o) = 0, NEW a, Plain(a), BaseWords(op, i) = <<o, a>>,
         NEW n, OperandBytes(a) = n, NEW bus, NEW clock,
         ExecuteBase(op, i, taken) = Ins(o, <<a>>, n, bus, clock), Takes(n, bus, clock)
  PROVE BaseFits(op, i, taken)
<1>1. WordsLength(<<o, a>>) = 1 + n
  BY TwoWords
<1>2. <<o, a>> # <<>>
  OBVIOUS
<1>3. DisassembleBase(op, i) = Written(<<o, a>>, 1 + n)
  BY <1>1, <1>2, WordText
<1> QED BY <1>3, OneFits DEF BaseFits, Takes

(***************************************************************************)
(* The same for a row with two.                                            *)
(***************************************************************************)
LEMMA TwoRow ==
  ASSUME NEW op, NEW i, NEW taken, NEW o, OperandBytes(o) = 0, NEW a, Plain(a), NEW b, Plain(b),
         BaseWords(op, i) = <<o, a, b>>, OperandBytes(a) = 0 \/ OperandBytes(b) = 0,
         NEW n, OperandBytes(a) + OperandBytes(b) = n, NEW bus, NEW clock,
         ExecuteBase(op, i, taken) = Ins(o, <<a, b>>, n, bus, clock), Takes(n, bus, clock)
  PROVE BaseFits(op, i, taken)
<1>1. WordsLength(<<o, a, b>>) = 1 + n
  BY ThreeWords
<1>2. <<o, a, b>> # <<>>
  OBVIOUS
<1>3. DisassembleBase(op, i) = Written(<<o, a, b>>, 1 + n)
  BY <1>1, <1>2, WordText
<1> QED BY <1>3, TwoFit DEF BaseFits, Takes

(***************************************************************************)
(* A bare name takes no bytes; an index is one.                            *)
(***************************************************************************)
LEMMA BareSize ==
  /\ \A a : Bare(a) => Plain(a) /\ OperandBytes(a) = 0
  /\ \A i \in Indexes : Bare(i)
<1>1. \A a : Bare(a) => Plain(a) /\ OperandBytes(a) = 0
  BY DEF Bare, Plain, Sized, OperandBytes
<1>2. \A i \in Indexes : Bare(i)
  BY DEF Bare, Sized, Indexed, Indexes
<1> QED BY <1>1, <1>2

(***************************************************************************)
(* From 00 to 3F: every row of the table is what the executor does.        *)
(***************************************************************************)
LEMMA LowFits ==
  ASSUME NEW op \in 0 .. 255, X(op) = 0, NEW i \in Indexes, NEW taken \in BOOLEAN, Z(op) \notin {4, 5, 6}
  PROVE BaseFits(op, i, taken)
<1>0. /\ X(op) \in 0 .. 3 /\ Y(op) \in 0 .. 7 /\ Z(op) \in 0 .. 7 /\ op = 64 * X(op) + 8 * Y(op) + Z(op)
      /\ P(op) \in 0 .. 3 /\ Q(op) \in 0 .. 1 /\ Y(op) = 2 * P(op) + Q(op)
  <2>1. Decoded(op)
    BY Fields
  <2> QED BY <2>1 DEF Decoded
<1>1. CASE Z(op) = 0 /\ Y(op) = 0
  <2>1. op = 0 /\ X(op) = 0 /\ Y(op) = 0 /\ Z(op) = 0 /\ P(op) = 0 /\ Q(op) = 0
    BY <1>1, <1>0
  <2>2. BaseWords(op, i) = <<"NOP">>
    BY <2>1, SMT DEF BaseWords, Column
  <2>3. ExecuteBase(op, i, taken) = Ins("NOP", <<>>, 0, 0, 4)
    BY <1>1, <2>1 DEF ExecuteBase, Low6
  <2>4. Takes(0, 0, 4)
    BY DEF Takes, Timed
  <2>5. OperandBytes("NOP") = 0
    BY DEF Plain, Indexed, OperandBytes
  <2> QED BY <2>2, <2>3, <2>4, <2>5, NoneRow
<1>2. CASE Z(op) = 0 /\ Y(op) = 1
  <2>1. op = 8 /\ X(op) = 0 /\ Y(op) = 1 /\ Z(op) = 0 /\ P(op) = 0 /\ Q(op) = 1
    BY <1>2, <1>0
  <2>2. BaseWords(op, i) = <<"EX", "AF", "AF'">>
    BY <2>1, SMT DEF BaseWords, Column
  <2>3. ExecuteBase(op, i, taken) = Ins("EX", <<"AF", "AF'">>, 0, 0, 4)
    BY <1>2, <2>1 DEF ExecuteBase, Low6
  <2>4. Takes(0, 0, 4)
    BY DEF Takes, Timed
  <2>5. OperandBytes("EX") = 0 /\ Plain("AF") /\ OperandBytes("AF") = 0 /\ Plain("AF'") /\ OperandBytes("AF'") = 0
    BY DEF Plain, Indexed, OperandBytes
  <2> QED BY <2>2, <2>3, <2>4, <2>5, TwoRow
<1>3. CASE Z(op) = 0 /\ Y(op) = 2
  <2>1. op = 16 /\ X(op) = 0 /\ Y(op) = 2 /\ Z(op) = 0 /\ P(op) = 1 /\ Q(op) = 0
    BY <1>3, <1>0
  <2>2. BaseWords(op, i) = <<"DJNZ", "e">>
    BY <2>1, SMT DEF BaseWords, Column
  <2>3. ExecuteBase(op, i, taken) = Ins("DJNZ", <<"e">>, 1, 0, IF taken THEN 13 ELSE 8)
    BY <1>3, <2>1 DEF ExecuteBase, Low6
  <2>4. Takes(1, 0, IF taken THEN 13 ELSE 8)
    BY DEF Takes, Timed
  <2>5. OperandBytes("DJNZ") = 0 /\ Plain("e") /\ OperandBytes("e") = 1
    BY DEF Plain, Indexed, OperandBytes
  <2> QED BY <2>2, <2>3, <2>4, <2>5, OneRow
<1>4. CASE Z(op) = 0 /\ Y(op) = 3
  <2>1. op = 24 /\ X(op) = 0 /\ Y(op) = 3 /\ Z(op) = 0 /\ P(op) = 1 /\ Q(op) = 1
    BY <1>4, <1>0
  <2>2. BaseWords(op, i) = <<"JR", "e">>
    BY <2>1, SMT DEF BaseWords, Column
  <2>3. ExecuteBase(op, i, taken) = Ins("JR", <<"e">>, 1, 0, 12)
    BY <1>4, <2>1 DEF ExecuteBase, Low6
  <2>4. Takes(1, 0, 12)
    BY DEF Takes, Timed
  <2>5. OperandBytes("JR") = 0 /\ Plain("e") /\ OperandBytes("e") = 1
    BY DEF Plain, Indexed, OperandBytes
  <2> QED BY <2>2, <2>3, <2>4, <2>5, OneRow
<1>5. CASE Z(op) = 0 /\ Y(op) >= 4
  <2>1. Y(op) - 4 \in 0 .. 3 /\ op \in {32, 40, 48, 56} /\ op = 32 + 8 * (Y(op) - 4)
    BY <1>5, <1>0
  <2>2. (op - 32) \div 8 = Y(op) - 4
    BY <2>1
  <2>3. BaseWords(op, i) = <<"JR", Cond(Y(op) - 4), "e">>
    <3>1. CASE op = 32
      BY <3>1, <2>2, SMT DEF BaseWords, Column
    <3>2. CASE op = 40
      BY <3>2, <2>2, SMT DEF BaseWords, Column
    <3>3. CASE op = 48
      BY <3>3, <2>2, SMT DEF BaseWords, Column
    <3>4. CASE op = 56
      BY <3>4, <2>2, SMT DEF BaseWords, Column
    <3> QED BY <2>1, <3>1, <3>2, <3>3, <3>4
  <2>4. ExecuteBase(op, i, taken) = Ins("JR", <<Cond(Y(op) - 4), "e">>, 1, 0, IF taken THEN 12 ELSE 7)
    BY <1>5, <2>1 DEF ExecuteBase, Low6
  <2>5. Takes(1, 0, IF taken THEN 12 ELSE 7)
    BY DEF Takes, Timed
  <2>6. OperandBytes("JR") = 0 /\ Plain("e") /\ OperandBytes("e") = 1
    BY DEF Plain, Indexed, OperandBytes
  <2>7. Bare(Cond(Y(op) - 4))
    BY <2>1, <1>0, BareNames, BareSize
  <2>8. Plain(Cond(Y(op) - 4)) /\ OperandBytes(Cond(Y(op) - 4)) = 0
    BY <2>7, BareSize
  <2> QED BY <2>3, <2>4, <2>5, <2>6, <2>8, TwoRow
<1>6. CASE Z(op) = 1 /\ Q(op) = 0
  <2>1. P(op) \in 0 .. 3 /\ op \in {1, 17, 33, 49}
    BY <1>6, <1>0
  <2>2. BaseWords(op, i) = <<"LD", Pair(P(op), i, "SP"), "nn">>
    <3>1. CASE op = 1
      BY <3>1, SMT DEF BaseWords, Column
    <3>2. CASE op = 17
      BY <3>2, SMT DEF BaseWords, Column
    <3>3. CASE op = 33
      BY <3>3, SMT DEF BaseWords, Column
    <3>4. CASE op = 49
      BY <3>4, SMT DEF BaseWords, Column
    <3> QED BY <2>1, <3>1, <3>2, <3>3, <3>4
  <2>3. ExecuteBase(op, i, taken) = Ins("LD", <<Pair(P(op), i, "SP"), "nn">>, 2, 0, 10)
    BY <1>6, <2>1 DEF ExecuteBase, Low6
  <2>4. Takes(2, 0, 10)
    BY DEF Takes, Timed
  <2>5. OperandBytes("LD") = 0 /\ Plain("nn") /\ OperandBytes("nn") = 2
    BY DEF Plain, Indexed, OperandBytes
  <2>6. Bare(Pair(P(op), i, "SP"))
    BY <2>1, <1>0, BareNames, BareSize
  <2>7. Plain(Pair(P(op), i, "SP")) /\ OperandBytes(Pair(P(op), i, "SP")) = 0
    BY <2>6, BareSize
  <2> QED BY <2>2, <2>3, <2>4, <2>5, <2>7, TwoRow
<1>7. CASE Z(op) = 1 /\ Q(op) = 1
  <2>1. P(op) \in 0 .. 3 /\ op \in {9, 25, 41, 57}
    BY <1>7, <1>0
  <2>2. BaseWords(op, i) = <<"ADD", i, Pair(P(op), i, "SP")>>
    <3>1. CASE op = 9
      BY <3>1, SMT DEF BaseWords, Column
    <3>2. CASE op = 25
      BY <3>2, SMT DEF BaseWords, Column
    <3>3. CASE op = 41
      BY <3>3, SMT DEF BaseWords, Column
    <3>4. CASE op = 57
      BY <3>4, SMT DEF BaseWords, Column
    <3> QED BY <2>1, <3>1, <3>2, <3>3, <3>4
  <2>3. ExecuteBase(op, i, taken) = Ins("ADD", <<i, Pair(P(op), i, "SP")>>, 0, 0, IF i # "HL" THEN 15 ELSE 11)
    BY <1>7, <2>1 DEF ExecuteBase, Low6
  <2>4. Takes(0, 0, IF i # "HL" THEN 15 ELSE 11)
    BY DEF Takes, Timed
  <2>5. OperandBytes("ADD") = 0
    BY DEF Plain, Indexed, OperandBytes
  <2>6. Bare(i) /\ Bare(Pair(P(op), i, "SP"))
    BY <2>1, <1>0, BareNames, BareSize
  <2>7. Plain(i) /\ OperandBytes(i) = 0 /\ Plain(Pair(P(op), i, "SP")) /\ OperandBytes(Pair(P(op), i, "SP")) = 0
    BY <2>6, BareSize
  <2> QED BY <2>2, <2>3, <2>4, <2>5, <2>7, TwoRow
<1>8. CASE Z(op) = 2 /\ Y(op) = 0
  <2>1. op = 2 /\ X(op) = 0 /\ Y(op) = 0 /\ Z(op) = 2 /\ P(op) = 0 /\ Q(op) = 0
    BY <1>8, <1>0
  <2>2. BaseWords(op, i) = <<"LD", "(BC)", "A">>
    BY <2>1, SMT DEF BaseWords, Column
  <2>3. ExecuteBase(op, i, taken) = Ins("LD", <<"(BC)", "A">>, 0, 3, 7)
    BY <1>8, <2>1 DEF ExecuteBase, Low6
  <2>4. Takes(0, 3, 7)
    BY DEF Takes, Timed
  <2>5. OperandBytes("LD") = 0 /\ Plain("(BC)") /\ OperandBytes("(BC)") = 0 /\ Plain("A") /\ OperandBytes("A") = 0
    BY DEF Plain, Indexed, OperandBytes
  <2> QED BY <2>2, <2>3, <2>4, <2>5, TwoRow
<1>9. CASE Z(op) = 2 /\ Y(op) = 1
  <2>1. op = 10 /\ X(op) = 0 /\ Y(op) = 1 /\ Z(op) = 2 /\ P(op) = 0 /\ Q(op) = 1
    BY <1>9, <1>0
  <2>2. BaseWords(op, i) = <<"LD", "A", "(BC)">>
    BY <2>1, SMT DEF BaseWords, Column
  <2>3. ExecuteBase(op, i, taken) = Ins("LD", <<"A", "(BC)">>, 0, 3, 7)
    BY <1>9, <2>1 DEF ExecuteBase, Low6
  <2>4. Takes(0, 3, 7)
    BY DEF Takes, Timed
  <2>5. OperandBytes("LD") = 0 /\ Plain("A") /\ OperandBytes("A") = 0 /\ Plain("(BC)") /\ OperandBytes("(BC)") = 0
    BY DEF Plain, Indexed, OperandBytes
  <2> QED BY <2>2, <2>3, <2>4, <2>5, TwoRow
<1>10. CASE Z(op) = 2 /\ Y(op) = 2
  <2>1. op = 18 /\ X(op) = 0 /\ Y(op) = 2 /\ Z(op) = 2 /\ P(op) = 1 /\ Q(op) = 0
    BY <1>10, <1>0
  <2>2. BaseWords(op, i) = <<"LD", "(DE)", "A">>
    BY <2>1, SMT DEF BaseWords, Column
  <2>3. ExecuteBase(op, i, taken) = Ins("LD", <<"(DE)", "A">>, 0, 3, 7)
    BY <1>10, <2>1 DEF ExecuteBase, Low6
  <2>4. Takes(0, 3, 7)
    BY DEF Takes, Timed
  <2>5. OperandBytes("LD") = 0 /\ Plain("(DE)") /\ OperandBytes("(DE)") = 0 /\ Plain("A") /\ OperandBytes("A") = 0
    BY DEF Plain, Indexed, OperandBytes
  <2> QED BY <2>2, <2>3, <2>4, <2>5, TwoRow
<1>11. CASE Z(op) = 2 /\ Y(op) = 3
  <2>1. op = 26 /\ X(op) = 0 /\ Y(op) = 3 /\ Z(op) = 2 /\ P(op) = 1 /\ Q(op) = 1
    BY <1>11, <1>0
  <2>2. BaseWords(op, i) = <<"LD", "A", "(DE)">>
    BY <2>1, SMT DEF BaseWords, Column
  <2>3. ExecuteBase(op, i, taken) = Ins("LD", <<"A", "(DE)">>, 0, 3, 7)
    BY <1>11, <2>1 DEF ExecuteBase, Low6
  <2>4. Takes(0, 3, 7)
    BY DEF Takes, Timed
  <2>5. OperandBytes("LD") = 0 /\ Plain("A") /\ OperandBytes("A") = 0 /\ Plain("(DE)") /\ OperandBytes("(DE)") = 0
    BY DEF Plain, Indexed, OperandBytes
  <2> QED BY <2>2, <2>3, <2>4, <2>5, TwoRow
<1>12. CASE Z(op) = 2 /\ Y(op) = 4
  <2>1. op = 34 /\ X(op) = 0 /\ Y(op) = 4 /\ Z(op) = 2 /\ P(op) = 2 /\ Q(op) = 0
    BY <1>12, <1>0
  <2>2. BaseWords(op, i) = <<"LD", "(nn)", i>>
    BY <2>1, SMT DEF BaseWords, Column
  <2>3. ExecuteBase(op, i, taken) = Ins("LD", <<"(nn)", i>>, 2, 6, IF i # "HL" THEN 20 ELSE 16)
    BY <1>12, <2>1 DEF ExecuteBase, Low6
  <2>4. Takes(2, 6, IF i # "HL" THEN 20 ELSE 16)
    BY DEF Takes, Timed
  <2>5. OperandBytes("LD") = 0 /\ Plain("(nn)") /\ OperandBytes("(nn)") = 2
    BY DEF Plain, Indexed, OperandBytes
  <2>6. Bare(i)
    BY <2>1, <1>0, BareNames, BareSize
  <2>7. Plain(i) /\ OperandBytes(i) = 0
    BY <2>6, BareSize
  <2> QED BY <2>2, <2>3, <2>4, <2>5, <2>7, TwoRow
<1>13. CASE Z(op) = 2 /\ Y(op) = 5
  <2>1. op = 42 /\ X(op) = 0 /\ Y(op) = 5 /\ Z(op) = 2 /\ P(op) = 2 /\ Q(op) = 1
    BY <1>13, <1>0
  <2>2. BaseWords(op, i) = <<"LD", i, "(nn)">>
    BY <2>1, SMT DEF BaseWords, Column
  <2>3. ExecuteBase(op, i, taken) = Ins("LD", <<i, "(nn)">>, 2, 6, IF i # "HL" THEN 20 ELSE 16)
    BY <1>13, <2>1 DEF ExecuteBase, Low6
  <2>4. Takes(2, 6, IF i # "HL" THEN 20 ELSE 16)
    BY DEF Takes, Timed
  <2>5. OperandBytes("LD") = 0 /\ Plain("(nn)") /\ OperandBytes("(nn)") = 2
    BY DEF Plain, Indexed, OperandBytes
  <2>6. Bare(i)
    BY <2>1, <1>0, BareNames, BareSize
  <2>7. Plain(i) /\ OperandBytes(i) = 0
    BY <2>6, BareSize
  <2> QED BY <2>2, <2>3, <2>4, <2>5, <2>7, TwoRow
<1>14. CASE Z(op) = 2 /\ Y(op) = 6
  <2>1. op = 50 /\ X(op) = 0 /\ Y(op) = 6 /\ Z(op) = 2 /\ P(op) = 3 /\ Q(op) = 0
    BY <1>14, <1>0
  <2>2. BaseWords(op, i) = <<"LD", "(nn)", "A">>
    BY <2>1, SMT DEF BaseWords, Column
  <2>3. ExecuteBase(op, i, taken) = Ins("LD", <<"(nn)", "A">>, 2, 3, 13)
    BY <1>14, <2>1 DEF ExecuteBase, Low6
  <2>4. Takes(2, 3, 13)
    BY DEF Takes, Timed
  <2>5. OperandBytes("LD") = 0 /\ Plain("(nn)") /\ OperandBytes("(nn)") = 2 /\ Plain("A") /\ OperandBytes("A") = 0
    BY DEF Plain, Indexed, OperandBytes
  <2> QED BY <2>2, <2>3, <2>4, <2>5, TwoRow
<1>15. CASE Z(op) = 2 /\ Y(op) = 7
  <2>1. op = 58 /\ X(op) = 0 /\ Y(op) = 7 /\ Z(op) = 2 /\ P(op) = 3 /\ Q(op) = 1
    BY <1>15, <1>0
  <2>2. BaseWords(op, i) = <<"LD", "A", "(nn)">>
    BY <2>1, SMT DEF BaseWords, Column
  <2>3. ExecuteBase(op, i, taken) = Ins("LD", <<"A", "(nn)">>, 2, 3, 13)
    BY <1>15, <2>1 DEF ExecuteBase, Low6
  <2>4. Takes(2, 3, 13)
    BY DEF Takes, Timed
  <2>5. OperandBytes("LD") = 0 /\ Plain("A") /\ OperandBytes("A") = 0 /\ Plain("(nn)") /\ OperandBytes("(nn)") = 2
    BY DEF Plain, Indexed, OperandBytes
  <2> QED BY <2>2, <2>3, <2>4, <2>5, TwoRow
<1>16. CASE Z(op) = 3 /\ Q(op) = 0
  <2>1. P(op) \in 0 .. 3 /\ op \in {3, 19, 35, 51}
    BY <1>16, <1>0
  <2>2. BaseWords(op, i) = <<"INC", Pair(P(op), i, "SP")>>
    <3>1. CASE op = 3
      BY <3>1, SMT DEF BaseWords, Column
    <3>2. CASE op = 19
      BY <3>2, SMT DEF BaseWords, Column
    <3>3. CASE op = 35
      BY <3>3, SMT DEF BaseWords, Column
    <3>4. CASE op = 51
      BY <3>4, SMT DEF BaseWords, Column
    <3> QED BY <2>1, <3>1, <3>2, <3>3, <3>4
  <2>3. ExecuteBase(op, i, taken) = Ins("INC", <<Pair(P(op), i, "SP")>>, 0, 0, IF i # "HL" /\ P(op) = 2 THEN 10 ELSE 6)
    BY <1>16, <2>1 DEF ExecuteBase, Low6
  <2>4. Takes(0, 0, IF i # "HL" /\ P(op) = 2 THEN 10 ELSE 6)
    BY DEF Takes, Timed
  <2>5. OperandBytes("INC") = 0
    BY DEF Plain, Indexed, OperandBytes
  <2>6. Bare(Pair(P(op), i, "SP"))
    BY <2>1, <1>0, BareNames, BareSize
  <2>7. Plain(Pair(P(op), i, "SP")) /\ OperandBytes(Pair(P(op), i, "SP")) = 0
    BY <2>6, BareSize
  <2> QED BY <2>2, <2>3, <2>4, <2>5, <2>7, OneRow
<1>17. CASE Z(op) = 3 /\ Q(op) = 1
  <2>1. P(op) \in 0 .. 3 /\ op \in {11, 27, 43, 59}
    BY <1>17, <1>0
  <2>2. BaseWords(op, i) = <<"DEC", Pair(P(op), i, "SP")>>
    <3>1. CASE op = 11
      BY <3>1, SMT DEF BaseWords, Column
    <3>2. CASE op = 27
      BY <3>2, SMT DEF BaseWords, Column
    <3>3. CASE op = 43
      BY <3>3, SMT DEF BaseWords, Column
    <3>4. CASE op = 59
      BY <3>4, SMT DEF BaseWords, Column
    <3> QED BY <2>1, <3>1, <3>2, <3>3, <3>4
  <2>3. ExecuteBase(op, i, taken) = Ins("DEC", <<Pair(P(op), i, "SP")>>, 0, 0, IF i # "HL" /\ P(op) = 2 THEN 10 ELSE 6)
    BY <1>17, <2>1 DEF ExecuteBase, Low6
  <2>4. Takes(0, 0, IF i # "HL" /\ P(op) = 2 THEN 10 ELSE 6)
    BY DEF Takes, Timed
  <2>5. OperandBytes("DEC") = 0
    BY DEF Plain, Indexed, OperandBytes
  <2>6. Bare(Pair(P(op), i, "SP"))
    BY <2>1, <1>0, BareNames, BareSize
  <2>7. Plain(Pair(P(op), i, "SP")) /\ OperandBytes(Pair(P(op), i, "SP")) = 0
    BY <2>6, BareSize
  <2> QED BY <2>2, <2>3, <2>4, <2>5, <2>7, OneRow
<1>18. CASE Z(op) = 7 /\ Y(op) = 0
  <2>1. op = 7 /\ X(op) = 0 /\ Y(op) = 0 /\ Z(op) = 7 /\ P(op) = 0 /\ Q(op) = 0
    BY <1>18, <1>0
  <2>2. BaseWords(op, i) = <<"RLCA">>
    BY <2>1, SMT DEF BaseWords, Column
  <2>3. ExecuteBase(op, i, taken) = Ins("RLCA", <<>>, 0, 0, 4)
    BY <1>18, <2>1 DEF ExecuteBase, Low6
  <2>4. Takes(0, 0, 4)
    BY DEF Takes, Timed
  <2>5. OperandBytes("RLCA") = 0
    BY DEF Plain, Indexed, OperandBytes
  <2> QED BY <2>2, <2>3, <2>4, <2>5, NoneRow
<1>19. CASE Z(op) = 7 /\ Y(op) = 1
  <2>1. op = 15 /\ X(op) = 0 /\ Y(op) = 1 /\ Z(op) = 7 /\ P(op) = 0 /\ Q(op) = 1
    BY <1>19, <1>0
  <2>2. BaseWords(op, i) = <<"RRCA">>
    BY <2>1, SMT DEF BaseWords, Column
  <2>3. ExecuteBase(op, i, taken) = Ins("RRCA", <<>>, 0, 0, 4)
    BY <1>19, <2>1 DEF ExecuteBase, Low6
  <2>4. Takes(0, 0, 4)
    BY DEF Takes, Timed
  <2>5. OperandBytes("RRCA") = 0
    BY DEF Plain, Indexed, OperandBytes
  <2> QED BY <2>2, <2>3, <2>4, <2>5, NoneRow
<1>20. CASE Z(op) = 7 /\ Y(op) = 2
  <2>1. op = 23 /\ X(op) = 0 /\ Y(op) = 2 /\ Z(op) = 7 /\ P(op) = 1 /\ Q(op) = 0
    BY <1>20, <1>0
  <2>2. BaseWords(op, i) = <<"RLA">>
    BY <2>1, SMT DEF BaseWords, Column
  <2>3. ExecuteBase(op, i, taken) = Ins("RLA", <<>>, 0, 0, 4)
    BY <1>20, <2>1 DEF ExecuteBase, Low6
  <2>4. Takes(0, 0, 4)
    BY DEF Takes, Timed
  <2>5. OperandBytes("RLA") = 0
    BY DEF Plain, Indexed, OperandBytes
  <2> QED BY <2>2, <2>3, <2>4, <2>5, NoneRow
<1>21. CASE Z(op) = 7 /\ Y(op) = 3
  <2>1. op = 31 /\ X(op) = 0 /\ Y(op) = 3 /\ Z(op) = 7 /\ P(op) = 1 /\ Q(op) = 1
    BY <1>21, <1>0
  <2>2. BaseWords(op, i) = <<"RRA">>
    BY <2>1, SMT DEF BaseWords, Column
  <2>3. ExecuteBase(op, i, taken) = Ins("RRA", <<>>, 0, 0, 4)
    BY <1>21, <2>1 DEF ExecuteBase, Low6
  <2>4. Takes(0, 0, 4)
    BY DEF Takes, Timed
  <2>5. OperandBytes("RRA") = 0
    BY DEF Plain, Indexed, OperandBytes
  <2> QED BY <2>2, <2>3, <2>4, <2>5, NoneRow
<1>22. CASE Z(op) = 7 /\ Y(op) = 4
  <2>1. op = 39 /\ X(op) = 0 /\ Y(op) = 4 /\ Z(op) = 7 /\ P(op) = 2 /\ Q(op) = 0
    BY <1>22, <1>0
  <2>2. BaseWords(op, i) = <<"DAA">>
    BY <2>1, SMT DEF BaseWords, Column
  <2>3. ExecuteBase(op, i, taken) = Ins("DAA", <<>>, 0, 0, 4)
    BY <1>22, <2>1 DEF ExecuteBase, Low6
  <2>4. Takes(0, 0, 4)
    BY DEF Takes, Timed
  <2>5. OperandBytes("DAA") = 0
    BY DEF Plain, Indexed, OperandBytes
  <2> QED BY <2>2, <2>3, <2>4, <2>5, NoneRow
<1>23. CASE Z(op) = 7 /\ Y(op) = 5
  <2>1. op = 47 /\ X(op) = 0 /\ Y(op) = 5 /\ Z(op) = 7 /\ P(op) = 2 /\ Q(op) = 1
    BY <1>23, <1>0
  <2>2. BaseWords(op, i) = <<"CPL">>
    BY <2>1, SMT DEF BaseWords, Column
  <2>3. ExecuteBase(op, i, taken) = Ins("CPL", <<>>, 0, 0, 4)
    BY <1>23, <2>1 DEF ExecuteBase, Low6
  <2>4. Takes(0, 0, 4)
    BY DEF Takes, Timed
  <2>5. OperandBytes("CPL") = 0
    BY DEF Plain, Indexed, OperandBytes
  <2> QED BY <2>2, <2>3, <2>4, <2>5, NoneRow
<1>24. CASE Z(op) = 7 /\ Y(op) = 6
  <2>1. op = 55 /\ X(op) = 0 /\ Y(op) = 6 /\ Z(op) = 7 /\ P(op) = 3 /\ Q(op) = 0
    BY <1>24, <1>0
  <2>2. BaseWords(op, i) = <<"SCF">>
    BY <2>1, SMT DEF BaseWords, Column
  <2>3. ExecuteBase(op, i, taken) = Ins("SCF", <<>>, 0, 0, 4)
    BY <1>24, <2>1 DEF ExecuteBase, Low6
  <2>4. Takes(0, 0, 4)
    BY DEF Takes, Timed
  <2>5. OperandBytes("SCF") = 0
    BY DEF Plain, Indexed, OperandBytes
  <2> QED BY <2>2, <2>3, <2>4, <2>5, NoneRow
<1>25. CASE Z(op) = 7 /\ Y(op) = 7
  <2>1. op = 63 /\ X(op) = 0 /\ Y(op) = 7 /\ Z(op) = 7 /\ P(op) = 3 /\ Q(op) = 1
    BY <1>25, <1>0
  <2>2. BaseWords(op, i) = <<"CCF">>
    BY <2>1, SMT DEF BaseWords, Column
  <2>3. ExecuteBase(op, i, taken) = Ins("CCF", <<>>, 0, 0, 4)
    BY <1>25, <2>1 DEF ExecuteBase, Low6
  <2>4. Takes(0, 0, 4)
    BY DEF Takes, Timed
  <2>5. OperandBytes("CCF") = 0
    BY DEF Plain, Indexed, OperandBytes
  <2> QED BY <2>2, <2>3, <2>4, <2>5, NoneRow
<1> QED
  <2>1. CASE Z(op) = 0
    BY <1>1, <1>2, <1>3, <1>4, <1>5, <2>1, <1>0
  <2>2. CASE Z(op) = 1
    BY <1>6, <1>7, <2>2, <1>0
  <2>3. CASE Z(op) = 2
    BY <1>8, <1>9, <1>10, <1>11, <1>12, <1>13, <1>14, <1>15, <2>3, <1>0
  <2>4. CASE Z(op) = 3
    BY <1>16, <1>17, <2>4, <1>0
  <2>5. CASE Z(op) = 7
    BY <1>18, <1>19, <1>20, <1>21, <1>22, <1>23, <1>24, <1>25, <2>5, <1>0
  <2> QED BY <2>1, <2>2, <2>3, <2>4, <2>5, <1>0

(***************************************************************************)
(* How the disassembler writes a register out.                             *)
(***************************************************************************)
Operand(r, i) == IF r = 6 THEN Memory[i] ELSE IndexRegName(r, i)

(***************************************************************************)
(* It writes what the executor works on.                                   *)
(***************************************************************************)
LEMMA Operands ==
  ASSUME NEW r \in 0 .. 7, NEW i \in Indexes
  PROVE /\ Operand(r, i) = IndexReg(r, i)
        /\ r # 6 => Plain(IndexReg(r, i))
        /\ i = "HL" \/ r \notin {4, 5, 6} => IndexReg(r, i) = BaseReg(r)
<1>1. CASE i = "HL"
  <2>1. IndexReg(r, i) = BaseReg(r) /\ IndexReg(6, i) = Memory[i] /\ IndexRegName(r, i) = BaseReg(r)
    BY <1>1, IndexRegs DEF IndexRegName
  <2>2. Plain(BaseReg(r))
    BY BareNames, BareSize
  <2> QED BY <2>1, <2>2 DEF Operand
<1>2. CASE i # "HL"
  <2>1. CASE r \notin {4, 5, 6}
    <3>1. IndexReg(r, i) = BaseReg(r) /\ IndexRegName(r, i) = BaseReg(r) /\ Plain(BaseReg(r))
      BY <2>1, BareNames, BareSize DEF IndexReg, IndexRegName
    <3> QED BY <2>1, <3>1 DEF Operand
  <2>2. CASE r = 6
    BY <2>2, <1>2, IndexRegs DEF Operand
  <2>3. CASE r \in {4, 5}
    <3>1. IndexReg(r, i) = (IF r = 4 THEN High[i] ELSE Low[i]) /\ IndexRegName(r, i) = (IF r = 4 THEN High[i] ELSE Low[i])
      BY <1>2, <2>3 DEF IndexReg, IndexRegName
    <3>2. Plain(High[i]) /\ Plain(Low[i])
      BY DEF Plain, Indexed, High, Low, Indexes
    <3> QED BY <1>2, <2>3, <3>1, <3>2 DEF Operand
  <2> QED BY <2>1, <2>2, <2>3
<1> QED BY <1>1, <1>2

(***************************************************************************)
(* The opcodes without a row: the disassembler takes their fields apart as *)
(* well.                                                                   *)
(***************************************************************************)
LEMMA NoWords ==
  ASSUME NEW op \in 0 .. 255, NEW i,
         \/ X(op) = 0 /\ Z(op) \in {4, 5, 6}
         \/ X(op) = 1 /\ op # 118
         \/ X(op) = 2
  PROVE BaseWords(op, i) = <<>>
<1>0. /\ X(op) \in 0 .. 3 /\ Y(op) \in 0 .. 7 /\ Z(op) \in 0 .. 7 /\ op = 64 * X(op) + 8 * Y(op) + Z(op)
      /\ P(op) \in 0 .. 3 /\ Q(op) \in 0 .. 1 /\ Y(op) = 2 * P(op) + Q(op)
  <2>1. Decoded(op)
    BY Fields
  <2> QED BY <2>1 DEF Decoded
<1>1. CASE X(op) = 0 /\ Z(op) \in {4, 5, 6}
  <2>1. Y(op) \in 0 .. 7 /\ op = 8 * Y(op) + Z(op)
    BY <1>1, <1>0
  <2>2. CASE Z(op) = 4
    <3>1. Y(op) \in 0 .. 7 /\ op = 4 + 8 * Y(op)
      BY <2>1, <2>2
    <3> QED BY <3>1, SMT DEF BaseWords, Column
  <2>3. CASE Z(op) = 5
    <3>1. Y(op) \in 0 .. 7 /\ op = 5 + 8 * Y(op)
      BY <2>1, <2>3
    <3> QED BY <3>1, SMT DEF BaseWords, Column
  <2>4. CASE Z(op) = 6
    <3>1. Y(op) \in 0 .. 7 /\ op = 6 + 8 * Y(op)
      BY <2>1, <2>4
    <3> QED BY <3>1, SMT DEF BaseWords, Column
  <2> QED BY <1>1, <2>2, <2>3, <2>4
<1>2. CASE X(op) \in {1, 2} /\ op # 118
  <2>1. op \in 64 .. 191 /\ op # 118
    BY <1>2, <1>0
  <2> QED BY <2>1, SMT DEF BaseWords, Column
<1>3. X(op) = 2 => op # 118
  BY <1>0
<1> QED BY <1>1, <1>2, <1>3

(***************************************************************************)
(* The clock of an instruction that has indexed memory or not.             *)
(***************************************************************************)
Covers(i, n, bus, clock, memory) ==
  /\ n \in Nat /\ bus \in Nat /\ clock \in Nat
  /\ i = "HL" => clock >= 4 + 3 * n + bus
  /\ i # "HL" /\ memory => clock >= 8 + 3 * n + bus

(***************************************************************************)
(* Such a clock covers the bus, whatever the instruction is.               *)
(***************************************************************************)
LEMMA OneOperand ==
  ASSUME NEW o, NEW a, NEW i, NEW n, NEW bus, NEW clock, NEW memory,
         Covers(i, n, bus, clock, memory), ~memory => Plain(a)
  PROVE Timely(Ins(o, <<a>>, n, bus, clock), 1, i)
<1>1. \A k \in DOMAIN <<a>> : <<a>>[k] = a
  OBVIOUS
<1> QED BY <1>1 DEF Covers, Timely, Ins, Plain

(***************************************************************************)
(* The same with two operands.                                             *)
(***************************************************************************)
LEMMA TwoOperands ==
  ASSUME NEW o, NEW a, NEW b, NEW i, NEW n, NEW bus, NEW clock, NEW memory,
         Covers(i, n, bus, clock, memory), ~memory => Plain(a) /\ Plain(b)
  PROVE Timely(Ins(o, <<a, b>>, n, bus, clock), 1, i)
<1>1. \A k \in DOMAIN <<a, b>> : <<a, b>>[k] \in {a, b}
  OBVIOUS
<1> QED BY <1>1 DEF Covers, Timely, Ins, Plain

(***************************************************************************)
(* INC and DEC of a register or memory.                                    *)
(***************************************************************************)
LEMMA StepFits ==
  ASSUME NEW op \in 0 .. 255, X(op) = 0, Z(op) \in {4, 5}, NEW i \in Indexes, NEW taken \in BOOLEAN
  PROVE BaseFits(op, i, taken)
<1> DEFINE memory == Y(op) = 6
           name == <<"INC", "DEC">>[Z(op) - 3]
           a == IndexReg(Y(op), i)
           more == IF memory /\ i # "HL" THEN 1 ELSE 0
           bus == IF memory THEN 6 ELSE 0
           clock == IF Y(op) = 6 THEN (IF i # "HL" THEN 23 ELSE 11)
                    ELSE IF i # "HL" /\ Y(op) \in {4, 5} THEN 8 ELSE 4
<1>0. /\ X(op) \in 0 .. 3 /\ Y(op) \in 0 .. 7 /\ Z(op) \in 0 .. 7 /\ op = 64 * X(op) + 8 * Y(op) + Z(op)
      /\ P(op) \in 0 .. 3 /\ Q(op) \in 0 .. 1 /\ Y(op) = 2 * P(op) + Q(op)
  <2>1. Decoded(op)
    BY Fields
  <2> QED BY <2>1 DEF Decoded
<1>1. ExecuteBase(op, i, taken) = Ins(name, <<a>>, more, bus, clock)
  BY DEF ExecuteBase, Low6
<1>2. DisassembleBase(op, i) = Text(name, <<a>>, 1 + more)
  <2>1. BaseWords(op, i) = <<>> /\ Operand(Y(op), i) = a
    BY NoWords, Operands, <1>0
  <2> QED BY <2>1 DEF DisassembleBase, Operand
<1>3. Covers(i, more, bus, clock, memory)
  BY DEF Covers
<1>4. ~memory => Plain(a)
  BY Operands, <1>0
<1> HIDE DEF memory, name, a, more, bus, clock
<1>5. Timely(ExecuteBase(op, i, taken), 1, i)
  BY <1>1, <1>3, <1>4, OneOperand
<1>6. Names(ExecuteBase(op, i, taken), DisassembleBase(op, i), 1)
  BY <1>1, <1>2, <1>3 DEF Names, Ins, Text, Covers
<1> QED BY <1>5, <1>6 DEF BaseFits, Agrees

(***************************************************************************)
(* LD of a number into a register or memory.                               *)
(***************************************************************************)
LEMMA StoreFits ==
  ASSUME NEW op \in 0 .. 255, X(op) = 0, Z(op) = 6, NEW i \in Indexes, NEW taken \in BOOLEAN
  PROVE BaseFits(op, i, taken)
<1> DEFINE memory == Y(op) = 6
           a == IndexReg(Y(op), i)
           more == IF memory /\ i # "HL" THEN 2 ELSE 1
           bus == IF memory THEN 3 ELSE 0
           clock == IF Y(op) = 6 THEN (IF i # "HL" THEN 19 ELSE 10)
                    ELSE IF i # "HL" /\ Y(op) \in {4, 5} THEN 11 ELSE 7
<1>0. /\ X(op) \in 0 .. 3 /\ Y(op) \in 0 .. 7 /\ Z(op) \in 0 .. 7 /\ op = 64 * X(op) + 8 * Y(op) + Z(op)
      /\ P(op) \in 0 .. 3 /\ Q(op) \in 0 .. 1 /\ Y(op) = 2 * P(op) + Q(op)
  <2>1. Decoded(op)
    BY Fields
  <2> QED BY <2>1 DEF Decoded
<1>1. ExecuteBase(op, i, taken) = Ins("LD", <<a, "n">>, more, bus, clock)
  BY DEF ExecuteBase, Low6
<1>2. DisassembleBase(op, i) = Text("LD", <<a, "n">>, 1 + more)
  <2>1. BaseWords(op, i) = <<>> /\ Operand(Y(op), i) = a
    BY NoWords, Operands, <1>0
  <2> QED BY <2>1 DEF DisassembleBase, Operand
<1>3. Covers(i, more, bus, clock, memory)
  BY DEF Covers
<1>4. ~memory => Plain(a) /\ Plain("n")
  BY Operands, <1>0 DEF Plain, Indexed
<1> HIDE DEF memory, a, more, bus, clock
<1>5. Timely(ExecuteBase(op, i, taken), 1, i)
  BY <1>1, <1>3, <1>4, TwoOperands
<1>6. Names(ExecuteBase(op, i, taken), DisassembleBase(op, i), 1)
  BY <1>1, <1>2, <1>3 DEF Names, Ins, Text, Covers
<1> QED BY <1>5, <1>6 DEF BaseFits, Agrees

(***************************************************************************)
(* LD from indexed memory to H or L, of which the executor makes a half of *)
(* the index.                                                              *)
(***************************************************************************)
HalfOfIndex(op, i) == i # "HL" /\ X(op) = 1 /\ Y(op) \in {4, 5} /\ Z(op) = 6

(***************************************************************************)
(* From 40 to 7F: LD, and in the middle of it HALT.                        *)
(***************************************************************************)
LEMMA LoadFits ==
  ASSUME NEW op \in 0 .. 255, X(op) = 1, op # 118, NEW i \in Indexes, NEW taken \in BOOLEAN
  PROVE /\ Timely(ExecuteBase(op, i, taken), 1, i)
        /\ ~HalfOfIndex(op, i) => Names(ExecuteBase(op, i, taken), DisassembleBase(op, i), 1)
<1> DEFINE memory == Z(op) = 6 \/ Y(op) = 6
           to == IndexReg(Y(op), i)
           from == IndexReg(Z(op), i)
           named == IF memory THEN (IF Y(op) = 6 THEN Memory[i] ELSE BaseReg(Y(op))) ELSE to
           more == IF memory /\ i # "HL" THEN 1 ELSE 0
           bus == IF memory THEN 3 ELSE 0
           clock == IF memory /\ i # "HL" THEN 19 ELSE IF memory THEN 7 ELSE 4
<1>0. /\ X(op) \in 0 .. 3 /\ Y(op) \in 0 .. 7 /\ Z(op) \in 0 .. 7 /\ op = 64 * X(op) + 8 * Y(op) + Z(op)
      /\ P(op) \in 0 .. 3 /\ Q(op) \in 0 .. 1 /\ Y(op) = 2 * P(op) + Q(op)
  <2>1. Decoded(op)
    BY Fields
  <2> QED BY <2>1 DEF Decoded
<1>1. ExecuteBase(op, i, taken) = Ins("LD", <<to, from>>, more, bus, clock)
  BY DEF ExecuteBase, Middle
<1>2. DisassembleBase(op, i) = Text("LD", <<named, from>>, 1 + more)
  <2>1. BaseWords(op, i) = <<>> /\ Operand(Y(op), i) = to /\ Operand(Z(op), i) = from
    BY NoWords, Operands, <1>0
  <2> QED BY <2>1 DEF DisassembleBase, Operand
<1>3. Covers(i, more, bus, clock, memory)
  BY DEF Covers
<1>4. ~memory => Plain(to) /\ Plain(from)
  BY Operands, <1>0
<1>5. ~HalfOfIndex(op, i) => named = to
  <2>1. ~(Y(op) = 6 /\ Z(op) = 6)
    BY <1>0
  <2>2. Y(op) = 6 => to = Memory[i]
    BY IndexRegs
  <2>3. i = "HL" \/ Y(op) \notin {4, 5, 6} => to = BaseReg(Y(op))
    BY Operands, <1>0
  <2> QED BY <2>1, <2>2, <2>3 DEF HalfOfIndex
<1> HIDE DEF memory, to, from, named, more, bus, clock
<1>6. Timely(ExecuteBase(op, i, taken), 1, i)
  BY <1>1, <1>3, <1>4, TwoOperands
<1>7. named = to => Names(ExecuteBase(op, i, taken), DisassembleBase(op, i), 1)
  BY <1>1, <1>2, <1>3 DEF Names, Ins, Text, Covers
<1> QED BY <1>5, <1>6, <1>7

(***************************************************************************)
(* From 80 to BF: the operations on A.                                     *)
(***************************************************************************)
LEMMA OperationFits ==
  ASSUME NEW op \in 0 .. 255, X(op) = 2, NEW i \in Indexes, NEW taken \in BOOLEAN
  PROVE BaseFits(op, i, taken)
<1> DEFINE memory == Z(op) = 6
           name == Operations[Y(op) + 1]
           a == IndexReg(Z(op), i)
           more == IF memory /\ i # "HL" THEN 1 ELSE 0
           bus == IF memory THEN 3 ELSE 0
           clock == IF memory /\ i # "HL" THEN 19 ELSE IF memory THEN 7 ELSE 4
<1>0. /\ X(op) \in 0 .. 3 /\ Y(op) \in 0 .. 7 /\ Z(op) \in 0 .. 7 /\ op = 64 * X(op) + 8 * Y(op) + Z(op)
      /\ P(op) \in 0 .. 3 /\ Q(op) \in 0 .. 1 /\ Y(op) = 2 * P(op) + Q(op)
  <2>1. Decoded(op)
    BY Fields
  <2> QED BY <2>1 DEF Decoded
<1>7. op # 118
  BY <1>0
<1>1. ExecuteBase(op, i, taken) = Ins(name, <<a>>, more, bus, clock)
  BY <1>7 DEF ExecuteBase, Middle
<1>2. DisassembleBase(op, i) = Text(name, <<a>>, 1 + more)
  <2>1. BaseWords(op, i) = <<>> /\ Operand(Z(op), i) = a
    BY NoWords, Operands, <1>0
  <2> QED BY <2>1 DEF DisassembleBase, Operand
<1>3. Covers(i, more, bus, clock, memory)
  BY DEF Covers
<1>4. ~memory => Plain(a)
  BY Operands, <1>0
<1> HIDE DEF memory, name, a, more, bus, clock
<1>5. Timely(ExecuteBase(op, i, taken), 1, i)
  BY <1>1, <1>3, <1>4, OneOperand
<1>6. Names(ExecuteBase(op, i, taken), DisassembleBase(op, i), 1)
  BY <1>1, <1>2, <1>3 DEF Names, Ins, Text, Covers
<1> QED BY <1>5, <1>6 DEF BaseFits, Agrees

(***************************************************************************)
(* HALT takes the place of LD (HL),(HL).                                   *)
(***************************************************************************)
LEMMA HaltFits == ASSUME NEW i \in Indexes, NEW taken \in BOOLEAN PROVE BaseFits(118, i, taken)
<1>1. BaseWords(118, i) = <<"HALT">>
  BY SMT DEF BaseWords, Column
<1>2. X(118) = 1
  BY SMT DEF X
<1>3. ExecuteBase(118, i, taken) = Ins("HALT", <<>>, 0, 0, 4)
  BY <1>2 DEF ExecuteBase, Middle
<1>4. Takes(0, 0, 4) /\ OperandBytes("HALT") = 0
  BY DEF Takes, Timed, OperandBytes
<1> QED BY <1>1, <1>3, <1>4, NoneRow

(***************************************************************************)
(* From C0 to FF: every row of the table is what the executor does.        *)
(***************************************************************************)
LEMMA TopFits ==
  ASSUME NEW op \in 0 .. 255, X(op) = 3, op \notin {203, 221, 237, 253}, NEW i \in Indexes, NEW taken \in BOOLEAN
  PROVE BaseFits(op, i, taken)
<1>0. /\ X(op) \in 0 .. 3 /\ Y(op) \in 0 .. 7 /\ Z(op) \in 0 .. 7 /\ op = 64 * X(op) + 8 * Y(op) + Z(op)
      /\ P(op) \in 0 .. 3 /\ Q(op) \in 0 .. 1 /\ Y(op) = 2 * P(op) + Q(op)
  <2>1. Decoded(op)
    BY Fields
  <2> QED BY <2>1 DEF Decoded
<1>1. CASE Z(op) = 0
  <2>1. op \in {192, 200, 208, 216, 224, 232, 240, 248} /\ op = 192 + 8 * Y(op)
    BY <1>1, <1>0
  <2>2. BaseWords(op, i) = <<"RET", Cond(Y(op))>>
    <3>1. CASE op = 192
      BY <3>1, SMT DEF BaseWords, Column
    <3>2. CASE op = 200
      BY <3>2, SMT DEF BaseWords, Column
    <3>3. CASE op = 208
      BY <3>3, SMT DEF BaseWords, Column
    <3>4. CASE op = 216
      BY <3>4, SMT DEF BaseWords, Column
    <3>5. CASE op = 224
      BY <3>5, SMT DEF BaseWords, Column
    <3>6. CASE op = 232
      BY <3>6, SMT DEF BaseWords, Column
    <3>7. CASE op = 240
      BY <3>7, SMT DEF BaseWords, Column
    <3>8. CASE op = 248
      BY <3>8, SMT DEF BaseWords, Column
    <3> QED BY <2>1, <3>1, <3>2, <3>3, <3>4, <3>5, <3>6, <3>7, <3>8
  <2>3. ExecuteBase(op, i, taken) = Ins("RET", <<Cond(Y(op))>>, 0, IF taken THEN 6 ELSE 0, IF taken THEN 11 ELSE 5)
    <3>1. op # 195 /\ op # 201 /\ op # 205
      BY <2>1
    <3> QED BY <1>1, <3>1 DEF ExecuteBase, Top
  <2>4. Takes(0, IF taken THEN 6 ELSE 0, IF taken THEN 11 ELSE 5)
    BY DEF Takes, Timed
  <2>5. OperandBytes("RET") = 0
    BY DEF Plain, Indexed, OperandBytes
  <2>6. Bare(Cond(Y(op)))
    BY <2>1, <1>0, BareNames, BareSize
  <2>7. Plain(Cond(Y(op))) /\ OperandBytes(Cond(Y(op))) = 0
    BY <2>6, BareSize
  <2> QED BY <2>2, <2>3, <2>4, <2>5, <2>7, OneRow
<1>2. CASE Z(op) = 1 /\ Q(op) = 0
  <2>1. op \in {193, 209, 225, 241} /\ op = 193 + 16 * P(op)
    BY <1>2, <1>0
  <2>2. BaseWords(op, i) = <<"POP", Pair(P(op), i, "AF")>>
    <3>1. CASE op = 193
      BY <3>1, SMT DEF BaseWords, Column
    <3>2. CASE op = 209
      BY <3>2, SMT DEF BaseWords, Column
    <3>3. CASE op = 225
      BY <3>3, SMT DEF BaseWords, Column
    <3>4. CASE op = 241
      BY <3>4, SMT DEF BaseWords, Column
    <3> QED BY <2>1, <3>1, <3>2, <3>3, <3>4
  <2>3. ExecuteBase(op, i, taken) = Ins("POP", <<Pair(P(op), i, "AF")>>, 0, 6, IF i # "HL" /\ P(op) = 2 THEN 14 ELSE 10)
    <3>1. op # 195 /\ op # 201 /\ op # 205
      BY <2>1
    <3> QED BY <1>2, <3>1 DEF ExecuteBase, Top
  <2>4. Takes(0, 6, IF i # "HL" /\ P(op) = 2 THEN 14 ELSE 10)
    BY DEF Takes, Timed
  <2>5. OperandBytes("POP") = 0
    BY DEF Plain, Indexed, OperandBytes
  <2>6. Bare(Pair(P(op), i, "AF"))
    BY <2>1, <1>0, BareNames, BareSize
  <2>7. Plain(Pair(P(op), i, "AF")) /\ OperandBytes(Pair(P(op), i, "AF")) = 0
    BY <2>6, BareSize
  <2> QED BY <2>2, <2>3, <2>4, <2>5, <2>7, OneRow
<1>3. CASE Z(op) = 1 /\ Y(op) = 1
  <2>1. op = 201 /\ X(op) = 3 /\ Y(op) = 1 /\ Z(op) = 1 /\ P(op) = 0 /\ Q(op) = 1
    BY <1>3, <1>0
  <2>2. BaseWords(op, i) = <<"RET">>
    BY <2>1, SMT DEF BaseWords, Column
  <2>3. ExecuteBase(op, i, taken) = Ins("RET", <<>>, 0, 6, 10)
    BY <1>3, <2>1 DEF ExecuteBase, Top, Exchanges
  <2>4. Takes(0, 6, 10)
    BY DEF Takes, Timed
  <2>5. OperandBytes("RET") = 0
    BY DEF Plain, Indexed, OperandBytes
  <2> QED BY <2>2, <2>3, <2>4, <2>5, NoneRow
<1>4. CASE Z(op) = 1 /\ Y(op) = 3
  <2>1. op = 217 /\ X(op) = 3 /\ Y(op) = 3 /\ Z(op) = 1 /\ P(op) = 1 /\ Q(op) = 1
    BY <1>4, <1>0
  <2>2. BaseWords(op, i) = <<"EXX">>
    BY <2>1, SMT DEF BaseWords, Column
  <2>3. ExecuteBase(op, i, taken) = Ins("EXX", <<>>, 0, 0, 4)
    BY <1>4, <2>1 DEF ExecuteBase, Top, Exchanges
  <2>4. Takes(0, 0, 4)
    BY DEF Takes, Timed
  <2>5. OperandBytes("EXX") = 0
    BY DEF Plain, Indexed, OperandBytes
  <2> QED BY <2>2, <2>3, <2>4, <2>5, NoneRow
<1>5. CASE Z(op) = 1 /\ Y(op) = 5
  <2>1. op = 233 /\ X(op) = 3 /\ Y(op) = 5 /\ Z(op) = 1 /\ P(op) = 2 /\ Q(op) = 1
    BY <1>5, <1>0
  <2>2. BaseWords(op, i) = <<"JP", i>>
    BY <2>1, SMT DEF BaseWords, Column
  <2>3. ExecuteBase(op, i, taken) = Ins("JP", <<i>>, 0, 0, 4)
    BY <1>5, <2>1 DEF ExecuteBase, Top, Exchanges
  <2>4. Takes(0, 0, 4)
    BY DEF Takes, Timed
  <2>5. OperandBytes("JP") = 0
    BY DEF Plain, Indexed, OperandBytes
  <2>6. Bare(i)
    BY <2>1, <1>0, BareNames, BareSize
  <2>7. Plain(i) /\ OperandBytes(i) = 0
    BY <2>6, BareSize
  <2> QED BY <2>2, <2>3, <2>4, <2>5, <2>7, OneRow
<1>6. CASE Z(op) = 1 /\ Y(op) = 7
  <2>1. op = 249 /\ X(op) = 3 /\ Y(op) = 7 /\ Z(op) = 1 /\ P(op) = 3 /\ Q(op) = 1
    BY <1>6, <1>0
  <2>2. BaseWords(op, i) = <<"LD", "SP", i>>
    BY <2>1, SMT DEF BaseWords, Column
  <2>3. ExecuteBase(op, i, taken) = Ins("LD", <<"SP", i>>, 0, 0, IF i # "HL" THEN 10 ELSE 6)
    BY <1>6, <2>1 DEF ExecuteBase, Top, Exchanges
  <2>4. Takes(0, 0, IF i # "HL" THEN 10 ELSE 6)
    BY DEF Takes, Timed
  <2>5. OperandBytes("LD") = 0 /\ Plain("SP") /\ OperandBytes("SP") = 0
    BY DEF Plain, Indexed, OperandBytes
  <2>6. Bare(i)
    BY <2>1, <1>0, BareNames, BareSize
  <2>7. Plain(i) /\ OperandBytes(i) = 0
    BY <2>6, BareSize
  <2> QED BY <2>2, <2>3, <2>4, <2>5, <2>7, TwoRow
<1>7. CASE Z(op) = 2
  <2>1. op \in {194, 202, 210, 218, 226, 234, 242, 250} /\ op = 194 + 8 * Y(op)
    BY <1>7, <1>0
  <2>2. BaseWords(op, i) = <<"JP", Cond(Y(op)), "nn">>
    <3>1. CASE op = 194
      BY <3>1, SMT DEF BaseWords, Column
    <3>2. CASE op = 202
      BY <3>2, SMT DEF BaseWords, Column
    <3>3. CASE op = 210
      BY <3>3, SMT DEF BaseWords, Column
    <3>4. CASE op = 218
      BY <3>4, SMT DEF BaseWords, Column
    <3>5. CASE op = 226
      BY <3>5, SMT DEF BaseWords, Column
    <3>6. CASE op = 234
      BY <3>6, SMT DEF BaseWords, Column
    <3>7. CASE op = 242
      BY <3>7, SMT DEF BaseWords, Column
    <3>8. CASE op = 250
      BY <3>8, SMT DEF BaseWords, Column
    <3> QED BY <2>1, <3>1, <3>2, <3>3, <3>4, <3>5, <3>6, <3>7, <3>8
  <2>3. ExecuteBase(op, i, taken) = Ins("JP", <<Cond(Y(op)), "nn">>, 2, 0, 10)
    <3>1. op # 195 /\ op # 201 /\ op # 205
      BY <2>1
    <3> QED BY <1>7, <3>1 DEF ExecuteBase, Top
  <2>4. Takes(2, 0, 10)
    BY DEF Takes, Timed
  <2>5. OperandBytes("JP") = 0 /\ Plain("nn") /\ OperandBytes("nn") = 2
    BY DEF Plain, Indexed, OperandBytes
  <2>6. Bare(Cond(Y(op)))
    BY <2>1, <1>0, BareNames, BareSize
  <2>7. Plain(Cond(Y(op))) /\ OperandBytes(Cond(Y(op))) = 0
    BY <2>6, BareSize
  <2> QED BY <2>2, <2>3, <2>4, <2>5, <2>7, TwoRow
<1>8. CASE Z(op) = 3 /\ Y(op) = 0
  <2>1. op = 195 /\ X(op) = 3 /\ Y(op) = 0 /\ Z(op) = 3 /\ P(op) = 0 /\ Q(op) = 0
    BY <1>8, <1>0
  <2>2. BaseWords(op, i) = <<"JP", "nn">>
    BY <2>1, SMT DEF BaseWords, Column
  <2>3. ExecuteBase(op, i, taken) = Ins("JP", <<"nn">>, 2, 0, 10)
    BY <1>8, <2>1 DEF ExecuteBase, Top, Exchanges
  <2>4. Takes(2, 0, 10)
    BY DEF Takes, Timed
  <2>5. OperandBytes("JP") = 0 /\ Plain("nn") /\ OperandBytes("nn") = 2
    BY DEF Plain, Indexed, OperandBytes
  <2> QED BY <2>2, <2>3, <2>4, <2>5, OneRow
<1>9. CASE Z(op) = 3 /\ Y(op) = 2
  <2>1. op = 211 /\ X(op) = 3 /\ Y(op) = 2 /\ Z(op) = 3 /\ P(op) = 1 /\ Q(op) = 0
    BY <1>9, <1>0
  <2>2. BaseWords(op, i) = <<"OUT", "(n)", "A">>
    BY <2>1, SMT DEF BaseWords, Column
  <2>3. ExecuteBase(op, i, taken) = Ins("OUT", <<"(n)", "A">>, 1, 4, 11)
    BY <1>9, <2>1 DEF ExecuteBase, Top, Exchanges
  <2>4. Takes(1, 4, 11)
    BY DEF Takes, Timed
  <2>5. OperandBytes("OUT") = 0 /\ Plain("(n)") /\ OperandBytes("(n)") = 1 /\ Plain("A") /\ OperandBytes("A") = 0
    BY DEF Plain, Indexed, OperandBytes
  <2> QED BY <2>2, <2>3, <2>4, <2>5, TwoRow
<1>10. CASE Z(op) = 3 /\ Y(op) = 3
  <2>1. op = 219 /\ X(op) = 3 /\ Y(op) = 3 /\ Z(op) = 3 /\ P(op) = 1 /\ Q(op) = 1
    BY <1>10, <1>0
  <2>2. BaseWords(op, i) = <<"IN", "A", "(n)">>
    BY <2>1, SMT DEF BaseWords, Column
  <2>3. ExecuteBase(op, i, taken) = Ins("IN", <<"A", "(n)">>, 1, 4, 11)
    BY <1>10, <2>1 DEF ExecuteBase, Top, Exchanges
  <2>4. Takes(1, 4, 11)
    BY DEF Takes, Timed
  <2>5. OperandBytes("IN") = 0 /\ Plain("A") /\ OperandBytes("A") = 0 /\ Plain("(n)") /\ OperandBytes("(n)") = 1
    BY DEF Plain, Indexed, OperandBytes
  <2> QED BY <2>2, <2>3, <2>4, <2>5, TwoRow
<1>11. CASE Z(op) = 3 /\ Y(op) = 4
  <2>1. op = 227 /\ X(op) = 3 /\ Y(op) = 4 /\ Z(op) = 3 /\ P(op) = 2 /\ Q(op) = 0
    BY <1>11, <1>0
  <2>2. BaseWords(op, i) = <<"EX", "(SP)", i>>
    BY <2>1, SMT DEF BaseWords, Column
  <2>3. ExecuteBase(op, i, taken) = Ins("EX", <<"(SP)", i>>, 0, 12, IF i # "HL" THEN 23 ELSE 19)
    BY <1>11, <2>1 DEF ExecuteBase, Top, Exchanges
  <2>4. Takes(0, 12, IF i # "HL" THEN 23 ELSE 19)
    BY DEF Takes, Timed
  <2>5. OperandBytes("EX") = 0 /\ Plain("(SP)") /\ OperandBytes("(SP)") = 0
    BY DEF Plain, Indexed, OperandBytes
  <2>6. Bare(i)
    BY <2>1, <1>0, BareNames, BareSize
  <2>7. Plain(i) /\ OperandBytes(i) = 0
    BY <2>6, BareSize
  <2> QED BY <2>2, <2>3, <2>4, <2>5, <2>7, TwoRow
<1>12. CASE Z(op) = 3 /\ Y(op) = 5
  <2>1. op = 235 /\ X(op) = 3 /\ Y(op) = 5 /\ Z(op) = 3 /\ P(op) = 2 /\ Q(op) = 1
    BY <1>12, <1>0
  <2>2. BaseWords(op, i) = <<"EX", "DE", "HL">>
    BY <2>1, SMT DEF BaseWords, Column
  <2>3. ExecuteBase(op, i, taken) = Ins("EX", <<"DE", "HL">>, 0, 0, 4)
    BY <1>12, <2>1 DEF ExecuteBase, Top, Exchanges
  <2>4. Takes(0, 0, 4)
    BY DEF Takes, Timed
  <2>5. OperandBytes("EX") = 0 /\ Plain("DE") /\ OperandBytes("DE") = 0 /\ Plain("HL") /\ OperandBytes("HL") = 0
    BY DEF Plain, Indexed, OperandBytes
  <2> QED BY <2>2, <2>3, <2>4, <2>5, TwoRow
<1>13. CASE Z(op) = 3 /\ Y(op) = 6
  <2>1. op = 243 /\ X(op) = 3 /\ Y(op) = 6 /\ Z(op) = 3 /\ P(op) = 3 /\ Q(op) = 0
    BY <1>13, <1>0
  <2>2. BaseWords(op, i) = <<"DI">>
    BY <2>1, SMT DEF BaseWords, Column
  <2>3. ExecuteBase(op, i, taken) = Ins("DI", <<>>, 0, 0, 4)
    BY <1>13, <2>1 DEF ExecuteBase, Top, Exchanges
  <2>4. Takes(0, 0, 4)
    BY DEF Takes, Timed
  <2>5. OperandBytes("DI") = 0
    BY DEF Plain, Indexed, OperandBytes
  <2> QED BY <2>2, <2>3, <2>4, <2>5, NoneRow
<1>14. CASE Z(op) = 3 /\ Y(op) = 7
  <2>1. op = 251 /\ X(op) = 3 /\ Y(op) = 7 /\ Z(op) = 3 /\ P(op) = 3 /\ Q(op) = 1
    BY <1>14, <1>0
  <2>2. BaseWords(op, i) = <<"EI">>
    BY <2>1, SMT DEF BaseWords, Column
  <2>3. ExecuteBase(op, i, taken) = Ins("EI", <<>>, 0, 0, 4)
    BY <1>14, <2>1 DEF ExecuteBase, Top, Exchanges
  <2>4. Takes(0, 0, 4)
    BY DEF Takes, Timed
  <2>5. OperandBytes("EI") = 0
    BY DEF Plain, Indexed, OperandBytes
  <2> QED BY <2>2, <2>3, <2>4, <2>5, NoneRow
<1>15. CASE Z(op) = 4
  <2>1. op \in {196, 204, 212, 220, 228, 236, 244, 252} /\ op = 196 + 8 * Y(op)
    BY <1>15, <1>0
  <2>2. BaseWords(op, i) = <<"CALL", Cond(Y(op)), "nn">>
    <3>1. CASE op = 196
      BY <3>1, SMT DEF BaseWords, Column
    <3>2. CASE op = 204
      BY <3>2, SMT DEF BaseWords, Column
    <3>3. CASE op = 212
      BY <3>3, SMT DEF BaseWords, Column
    <3>4. CASE op = 220
      BY <3>4, SMT DEF BaseWords, Column
    <3>5. CASE op = 228
      BY <3>5, SMT DEF BaseWords, Column
    <3>6. CASE op = 236
      BY <3>6, SMT DEF BaseWords, Column
    <3>7. CASE op = 244
      BY <3>7, SMT DEF BaseWords, Column
    <3>8. CASE op = 252
      BY <3>8, SMT DEF BaseWords, Column
    <3> QED BY <2>1, <3>1, <3>2, <3>3, <3>4, <3>5, <3>6, <3>7, <3>8
  <2>3. ExecuteBase(op, i, taken) = Ins("CALL", <<Cond(Y(op)), "nn">>, 2, IF taken THEN 6 ELSE 0, IF taken THEN 17 ELSE 10)
    <3>1. op # 195 /\ op # 201 /\ op # 205
      BY <2>1
    <3> QED BY <1>15, <3>1 DEF ExecuteBase, Top
  <2>4. Takes(2, IF taken THEN 6 ELSE 0, IF taken THEN 17 ELSE 10)
    BY DEF Takes, Timed
  <2>5. OperandBytes("CALL") = 0 /\ Plain("nn") /\ OperandBytes("nn") = 2
    BY DEF Plain, Indexed, OperandBytes
  <2>6. Bare(Cond(Y(op)))
    BY <2>1, <1>0, BareNames, BareSize
  <2>7. Plain(Cond(Y(op))) /\ OperandBytes(Cond(Y(op))) = 0
    BY <2>6, BareSize
  <2> QED BY <2>2, <2>3, <2>4, <2>5, <2>7, TwoRow
<1>16. CASE Z(op) = 5 /\ Q(op) = 0
  <2>1. op \in {197, 213, 229, 245} /\ op = 197 + 16 * P(op)
    BY <1>16, <1>0
  <2>2. BaseWords(op, i) = <<"PUSH", Pair(P(op), i, "AF")>>
    <3>1. CASE op = 197
      BY <3>1, SMT DEF BaseWords, Column
    <3>2. CASE op = 213
      BY <3>2, SMT DEF BaseWords, Column
    <3>3. CASE op = 229
      BY <3>3, SMT DEF BaseWords, Column
    <3>4. CASE op = 245
      BY <3>4, SMT DEF BaseWords, Column
    <3> QED BY <2>1, <3>1, <3>2, <3>3, <3>4
  <2>3. ExecuteBase(op, i, taken) = Ins("PUSH", <<Pair(P(op), i, "AF")>>, 0, 6, IF i # "HL" /\ P(op) = 2 THEN 15 ELSE 11)
    <3>1. op # 195 /\ op # 201 /\ op # 205
      BY <2>1
    <3> QED BY <1>16, <3>1 DEF ExecuteBase, Top
  <2>4. Takes(0, 6, IF i # "HL" /\ P(op) = 2 THEN 15 ELSE 11)
    BY DEF Takes, Timed
  <2>5. OperandBytes("PUSH") = 0
    BY DEF Plain, Indexed, OperandBytes
  <2>6. Bare(Pair(P(op), i, "AF"))
    BY <2>1, <1>0, BareNames, BareSize
  <2>7. Plain(Pair(P(op), i, "AF")) /\ OperandBytes(Pair(P(op), i, "AF")) = 0
    BY <2>6, BareSize
  <2> QED BY <2>2, <2>3, <2>4, <2>5, <2>7, OneRow
<1>17. CASE Z(op) = 5 /\ Y(op) = 1
  <2>1. op = 205 /\ X(op) = 3 /\ Y(op) = 1 /\ Z(op) = 5 /\ P(op) = 0 /\ Q(op) = 1
    BY <1>17, <1>0
  <2>2. BaseWords(op, i) = <<"CALL", "nn">>
    BY <2>1, SMT DEF BaseWords, Column
  <2>3. ExecuteBase(op, i, taken) = Ins("CALL", <<"nn">>, 2, 6, 17)
    BY <1>17, <2>1 DEF ExecuteBase, Top, Exchanges
  <2>4. Takes(2, 6, 17)
    BY DEF Takes, Timed
  <2>5. OperandBytes("CALL") = 0 /\ Plain("nn") /\ OperandBytes("nn") = 2
    BY DEF Plain, Indexed, OperandBytes
  <2> QED BY <2>2, <2>3, <2>4, <2>5, OneRow
<1>18. CASE Z(op) = 6
  <2>1. op \in {198, 206, 214, 222, 230, 238, 246, 254} /\ op = 198 + 8 * Y(op)
    BY <1>18, <1>0
  <2>2. BaseWords(op, i) = <<Operations[Y(op) + 1], "n">>
    <3>1. CASE op = 198
      BY <3>1, SMT DEF BaseWords, Column
    <3>2. CASE op = 206
      BY <3>2, SMT DEF BaseWords, Column
    <3>3. CASE op = 214
      BY <3>3, SMT DEF BaseWords, Column
    <3>4. CASE op = 222
      BY <3>4, SMT DEF BaseWords, Column
    <3>5. CASE op = 230
      BY <3>5, SMT DEF BaseWords, Column
    <3>6. CASE op = 238
      BY <3>6, SMT DEF BaseWords, Column
    <3>7. CASE op = 246
      BY <3>7, SMT DEF BaseWords, Column
    <3>8. CASE op = 254
      BY <3>8, SMT DEF BaseWords, Column
    <3> QED BY <2>1, <3>1, <3>2, <3>3, <3>4, <3>5, <3>6, <3>7, <3>8
  <2>3. ExecuteBase(op, i, taken) = Ins(Operations[Y(op) + 1], <<"n">>, 1, 0, 7)
    <3>1. op # 195 /\ op # 201 /\ op # 205
      BY <2>1
    <3> QED BY <1>18, <3>1 DEF ExecuteBase, Top
  <2>4. Takes(1, 0, 7)
    BY DEF Takes, Timed
  <2>5. Plain("n") /\ OperandBytes("n") = 1
    BY DEF Plain, Indexed, OperandBytes
  <2>6. Bare(Operations[Y(op) + 1])
    BY <2>1, <1>0, BareNames, BareSize
  <2>7. Plain(Operations[Y(op) + 1]) /\ OperandBytes(Operations[Y(op) + 1]) = 0
    BY <2>6, BareSize
  <2> QED BY <2>2, <2>3, <2>4, <2>5, <2>7, OneRow
<1>19. CASE Z(op) = 7
  <2>1. op \in {199, 207, 215, 223, 231, 239, 247, 255} /\ op = 199 + 8 * Y(op)
    BY <1>19, <1>0
  <2>2. (op - 199) \div 8 = Y(op)
    BY <2>1, <1>0
  <2>3. BaseWords(op, i) = <<"RST", Restart(Y(op))>>
    <3>1. CASE op = 199
      BY <3>1, <2>2, SMT DEF BaseWords, Column
    <3>2. CASE op = 207
      BY <3>2, <2>2, SMT DEF BaseWords, Column
    <3>3. CASE op = 215
      BY <3>3, <2>2, SMT DEF BaseWords, Column
    <3>4. CASE op = 223
      BY <3>4, <2>2, SMT DEF BaseWords, Column
    <3>5. CASE op = 231
      BY <3>5, <2>2, SMT DEF BaseWords, Column
    <3>6. CASE op = 239
      BY <3>6, <2>2, SMT DEF BaseWords, Column
    <3>7. CASE op = 247
      BY <3>7, <2>2, SMT DEF BaseWords, Column
    <3>8. CASE op = 255
      BY <3>8, <2>2, SMT DEF BaseWords, Column
    <3> QED BY <2>1, <3>1, <3>2, <3>3, <3>4, <3>5, <3>6, <3>7, <3>8
  <2>4. ExecuteBase(op, i, taken) = Ins("RST", <<Restart(Y(op))>>, 0, 6, 11)
    <3>1. op # 195 /\ op # 201 /\ op # 205
      BY <2>1
    <3> QED BY <1>19, <3>1 DEF ExecuteBase, Top
  <2>5. Takes(0, 6, 11)
    BY DEF Takes, Timed
  <2>6. OperandBytes("RST") = 0
    BY DEF Plain, Indexed, OperandBytes
  <2>7. Bare(Restart(Y(op)))
    BY <2>1, <1>0, BareNames, BareSize
  <2>8. Plain(Restart(Y(op))) /\ OperandBytes(Restart(Y(op))) = 0
    BY <2>7, BareSize
  <2> QED BY <2>3, <2>4, <2>5, <2>6, <2>8, OneRow
<1> QED
  <2>1. CASE Z(op) = 0
    BY <1>1, <2>1, <1>0
  <2>2. CASE Z(op) = 1
    BY <1>2, <1>3, <1>4, <1>5, <1>6, <2>2, <1>0
  <2>3. CASE Z(op) = 2
    BY <1>7, <2>3, <1>0
  <2>4. CASE Z(op) = 3
    BY <1>8, <1>9, <1>10, <1>11, <1>12, <1>13, <1>14, <2>4, <1>0
  <2>5. CASE Z(op) = 4
    BY <1>15, <2>5, <1>0
  <2>6. CASE Z(op) = 5
    BY <1>16, <1>17, <2>6, <1>0
  <2>7. CASE Z(op) = 6
    BY <1>18, <2>7, <1>0
  <2>8. CASE Z(op) = 7
    BY <1>19, <2>8, <1>0
  <2> QED BY <2>1, <2>2, <2>3, <2>4, <2>5, <2>6, <2>7, <2>8, <1>0

(***************************************************************************)
(* Every opcode that is not a prefix.                                      *)
(***************************************************************************)
LEMMA BaseInstruction ==
  ASSUME NEW op \in 0 .. 255, op \notin {203, 221, 237, 253}, NEW i \in Indexes, NEW taken \in BOOLEAN
  PROVE /\ Timely(ExecuteBase(op, i, taken), 1, i)
        /\ ~HalfOfIndex(op, i) => Names(ExecuteBase(op, i, taken), DisassembleBase(op, i), 1)
<1>1. CASE X(op) = 0
  <2>1. BaseFits(op, i, taken)
    BY <1>1, LowFits, StepFits, StoreFits
  <2> QED BY <2>1 DEF BaseFits, Agrees
<1>2. CASE X(op) = 1 /\ op # 118
  BY <1>2, LoadFits
<1>3. CASE op = 118
  <2>1. BaseFits(op, i, taken)
    BY <1>3, HaltFits
  <2> QED BY <2>1 DEF BaseFits, Agrees
<1>4. CASE X(op) = 2
  <2>1. BaseFits(op, i, taken)
    BY <1>4, OperationFits
  <2> QED BY <2>1 DEF BaseFits, Agrees
<1>5. CASE X(op) = 3
  <2>1. BaseFits(op, i, taken)
    BY <1>5, TopFits
  <2> QED BY <2>1 DEF BaseFits, Agrees
<1>6. X(op) \in 0 .. 3
  BY Fields DEF Decoded
<1> QED BY <1>1, <1>2, <1>3, <1>4, <1>5, <1>6

(***************************************************************************)
(* Every opcode behind ED; RRD and RLD are exchanged but take their time.  *)
(***************************************************************************)
LEMMA EDInstruction ==
  ASSUME NEW op \in 0 .. 255, NEW i, NEW taken \in BOOLEAN
  PROVE /\ Timely(ExecuteED(op, taken), 2, i)
        /\ op \notin {103, 111} => Names(ExecuteED(op, taken), DisassembleED(op), 2)
<1>0. /\ X(op) \in 0 .. 3 /\ Y(op) \in 0 .. 7 /\ Z(op) \in 0 .. 7 /\ op = 64 * X(op) + 8 * Y(op) + Z(op)
      /\ P(op) \in 0 .. 3 /\ Q(op) \in 0 .. 1 /\ Y(op) = 2 * P(op) + Q(op)
  <2>1. Decoded(op)
    BY Fields
  <2> QED BY <2>1 DEF Decoded
<1>1. CASE op \notin {103, 111}
  BY <1>1, EDFits DEF Agrees
<1>2. CASE op \in {103, 111}
  <2>1. X(op) = 1 /\ Z(op) = 7 /\ Y(op) \in {4, 5}
    BY <1>2, <1>0
  <2>2. ExecuteED(op, taken) = Ins(DigitRotation(op), <<>>, 0, 6, 18)
    BY <2>1 DEF ExecuteED
  <2>3. DOMAIN <<>> = {}
    OBVIOUS
  <2> QED BY <1>2, <2>2, <2>3 DEF Timely, Ins
<1> QED BY <1>1, <1>2

(***************************************************************************)
(* The opcode bytes behind the prefixes.                                   *)
(***************************************************************************)
Opcodes == IF code.op = ED \/ (code.op = CB /\ index = "HL") THEN 2 ELSE 1

(***************************************************************************)
(* The index that n prefixes leave: the last one counts.                   *)
(***************************************************************************)
IndexAt(n) == IF n = 0 THEN "HL" ELSE IF code.prefixes[n] = DD THEN "IX" ELSE "IY"

(***************************************************************************)
(* The inductive invariant of the decoder: the index is that of the        *)
(* prefixes fetched, and what was executed is what they and the opcode     *)
(* say.                                                                    *)
(***************************************************************************)
DecodeInv ==
  /\ code \in Codes
  /\ \/ /\ effect = NoEffect
        /\ cursor \in 0 .. Len(code.prefixes) /\ index = IndexAt(cursor)
     \/ /\ effect = Execute
        /\ cursor = Len(code.prefixes) + Opcodes /\ index = IndexAt(Len(code.prefixes))

(***************************************************************************)
(* What an instruction consists of.                                        *)
(***************************************************************************)
LEMMA CodeFields ==
  ASSUME NEW c \in Codes
  PROVE /\ Len(c.prefixes) \in Nat /\ (c.prefixes = <<>> <=> Len(c.prefixes) = 0)
        /\ c.op \in 0 .. 255 /\ c.op \notin {DD, FD} /\ c.sub \in 0 .. 255 /\ c.taken \in BOOLEAN
<1>1. c \in Code
  BY CodesAssumption
<1>2. PICK n \in 0 .. MaxPrefixes : c.prefixes \in [1 .. n -> {DD, FD}]
  BY <1>1 DEF Code
<1>3. n \in Nat
  BY CodesAssumption
<1>4. Len(c.prefixes) = n /\ (c.prefixes = <<>> <=> n = 0)
  BY <1>2, <1>3
<1> QED BY <1>1, <1>3, <1>4 DEF Code

(***************************************************************************)
(* Decoding starts with no prefix and no index.                            *)
(***************************************************************************)
LEMMA InitInv == InitDecode => DecodeInv
<1> SUFFICES ASSUME InitDecode PROVE DecodeInv
  OBVIOUS
<1>1. Len(code.prefixes) \in Nat
  BY CodeFields DEF InitDecode
<1> QED BY <1>1 DEF InitDecode, DecodeInv, IndexAt

(***************************************************************************)
(* A prefix replaces the index; the opcode behind the last one is executed *)
(* with the index that is left.                                            *)
(***************************************************************************)
LEMMA NextInv == DecodeInv /\ [NextDecode]_decodeVars => DecodeInv'
<1> SUFFICES ASSUME DecodeInv, [NextDecode]_decodeVars PROVE DecodeInv'
  OBVIOUS
<1>1. Len(code.prefixes) \in Nat /\ Opcodes \in {1, 2} /\ code \in Codes
  BY CodeFields DEF DecodeInv, Opcodes
<1>2. CASE FetchPrefix
  <2>1. effect = NoEffect /\ cursor \in 0 .. Len(code.prefixes)
    BY <1>1, <1>2 DEF DecodeInv, FetchPrefix
  <2>2. cursor' \in 0 .. Len(code.prefixes) /\ cursor' # 0 /\ code' = code /\ effect' = effect
    BY <1>1, <1>2, <2>1 DEF FetchPrefix
  <2>3. index' = IndexAt(cursor)'
    BY <1>2, <2>2 DEF FetchPrefix, IndexAt
  <2> QED BY <1>1, <2>1, <2>2, <2>3 DEF DecodeInv
<1>3. CASE EmulateZ80Op
  <2>1. effect = NoEffect /\ index = IndexAt(Len(code.prefixes)) /\ cursor = Len(code.prefixes)
    BY <1>1, <1>3 DEF DecodeInv, EmulateZ80Op
  <2>2. code' = code /\ index' = index /\ effect' = Execute /\ cursor' = cursor + Opcodes
    BY <1>3 DEF EmulateZ80Op, Opcodes
  <2>3. Execute' = Execute /\ Opcodes' = Opcodes /\ IndexAt(Len(code.prefixes))' = IndexAt(Len(code.prefixes))
    BY <2>2 DEF Execute, Opcodes, IndexAt
  <2> QED BY <1>1, <2>1, <2>2, <2>3 DEF DecodeInv
<1>4. CASE UNCHANGED decodeVars
  <2>1. code' = code /\ index' = index /\ effect' = effect /\ cursor' = cursor
    BY <1>4 DEF decodeVars
  <2>2. Execute' = Execute /\ Opcodes' = Opcodes /\ \A n : IndexAt(n)' = IndexAt(n)
    BY <2>1 DEF Execute, Opcodes, IndexAt
  <2> QED BY <2>1, <2>2 DEF DecodeInv, IndexAt
<1> QED BY <1>2, <1>3, <1>4 DEF NextDecode

(***************************************************************************)
(* However many prefixes there are, decoding keeps the index of the last   *)
(* one.                                                                    *)
(***************************************************************************)
THEOREM DecodeAlways == SpecDecode => []DecodeInv
BY InitInv, NextInv, PTL DEF SpecDecode

(***************************************************************************)
(* An executed instruction takes its time, and is what the disassembler    *)
(* prints for the last prefix, or one of the forms the decoders differ in. *)
(***************************************************************************)
LEMMA Instruction ==
  ASSUME DecodeInv, Executed
  PROVE /\ cursor = Len(code.prefixes) + Opcodes
        /\ index \in Indexes /\ (index = "HL" <=> code.prefixes = <<>>)
        /\ index = LastIndex(code.prefixes)
        /\ Timely(effect, Opcodes, index)
        /\ IndexedCopy \/ DigitRotate \/ IndexedHalf \/ Names(effect, Disassemble, Opcodes)
<1>1. effect = Execute /\ cursor = Len(code.prefixes) + Opcodes /\ index = IndexAt(Len(code.prefixes))
  BY DEF DecodeInv, Executed
<1>2. /\ code.op \in 0 .. 255 /\ code.op \notin {DD, FD} /\ code.sub \in 0 .. 255 /\ code.taken \in BOOLEAN
      /\ (code.prefixes = <<>> <=> Len(code.prefixes) = 0)
  BY CodeFields DEF DecodeInv
<1>3. index \in Indexes /\ (index = "HL" <=> code.prefixes = <<>>)
  BY <1>1, <1>2 DEF IndexAt, Indexes
<1>4. index = LastIndex(code.prefixes)
  BY <1>1, <1>2 DEF IndexAt, LastIndex
<1>5. /\ Timely(effect, Opcodes, index)
      /\ IndexedCopy \/ DigitRotate \/ IndexedHalf \/ Names(effect, Disassemble, Opcodes)
  <2>1. CASE code.op = CB
    <3>1. effect = ExecuteCB(code.sub, index) /\ Disassemble = DisassembleCB(code.sub, index)
      BY <1>1, <1>4, <2>1 DEF Execute, Disassemble, CB, ED
    <3>2. Opcodes = CBBytes(index)
      BY <2>1 DEF Opcodes, CBBytes, CB, ED
    <3>3. Timely(effect, Opcodes, index)
      BY <1>2, <3>1, <3>2, CBTimely
    <3>4. index = "HL" \/ Z(code.sub) = 6 => Names(effect, Disassemble, Opcodes)
      BY <1>2, <1>3, <3>1, <3>2, CBNames
    <3> QED BY <2>1, <3>3, <3>4 DEF IndexedCopy
  <2>2. CASE code.op = ED
    <3>1. effect = ExecuteED(code.sub, code.taken) /\ Disassemble = DisassembleED(code.sub) /\ Opcodes = 2
      BY <1>1, <2>2 DEF Execute, Disassemble, Opcodes, CB, ED
    <3> QED BY <1>2, <2>2, <3>1, EDInstruction DEF DigitRotate
  <2>3. CASE code.op \notin {CB, ED}
    <3>1. effect = ExecuteBase(code.op, index, code.taken) /\ Disassemble = DisassembleBase(code.op, index)
      BY <1>1, <1>4, <2>3 DEF Execute, ExecuteBase, Disassemble
    <3>2. Opcodes = 1 /\ code.op \notin {203, 221, 237, 253}
      BY <1>2, <2>3 DEF Opcodes, CB, ED, DD, FD
    <3>3. HalfOfIndex(code.op, index) <=> IndexedHalf
      BY DEF HalfOfIndex, IndexedHalf
    <3>4. Timely(effect, Opcodes, index)
      BY <1>2, <1>3, <3>1, <3>2, BaseInstruction
    <3>5. ~IndexedHalf => Names(effect, Disassemble, Opcodes)
      BY <1>2, <1>3, <3>1, <3>2, <3>3, BaseInstruction
    <3> QED BY <3>4, <3>5
  <2> QED BY <2>1, <2>2, <2>3
<1> QED BY <1>1, <1>3, <1>4, <1>5

(***************************************************************************)
(* Behind any number of DD and FD bytes in any order and for every opcode, *)
(* what the trace prints is what was executed and as long as pc moved: the *)
(* executor, which keeps an index while it fetches prefixes, and the       *)
(* disassembler, which looks at the last one, agree on all but the named   *)
(* forms.                                                                  *)
(***************************************************************************)
THEOREM TraceMatches == SpecDecode => []DisassemblyMatches
<1>1. DecodeInv => DisassemblyMatches
  <2> SUFFICES ASSUME DecodeInv, Executed, Names(effect, Disassemble, Opcodes) PROVE SameInstruction
    BY Instruction DEF DisassemblyMatches
  <2>1. Len(code.prefixes) \in Nat /\ Opcodes \in {1, 2} /\ cursor = Len(code.prefixes) + Opcodes
    BY CodeFields, Instruction DEF DecodeInv, Opcodes
  <2>2. effect.operands \in Nat /\ Opcodes + effect.operands = Disassemble.length
    BY DEF Names
  <2>3. cursor + effect.operands = Len(code.prefixes) + Disassemble.length
    BY <2>1, <2>2
  <2> QED BY <2>3 DEF SameInstruction, Names
<1> QED BY <1>1, DecodeAlways, PTL

(***************************************************************************)
(* Every instruction without a prefix, and every one on indexed memory     *)
(* behind one, takes at least the T-states its bytes and its data need on  *)
(* the bus.                                                                *)
(***************************************************************************)
THEOREM ClockCovers == SpecDecode => []ClockCoversBus
<1>1. DecodeInv => ClockCoversBus
  <2> SUFFICES ASSUME DecodeInv, Executed,
                      code.prefixes = <<>> \/ (Len(code.prefixes) = 1 /\ Displaced)
               PROVE effect.clock >= TimeOnTheBus
    BY DEF ClockCoversBus
  <2>1. Timely(effect, Opcodes, index) /\ (index = "HL" <=> code.prefixes = <<>>)
    BY Instruction
  <2>2. Opcodes \in {1, 2} /\ cursor = Len(code.prefixes) + Opcodes
    BY Instruction DEF Opcodes
  <2>3. CASE code.prefixes = <<>>
    <3>1. cursor = Opcodes
      BY <2>2, <2>3
    <3> QED BY <2>1, <2>3, <3>1 DEF Timely, TimeOnTheBus
  <2>4. CASE code.prefixes # <<>>
    <3>0. Len(code.prefixes) = 1 /\ Displaced
      BY <2>4
    <3>1. 4 * cursor = 4 * Opcodes + 4
      BY <2>2, <3>0
    <3>2. effect.clock >= 4 * Opcodes + 4 + 3 * effect.operands + effect.bus
      BY <2>1, <2>4, <3>0 DEF Timely, Displaced, Indexed
    <3> QED BY <3>1, <3>2 DEF TimeOnTheBus
  <2> QED BY <2>3, <2>4
<1> QED BY <1>1, DecodeAlways, PTL

----------------------------------------------------------------------------
(***************************************************************************)
(* Induction over the numbers, as a property of sets: a set with 0 and the *)
(* successor of each of its numbers has them all.                          *)
(***************************************************************************)
LEMMA Induction ==
  ASSUME NEW T, 0 \in T, \A n \in Nat : n \in T => n + 1 \in T
  PROVE Nat \subseteq T
<1> DEFINE U == {n \in Nat : n \notin T}
           R == {s \in Nat \X Nat : s[1] < s[2]}
<1> SUFFICES ASSUME U # {} PROVE FALSE
  OBVIOUS
<1>1. PICK x \in U : \A y \in U : ~(<<y, x>> \in R)
  <2>1. IsWellFoundedOn(R, Nat)
    BY NatLessThanWellFounded DEF OpToRel
  <2>2. U \subseteq Nat
    OBVIOUS
  <2> HIDE DEF U, R
  <2> QED BY <2>1, <2>2, WFMin
<1>2. x - 1 \in U
  OBVIOUS
<1>3. <<x - 1, x>> \in R
  BY <1>2
<1> QED BY <1>1, <1>2, <1>3

(***************************************************************************)
(* A recursion over the numbers up to n, and that it has a solution.       *)
(***************************************************************************)
Solves(g, n, a, b, c) ==
  g \in [0 .. n -> Int] /\ g[0] = c /\ \A k \in 1 .. n : g[k] = a[k] * g[k - 1] + b[k]

(***************************************************************************)
(* A recursion of this form over 0 .. n has a solution.                    *)
(***************************************************************************)
LEMMA Recursion ==
  ASSUME NEW n \in Nat, NEW a \in [1 .. n -> Int], NEW b \in [1 .. n -> Int], NEW c \in Int
  PROVE \E g : Solves(g, n, a, b, c)
<1> DEFINE T == {m \in Nat : m <= n => \E g : Solves(g, m, a, b, c)}
<1>1. 0 \in T
  <2> DEFINE g == [k \in 0 .. 0 |-> c]
  <2>1. Solves(g, 0, a, b, c)
    BY DEF Solves
  <2> HIDE DEF g
  <2> QED BY <2>1
<1>2. ASSUME NEW m \in Nat, m \in T PROVE m + 1 \in T
  <2> SUFFICES ASSUME m + 1 <= n PROVE \E g : Solves(g, m + 1, a, b, c)
    OBVIOUS
  <2>0. m <= n
    OBVIOUS
  <2>1. PICK g : Solves(g, m, a, b, c)
    BY <1>2, <2>0
  <2>2. m + 1 \in 1 .. n /\ a[m + 1] \in Int /\ b[m + 1] \in Int /\ g[m] \in Int
    BY <2>0, <2>1 DEF Solves
  <2>3. PICK last \in Int : last = a[m + 1] * g[m] + b[m + 1]
    BY <2>2
  <2> DEFINE h == [k \in 0 .. m + 1 |-> IF k = m + 1 THEN last ELSE g[k]]
  <2>4. h \in [0 .. m + 1 -> Int] /\ h[m + 1] = last /\ \A k \in 0 .. m : h[k] = g[k]
    BY <2>1, <2>3 DEF Solves
  <2> HIDE DEF h
  <2>5. ASSUME NEW k \in 1 .. m + 1 PROVE h[k] = a[k] * h[k - 1] + b[k]
    <3>1. CASE k = m + 1
      BY <2>3, <2>4, <3>1
    <3>2. CASE k # m + 1
      <4>1. k \in 1 .. m /\ k \in 0 .. m /\ k - 1 \in 0 .. m
        BY <3>2
      <4> QED BY <2>1, <2>4, <4>1 DEF Solves
    <3> QED BY <3>1, <3>2
  <2>6. h[0] = c
    BY <2>1, <2>4 DEF Solves
  <2>7. Solves(h, m + 1, a, b, c)
    BY <2>4, <2>5, <2>6 DEF Solves
  <2> QED BY <2>7
<1> HIDE DEF T
<1>3. n \in T
  BY <1>1, <1>2, Induction
<1> QED BY <1>3 DEF T

(***************************************************************************)
(* Products and sums of the first numbers of a sequence.                   *)
(***************************************************************************)
LEMMA Products ==
  ASSUME NEW n \in Nat, NEW a \in [1 .. n -> Int]
  PROVE \E g \in [0 .. n -> Int] : g[0] = 1 /\ \A k \in 1 .. n : g[k] = a[k] * g[k - 1]
<1> DEFINE zero == [k \in 1 .. n |-> 0]
<1>1. zero \in [1 .. n -> Int] /\ \A k \in 1 .. n : zero[k] = 0
  OBVIOUS
<1> HIDE DEF zero
<1> PICK one \in Int : one = 1
  OBVIOUS
<1>2. PICK g : Solves(g, n, a, zero, one)
  BY <1>1, Recursion
<1>3. ASSUME NEW k \in 1 .. n PROVE g[k] = a[k] * g[k - 1]
  <2>0. g \in [0 .. n -> Int] /\ k - 1 \in 0 .. n
    BY <1>2 DEF Solves
  <2> PICK p \in Int, q \in Int : p = a[k] /\ q = g[k - 1]
    BY <2>0
  <2>1. g[k] = p * q + 0
    BY <1>1, <1>2 DEF Solves
  <2> QED BY <2>1
<1> QED BY <1>2, <1>3 DEF Solves

(***************************************************************************)
(* The sums of the first numbers of a sequence.                            *)
(***************************************************************************)
LEMMA Totals ==
  ASSUME NEW n \in Nat, NEW b \in [1 .. n -> Int]
  PROVE \E g \in [0 .. n -> Int] : g[0] = 0 /\ \A k \in 1 .. n : g[k] = g[k - 1] + b[k]
<1> DEFINE ones == [k \in 1 .. n |-> 1]
<1>1. ones \in [1 .. n -> Int] /\ \A k \in 1 .. n : ones[k] = 1
  OBVIOUS
<1> HIDE DEF ones
<1> PICK zero \in Int : zero = 0
  OBVIOUS
<1>2. PICK g : Solves(g, n, ones, b, zero)
  BY <1>1, Recursion
<1>3. ASSUME NEW k \in 1 .. n PROVE g[k] = g[k - 1] + b[k]
  <2> PICK p \in Int, q \in Int : p = g[k - 1] /\ q = b[k]
    BY <1>2 DEF Solves
  <2>1. g[k] = 1 * p + q
    BY <1>1, <1>2 DEF Solves
  <2> QED BY <2>1
<1> QED BY <1>2, <1>3 DEF Solves

(***************************************************************************)
(* The weights of the limbs.                                               *)
(***************************************************************************)
LEMMA WeightsType ==
  ASSUME NEW n \in Nat, NEW radix \in [1 .. n -> Nat \ {0}], Len(radix) = n
  PROVE /\ Weights(radix) \in [0 .. n -> Nat \ {0}]
        /\ Weights(radix)[0] = 1
        /\ \A k \in 1 .. n : Weights(radix)[k] = radix[k] * Weights(radix)[k - 1]
<1> DEFINE w == Weights(radix)
           Step(g) == [k \in 0 .. Len(radix) |-> IF k = 0 THEN 1 ELSE radix[k] * g[k - 1]]
<1>1. w = Step(w)
  <2>1. PICK g \in [0 .. n -> Int] : g[0] = 1 /\ \A k \in 1 .. n : g[k] = radix[k] * g[k - 1]
    <3>1. radix \in [1 .. n -> Int]
      OBVIOUS
    <3> HIDE DEF w
    <3> QED BY <3>1, Products
  <2>4. g = Step(g)
    <3>1. ASSUME NEW k \in 0 .. n PROVE g[k] = IF k = 0 THEN 1 ELSE radix[k] * g[k - 1]
      BY <2>1
    <3> QED BY <3>1
  <2> QED BY <2>4 DEF Weights
<1> HIDE DEF w
<1>2. /\ w = [k \in 0 .. n |-> w[k]] /\ w[0] = 1
      /\ \A k \in 1 .. n : w[k] = radix[k] * w[k - 1]
  BY <1>1
<1>3. \A k \in 0 .. n : w[k] \in Nat \ {0}
  <2> DEFINE T == {k \in Nat : k <= n => w[k] \in Nat \ {0}}
  <2>1. 0 \in T
    BY <1>2
  <2>2. ASSUME NEW k \in Nat, k \in T PROVE k + 1 \in T
    <3> SUFFICES ASSUME k + 1 <= n PROVE w[k + 1] \in Nat \ {0}
      OBVIOUS
    <3>1. k + 1 \in 1 .. n /\ (k + 1) - 1 = k /\ radix[k + 1] \in Nat \ {0} /\ w[k] \in Nat \ {0}
      BY <2>2
    <3>2. w[k + 1] = radix[k + 1] * w[k]
      BY <1>2, <3>1
    <3> PICK p \in Nat \ {0}, q \in Nat \ {0} : p = radix[k + 1] /\ q = w[k]
      BY <3>1
    <3>3. p * q \in Nat \ {0}
      OBVIOUS
    <3> QED BY <3>2, <3>3
  <2> HIDE DEF T
  <2>3. Nat \subseteq T
    BY <2>1, <2>2, Induction
  <2> QED BY <2>3 DEF T
<1> QED BY <1>2, <1>3 DEF w

(***************************************************************************)
(* The number that the lowest limbs make.                                  *)
(***************************************************************************)
AddsUp(sum, n, limbs, weight) ==
  /\ sum \in [0 .. n -> Nat] /\ sum[0] = 0
  /\ \A k \in 1 .. n : sum[k] = sum[k - 1] + limbs[k] * weight[k - 1]

(***************************************************************************)
(* Partial is that number, limb by limb.                                   *)
(***************************************************************************)
LEMMA PartialType ==
  ASSUME NEW n \in Nat, NEW limbs \in [1 .. n -> Nat], Len(limbs) = n,
         NEW weight \in [0 .. n -> Nat]
  PROVE AddsUp(Partial(limbs, weight), n, limbs, weight)
<1> DEFINE sum == Partial(limbs, weight)
           Step(g) == [k \in 0 .. Len(limbs) |-> IF k = 0 THEN 0 ELSE g[k - 1] + limbs[k] * weight[k - 1]]
<1>0. \A k \in 1 .. n : limbs[k] * weight[k - 1] \in Nat
  <2> SUFFICES ASSUME NEW k \in 1 .. n PROVE limbs[k] * weight[k - 1] \in Nat
    OBVIOUS
  <2> PICK p \in Nat, q \in Nat : p = limbs[k] /\ q = weight[k - 1]
    OBVIOUS
  <2>1. p * q \in Nat
    OBVIOUS
  <2> QED BY <2>1
<1>1. sum = Step(sum)
  <2>1. PICK g \in [0 .. n -> Int] :
          g[0] = 0 /\ \A k \in 1 .. n : g[k] = g[k - 1] + limbs[k] * weight[k - 1]
    <3> DEFINE b == [k \in 1 .. n |-> limbs[k] * weight[k - 1]]
    <3>1. b \in [1 .. n -> Int] /\ \A k \in 1 .. n : b[k] = limbs[k] * weight[k - 1]
      BY <1>0
    <3> HIDE DEF b, sum
    <3>2. PICK g \in [0 .. n -> Int] : g[0] = 0 /\ \A k \in 1 .. n : g[k] = g[k - 1] + b[k]
      BY <3>1, Totals
    <3> QED BY <3>1, <3>2
  <2>2. g = Step(g)
    <3>1. ASSUME NEW k \in 0 .. n
          PROVE g[k] = IF k = 0 THEN 0 ELSE g[k - 1] + limbs[k] * weight[k - 1]
      BY <2>1
    <3> QED BY <3>1
  <2> QED BY <2>2 DEF Partial
<1> HIDE DEF sum
<1>2. /\ sum = [k \in 0 .. n |-> sum[k]] /\ sum[0] = 0
      /\ \A k \in 1 .. n : sum[k] = sum[k - 1] + limbs[k] * weight[k - 1]
  BY <1>1
<1>3. \A k \in 0 .. n : sum[k] \in Nat
  <2> DEFINE T == {k \in Nat : k <= n => sum[k] \in Nat}
  <2>1. 0 \in T
    BY <1>2
  <2>2. ASSUME NEW k \in Nat, k \in T PROVE k + 1 \in T
    <3> SUFFICES ASSUME k + 1 <= n PROVE sum[k + 1] \in Nat
      OBVIOUS
    <3>1. k + 1 \in 1 .. n /\ (k + 1) - 1 = k /\ sum[k] \in Nat
      BY <2>2
    <3>2. sum[k + 1] = sum[k] + limbs[k + 1] * weight[k] /\ limbs[k + 1] * weight[k] \in Nat
      BY <1>0, <1>2, <3>1
    <3> QED BY <3>1, <3>2
  <2> HIDE DEF T
  <2>3. Nat \subseteq T
    BY <2>1, <2>2, Induction
  <2> QED BY <2>3 DEF T
<1>4. AddsUp(sum, n, limbs, weight)
  BY <1>2, <1>3 DEF AddsUp
<1> QED BY <1>4 DEF sum

----------------------------------------------------------------------------
(***************************************************************************)
(* Limbs on a scale: the weight of each is that of the one below times its *)
(* radix.                                                                  *)
(***************************************************************************)
Scale(n, radix, weight) ==
  /\ n \in Nat \ {0} /\ radix \in [1 .. n -> Nat \ {0}] /\ weight \in [0 .. n -> Nat \ {0}]
  /\ weight[0] = 1 /\ \A k \in 1 .. n : weight[k] = radix[k] * weight[k - 1]

OnScale(limbs, n, radix) ==
  limbs \in [1 .. n -> Nat] /\ Len(limbs) = n /\ \A k \in 1 .. n : limbs[k] < radix[k]

(***************************************************************************)
(* Each limb adds itself at its weight, and the lowest limbs make less     *)
(* than the weight above them.                                             *)
(***************************************************************************)
LEMMA PartialIs ==
  ASSUME NEW n, NEW radix, NEW weight, Scale(n, radix, weight),
         NEW limbs, OnScale(limbs, n, radix)
  PROVE /\ Partial(limbs, weight) \in [0 .. n -> Nat]
        /\ Partial(limbs, weight)[0] = 0
        /\ \A k \in 1 .. n :
             Partial(limbs, weight)[k] = Partial(limbs, weight)[k - 1] + limbs[k] * weight[k - 1]
        /\ \A k \in 0 .. n : Partial(limbs, weight)[k] < weight[k]
<1> DEFINE sum == Partial(limbs, weight)
           T == {k \in Nat : k <= n => sum[k] < weight[k]}
<1>1. /\ sum \in [0 .. n -> Nat] /\ sum[0] = 0
      /\ \A k \in 1 .. n : sum[k] = sum[k - 1] + limbs[k] * weight[k - 1]
  <2>1. /\ n \in Nat /\ limbs \in [1 .. n -> Nat] /\ Len(limbs) = n
        /\ weight \in [0 .. n -> Nat]
    BY DEF Scale, OnScale
  <2>2. AddsUp(sum, n, limbs, weight)
    BY <2>1, PartialType
  <2> QED BY <2>2 DEF AddsUp
<1> HIDE DEF sum
<1>2. 0 \in T
  BY <1>1 DEF Scale
<1>3. ASSUME NEW k \in Nat, k \in T PROVE k + 1 \in T
  <2> SUFFICES ASSUME k + 1 <= n PROVE sum[k + 1] < weight[k + 1]
    OBVIOUS
  <2>1. k + 1 \in 1 .. n /\ (k + 1) - 1 = k /\ k \in 0 .. n /\ sum[k] < weight[k]
    BY <1>3 DEF Scale
  <2> PICK s \in Nat, w \in Nat \ {0}, v \in Nat, r \in Nat \ {0} :
        s = sum[k] /\ w = weight[k] /\ v = limbs[k + 1] /\ r = radix[k + 1]
    BY <1>1, <2>1 DEF Scale, OnScale
  <2>2. s < w /\ v < r /\ sum[k + 1] = s + v * w /\ weight[k + 1] = r * w
    BY <1>1, <2>1 DEF Scale, OnScale
  <2>4. v < r
    BY <2>2
  <2> PICK d \in Nat : d = r - v - 1
    BY <2>4
  <2>5. r = v + 1 + d
    OBVIOUS
  <2>3. r * w = v * w + w + d * w /\ d * w \in Nat /\ v * w \in Nat
    BY <2>5
  <2> QED BY <2>2, <2>3
<1> HIDE DEF T
<1>4. Nat \subseteq T
  BY <1>2, <1>3, Induction
<1> QED BY <1>1, <1>4 DEF Scale, T, sum

(***************************************************************************)
(* A limb replaced changes the number by the difference at its weight.     *)
(***************************************************************************)
LEMMA PartialReplaced ==
  ASSUME NEW n, NEW radix, NEW weight, Scale(n, radix, weight),
         NEW limbs, OnScale(limbs, n, radix),
         NEW p \in 1 .. n, NEW v \in Nat, v < radix[p]
  PROVE LET new == [limbs EXCEPT ![p] = v]
        IN /\ OnScale(new, n, radix)
           /\ Partial(new, weight)[n]
                = Partial(limbs, weight)[n] + (v - limbs[p]) * weight[p - 1]
<1> DEFINE new == [limbs EXCEPT ![p] = v]
           old == Partial(limbs, weight)
           sum == Partial(new, weight)
<1>1. /\ new \in [1 .. n -> Nat] /\ new[p] = v /\ \A k \in 1 .. n : k # p => new[k] = limbs[k]
      /\ Len(new) = n
  <2>1. limbs \in [1 .. n -> Nat] /\ n \in Nat
    BY DEF OnScale, Scale
  <2>2. new \in [1 .. n -> Nat] /\ new[p] = v /\ \A k \in 1 .. n : k # p => new[k] = limbs[k]
    BY <2>1
  <2>3. Len(new) = n
    BY <2>1, <2>2
  <2> QED BY <2>2, <2>3
<1>2. OnScale(new, n, radix)
  BY <1>1 DEF OnScale
<1> HIDE DEF new
<1>3. /\ old \in [0 .. n -> Nat] /\ old[0] = 0
      /\ \A k \in 1 .. n : old[k] = old[k - 1] + limbs[k] * weight[k - 1]
  BY PartialIs
<1>4. /\ sum \in [0 .. n -> Nat] /\ sum[0] = 0
      /\ \A k \in 1 .. n : sum[k] = sum[k - 1] + new[k] * weight[k - 1]
  BY <1>2, PartialIs
<1>5. n \in Nat /\ \A k \in 1 .. n : limbs[k] \in Nat /\ weight[k - 1] \in Nat /\ k - 1 \in 0 .. n
  <2>1. n \in Nat /\ limbs \in [1 .. n -> Nat] /\ weight \in [0 .. n -> Nat]
    BY DEF Scale, OnScale
  <2> QED BY <2>1
<1> PICK d \in Int : d = (v - limbs[p]) * weight[p - 1]
  BY <1>5
<1>6. v * weight[p - 1] = limbs[p] * weight[p - 1] + d
  <2> PICK a \in Nat, w \in Nat : a = limbs[p] /\ w = weight[p - 1]
    BY <1>5
  <2>1. v * w = a * w + (v - a) * w
    OBVIOUS
  <2> QED BY <2>1
<1> DEFINE T == {k \in Nat : k <= n => sum[k] = old[k] + IF k >= p THEN d ELSE 0}
<1> HIDE DEF sum, old
<1>7. 0 \in T
  BY <1>3, <1>4
<1>8. ASSUME NEW k \in Nat, k \in T PROVE k + 1 \in T
  <2> SUFFICES ASSUME k + 1 <= n PROVE sum[k + 1] = old[k + 1] + IF k + 1 >= p THEN d ELSE 0
    BY DEF T
  <2>1. k + 1 \in 1 .. n /\ (k + 1) - 1 = k /\ sum[k] = old[k] + (IF k >= p THEN d ELSE 0)
    BY <1>5, <1>8
  <2>2. sum[k] \in Int /\ old[k] \in Int /\ limbs[k + 1] * weight[k] \in Int
    <3> PICK a \in Nat, w \in Nat : a = limbs[k + 1] /\ w = weight[k]
      BY <1>5, <2>1
    <3>1. a * w \in Int
      OBVIOUS
    <3>2. k \in 0 .. n
      BY <1>5, <2>1
    <3> QED BY <1>3, <1>4, <3>1, <3>2
  <2>3. /\ sum[k + 1] = sum[k] + new[k + 1] * weight[k]
        /\ old[k + 1] = old[k] + limbs[k + 1] * weight[k]
    BY <1>3, <1>4, <2>1
  <2>4. CASE k + 1 = p
    <3>1. new[k + 1] * weight[k] = limbs[k + 1] * weight[k] + d
      BY <1>1, <1>6, <2>1, <2>4
    <3>2. ~(k >= p) /\ k + 1 >= p
      BY <2>4
    <3> QED BY <2>1, <2>2, <2>3, <3>1, <3>2
  <2>5. CASE k + 1 # p
    <3>1. new[k + 1] = limbs[k + 1] /\ (k >= p <=> k + 1 >= p)
      BY <1>1, <2>1, <2>5
    <3> QED BY <2>1, <2>2, <2>3, <3>1
  <2> QED BY <2>4, <2>5
<1> HIDE DEF T
<1>9. n \in T
  BY <1>5, <1>7, <1>8, Induction
<1> QED BY <1>2, <1>9 DEF T, sum, old, new

(***************************************************************************)
(* Two numbers with the same limbs above p differ as their lowest p do.    *)
(***************************************************************************)
LEMMA PartialAgree ==
  ASSUME NEW n, NEW radix, NEW weight, Scale(n, radix, weight),
         NEW a, OnScale(a, n, radix), NEW b, OnScale(b, n, radix),
         NEW p \in 0 .. n, \A k \in 1 .. n : k > p => a[k] = b[k]
  PROVE Partial(a, weight)[n] - Partial(b, weight)[n] = Partial(a, weight)[p] - Partial(b, weight)[p]
<1> DEFINE s == Partial(a, weight)
           t == Partial(b, weight)
<1>1. /\ s \in [0 .. n -> Nat] /\ \A k \in 1 .. n : s[k] = s[k - 1] + a[k] * weight[k - 1]
      /\ t \in [0 .. n -> Nat] /\ \A k \in 1 .. n : t[k] = t[k - 1] + b[k] * weight[k - 1]
  BY PartialIs
<1>2. n \in Nat /\ \A k \in 1 .. n : a[k] \in Nat /\ weight[k - 1] \in Nat
  BY DEF Scale, OnScale
<1> DEFINE T == {k \in Nat : p + k <= n => s[p + k] - t[p + k] = s[p] - t[p]}
<1> HIDE DEF s, t
<1>3. 0 \in T
  OBVIOUS
<1>4. ASSUME NEW k \in Nat, k \in T PROVE k + 1 \in T
  <2> SUFFICES ASSUME p + (k + 1) <= n PROVE s[p + (k + 1)] - t[p + (k + 1)] = s[p] - t[p]
    BY DEF T
  <2> PICK i \in Nat : i = p + k
    OBVIOUS
  <2>1. i + 1 \in 1 .. n /\ i \in 0 .. n /\ (i + 1) - 1 = i /\ p + (k + 1) = i + 1 /\ i + 1 > p
        /\ s[i] - t[i] = s[p] - t[p]
    BY <1>2, <1>4
  <2>2. s[i + 1] = s[i] + a[i + 1] * weight[i] /\ t[i + 1] = t[i] + a[i + 1] * weight[i]
    BY <1>1, <2>1
  <2>3. s[i] \in Int /\ t[i] \in Int /\ a[i + 1] * weight[i] \in Int
    <3> PICK x \in Nat, w \in Nat : x = a[i + 1] /\ w = weight[i]
      BY <1>2, <2>1
    <3>1. x * w \in Int
      OBVIOUS
    <3> QED BY <1>1, <2>1, <3>1
  <2> QED BY <2>1, <2>2, <2>3
<1> HIDE DEF T
<1>5. n - p \in T
  BY <1>2, <1>3, <1>4, Induction
<1>6. p + (n - p) = n
  BY <1>2
<1> QED BY <1>2, <1>5, <1>6 DEF T, s, t

----------------------------------------------------------------------------
TopBit(v, r) == 2 * v >= r

(***************************************************************************)
(* What an instruction does to a limb of radix r: the value and the carry  *)
(* out of it make up the sum, the difference or, for a shift to the right, *)
(* twice the value and the bit shifted out make up the limb and the bit    *)
(* shifted in.                                                             *)
(***************************************************************************)
AddsLimb(out, lhs, rhs, carry, r) ==
  /\ out.value \in Int /\ 0 <= out.value /\ out.value < r /\ out.f.c \in BOOLEAN
  /\ out.value + r * CarryIn(out.f) = lhs + rhs + carry

SubsLimb(out, lhs, rhs, carry, r) ==
  /\ out.value \in Int /\ 0 <= out.value /\ out.value < r /\ out.f.c \in BOOLEAN
  /\ out.value - r * CarryIn(out.f) = lhs - rhs - carry

\* A flag that the next step or the end of the program reads.
Known(g) == g.c \in BOOLEAN
ZeroKnown(g) == g.z \in BOOLEAN

HalvesLimb(out, v, in) ==
  /\ out.value \in Int /\ 0 <= out.value /\ out.value < 256 /\ out.f.c \in BOOLEAN
  /\ 2 * out.value + CarryIn(out.f) = v + 256 * in

(***************************************************************************)
(* S and PV of a result of radix r: its sign, and whether the signed sum   *)
(* or difference left the range.                                           *)
(***************************************************************************)
SumFlags(out, lhs, rhs, r) ==
  /\ out.f.s = TopBit(out.value, r)
  /\ out.f.pv = (TopBit(lhs, r) = TopBit(rhs, r) /\ TopBit(lhs, r) # TopBit(out.value, r))

DifferenceFlags(out, lhs, rhs, r) ==
  /\ out.f.s = TopBit(out.value, r)
  /\ out.f.pv = (TopBit(lhs, r) # TopBit(rhs, r) /\ TopBit(lhs, r) # TopBit(out.value, r))

Rem(a, b) == a % b

(***************************************************************************)
(* BIT 7 of a byte is the top half of its values, and bit 15 of a pair the *)
(* top half of its own.                                                    *)
(***************************************************************************)
LEMMA ByteBit ==
  ASSUME NEW b \in Int, 0 <= b, b < 256 PROVE BitAt(b, 128) = IF TopBit(b, 256) THEN 1 ELSE 0
BY SMT DEF BitAt, TopBit

(***************************************************************************)
(* The same of a pair of registers.                                        *)
(***************************************************************************)
LEMMA WordBit ==
  ASSUME NEW w \in Int, 0 <= w, w < 65536 PROVE BitAt(w, 32768) = IF TopBit(w, 65536) THEN 1 ELSE 0
BY SMT DEF BitAt, TopBit

(***************************************************************************)
(* Of a sum of two bytes, bit 8 is the carry and the low byte the rest     *)
(* (ADD and ADC, UINT16).                                                  *)
(***************************************************************************)
LEMMA SumBits ==
  ASSUME NEW s \in Int, 0 <= s, s <= 511
  PROVE /\ BitAt(s, 256) = IF s >= 256 THEN 1 ELSE 0
        /\ Rem(s, 256) = IF s >= 256 THEN s - 256 ELSE s
BY SMT DEF BitAt, Rem

(***************************************************************************)
(* Of a sum of two pairs, bit 16 is the carry (ADD HL and ADC HL, UINT32). *)
(***************************************************************************)
LEMMA WordSumBits ==
  ASSUME NEW s \in Int, 0 <= s, s <= 131071
  PROVE /\ BitAt(s, 65536) = IF s >= 65536 THEN 1 ELSE 0
        /\ Rem(s, 65536) = IF s >= 65536 THEN s - 65536 ELSE s
<1>1. Rem(s, 65536) = IF s >= 65536 THEN s - 65536 ELSE s
  BY SMT DEF Rem
<1>2. PICK q \in 0 .. 1 : q = s \div 65536 /\ q = IF s >= 65536 THEN 1 ELSE 0
  BY SMT
<1>3. BitAt(s, 65536) = q % 2
  BY <1>2, SMT DEF BitAt
<1>4. q % 2 = q
  BY SMT
<1> QED BY <1>1, <1>2, <1>3, <1>4, SMT

(***************************************************************************)
(* Bit 4 of a sum of two digits is the half carry.                         *)
(***************************************************************************)
LEMMA NibbleBit == ASSUME NEW s \in Int, 0 <= s, s < 32 PROVE BitAt(s, 16) = IF s >= 16 THEN 1 ELSE 0
BY SMT DEF BitAt

(***************************************************************************)
(* Of a difference of two bytes kept in 16 bits, bit 8 is the borrow and   *)
(* the low byte the rest.                                                  *)
(***************************************************************************)
LEMMA DifferenceBits ==
  ASSUME NEW d \in Int, -256 <= d, d <= 255
  PROVE /\ BitAt(Rem(d, 65536), 256) = IF d < 0 THEN 1 ELSE 0
        /\ Rem(Rem(d, 65536), 256) = IF d < 0 THEN d + 256 ELSE d
<1>1. PICK e \in Int : e = Rem(d, 65536)
  BY SMT DEF Rem
<1>2. e = IF d < 0 THEN d + 65536 ELSE d
  BY <1>1, SMT DEF Rem
<1>3. BitAt(e, 256) = IF d < 0 THEN 1 ELSE 0
  BY <1>2, SMT DEF BitAt
<1>4. Rem(e, 256) = IF d < 0 THEN d + 256 ELSE d
  BY <1>2, SMT DEF Rem
<1> QED BY <1>1, <1>3, <1>4, SMT

(***************************************************************************)
(* A difference of two pairs kept in 16 bits is the rest.                  *)
(***************************************************************************)
LEMMA WordDifferenceBits ==
  ASSUME NEW d \in Int, -65536 <= d, d <= 65535
  PROVE Rem(d, 65536) = IF d < 0 THEN d + 65536 ELSE d
BY SMT DEF Rem

(***************************************************************************)
(* A byte is its two digits, and its bit 4 the lowest one of the upper     *)
(* digit.                                                                  *)
(***************************************************************************)
LEMMA Nibbles ==
  ASSUME NEW b \in Int, 0 <= b, b < 256
  PROVE /\ b \div 16 \in 0 .. 15 /\ b % 16 \in 0 .. 15 /\ b = 16 * (b \div 16) + (b % 16)
        /\ BitAt(b, 16) = (b \div 16) % 2
BY SMT DEF BitAt

(***************************************************************************)
(* Where bit 4 of the operands and of the result do not add up, a borrow   *)
(* went from the upper digit to the lower one: the half carry of SUB.      *)
(***************************************************************************)
LEMMA BorrowBit ==
  ASSUME NEW lhs \in Int, 0 <= lhs, lhs < 256, NEW rhs \in Int, 0 <= rhs, rhs < 256,
         NEW v \in Int, 0 <= v, v < 256, NEW carry \in 0 .. 1,
         NEW borrow \in 0 .. 1, v = lhs - rhs - carry + 256 * borrow
  PROVE Differ(lhs, rhs, v, 16) = (Rem(lhs, 16) - Rem(rhs, 16) - carry < 0)
<1>1. PICK a \in 0 .. 15, b \in 0 .. 15 : a = lhs \div 16 /\ b = lhs % 16
  BY Nibbles
<1>2. PICK c \in 0 .. 15, d \in 0 .. 15 : c = rhs \div 16 /\ d = rhs % 16
  BY Nibbles
<1>3. PICK e \in 0 .. 15, g \in 0 .. 15 : e = v \div 16 /\ g = v % 16
  BY Nibbles
<1>4. lhs = 16 * a + b /\ rhs = 16 * c + d /\ v = 16 * e + g
  BY <1>1, <1>2, <1>3, Nibbles
<1>5. PICK t \in 0 .. 1 : t = IF b - d - carry < 0 THEN 1 ELSE 0
  OBVIOUS
<1>6. e = a - c - t + 16 * borrow
  BY <1>4, <1>5
<1>7. (a % 2) + (c % 2) + (e % 2) \in Int /\ ((a % 2) + (c % 2) + (e % 2)) % 2 = t
  <2>1. PICK a2 \in 0 .. 7, am \in 0 .. 1 : a = 2 * a2 + am /\ am = a % 2
    <3>1. a = 2 * (a \div 2) + (a % 2) /\ a \div 2 \in 0 .. 7 /\ a % 2 \in 0 .. 1
      OBVIOUS
    <3> QED BY <3>1
  <2>2. PICK c2 \in 0 .. 7, cm \in 0 .. 1 : c = 2 * c2 + cm /\ cm = c % 2
    <3>1. c = 2 * (c \div 2) + (c % 2) /\ c \div 2 \in 0 .. 7 /\ c % 2 \in 0 .. 1
      OBVIOUS
    <3> QED BY <3>1
  <2>3. PICK e2 \in 0 .. 7, em \in 0 .. 1 : e = 2 * e2 + em /\ em = e % 2
    <3>1. e = 2 * (e \div 2) + (e % 2) /\ e \div 2 \in 0 .. 7 /\ e % 2 \in 0 .. 1
      OBVIOUS
    <3> QED BY <3>1
  <2>4. am + cm + em - t \in {0, 2}
    BY <1>6, <2>1, <2>2, <2>3
  <2>5. (am + cm + em) % 2 = t
    BY <2>4
  <2> QED BY <2>1, <2>2, <2>3, <2>5
<1>8. BitAt(lhs, 16) = a % 2 /\ BitAt(rhs, 16) = c % 2 /\ BitAt(v, 16) = e % 2
  BY <1>1, <1>2, <1>3, Nibbles
<1>9. Differ(lhs, rhs, v, 16) = (t = 1)
  BY <1>7, <1>8 DEF Differ
<1> QED BY <1>1, <1>2, <1>5, <1>9 DEF Rem

(***************************************************************************)
(* ADD and ADC: the byte and the carry out of it are the sum, S and PV     *)
(* tell the sign and the signed overflow, H the carry out of the low       *)
(* digit.                                                                  *)
(***************************************************************************)
LEMMA Add8Is ==
  ASSUME NEW lhs \in Int, 0 <= lhs, lhs < 256, NEW rhs \in Int, 0 <= rhs, rhs < 256, NEW carry \in 0 .. 1
  PROVE LET out == Add8(lhs, rhs, carry)
        IN /\ AddsLimb(out, lhs, rhs, carry, 256)
           /\ SumFlags(out, lhs, rhs, 256)
           /\ out.f.h = (Rem(lhs, 16) + Rem(rhs, 16) + carry >= 16)
           /\ out.f.n = FALSE
<1> DEFINE out == Add8(lhs, rhs, carry)
           sum == lhs + rhs + carry
           v == Rem(sum, 256)
           low == Rem(lhs, 16) + Rem(rhs, 16) + carry
           h == BitAt(low, 16) = 1
           pv == BitAt(lhs, 128) = BitAt(rhs, 128) /\ BitAt(lhs, 128) # BitAt(v, 128)
           c == BitAt(sum, 256) = 1
<1>1. out = Out(v, [FlagsSZ53(v) EXCEPT !.h = h, !.pv = pv, !.c = c])
  BY SMT DEF Add8, Rem
<1>2. h \in BOOLEAN /\ pv \in BOOLEAN /\ c \in BOOLEAN
  OBVIOUS
<1>3. sum \in Int /\ 0 <= sum /\ sum <= 511
  BY SMT
<1>4. low \in Int /\ 0 <= low /\ low < 32
  BY Nibbles, SMT DEF Rem
<1> HIDE DEF out, sum, low
<1>5. c = (sum >= 256) /\ v \in Int /\ 0 <= v /\ v < 256 /\ v = IF sum >= 256 THEN sum - 256 ELSE sum
  BY <1>3, SumBits, SMT
<1>6. h = (low >= 16)
  BY <1>4, NibbleBit, SMT
<1> HIDE DEF v, h, c
<1>7. pv = (TopBit(lhs, 256) = TopBit(rhs, 256) /\ TopBit(lhs, 256) # TopBit(v, 256))
  BY <1>5, ByteBit, SMT DEF TopBit
<1> HIDE DEF pv
<1>8. /\ out.value = v /\ out.f.s = (v >= 128) /\ out.f.z = (v = 0)
      /\ out.f.n = FALSE /\ out.f.h = h /\ out.f.pv = pv /\ out.f.c = c
  BY <1>1, <1>2 DEF Out, FlagsSZ53
<1>9. out.f.s = TopBit(v, 256)
  BY <1>5, <1>8, SMT DEF TopBit
<1>10. v + 256 * CarryIn(out.f) = sum
  <2> DEFINE wide == sum >= 256
  <2>1. c = wide
    BY <1>5
  <2> HIDE DEF wide
  <2>2. CarryIn(out.f) = IF wide THEN 1 ELSE 0
    BY <1>8, <2>1 DEF CarryIn
  <2> QED BY <1>2, <1>3, <1>5, <2>2, SMT DEF wide
<1>11. AddsLimb(out, lhs, rhs, carry, 256)
  BY <1>2, <1>5, <1>8, <1>10, SMT DEF AddsLimb, sum
<1>12. SumFlags(out, lhs, rhs, 256)
  BY <1>7, <1>8, <1>9, SMT DEF SumFlags
<1> QED BY <1>6, <1>8, <1>11, <1>12, SMT DEF low, out

(***************************************************************************)
(* SUB and SBC likewise, with a borrow.                                    *)
(***************************************************************************)
LEMMA Sub8Is ==
  ASSUME NEW lhs \in Int, 0 <= lhs, lhs < 256, NEW rhs \in Int, 0 <= rhs, rhs < 256, NEW carry \in 0 .. 1
  PROVE LET out == Sub8(lhs, rhs, carry)
        IN /\ SubsLimb(out, lhs, rhs, carry, 256)
           /\ DifferenceFlags(out, lhs, rhs, 256)
           /\ out.f.z = (out.value = 0)
           /\ out.f.h = (Rem(lhs, 16) - Rem(rhs, 16) - carry < 0)
           /\ out.f.n = TRUE
<1> DEFINE out == Sub8(lhs, rhs, carry)
           d == lhs - rhs - carry
           diff == Rem(d, 65536)
           v == Rem(diff, 256)
           h == Differ(lhs, rhs, v, 16)
           pv == BitAt(lhs, 128) # BitAt(rhs, 128) /\ BitAt(lhs, 128) # BitAt(v, 128)
           c == BitAt(diff, 256) = 1
<1>1. out = Out(v, [FlagsSZ53(v) EXCEPT !.n = TRUE, !.h = h, !.pv = pv, !.c = c])
  BY SMT DEF Sub8, Rem
<1>2. h \in BOOLEAN /\ pv \in BOOLEAN /\ c \in BOOLEAN
  BY SMT DEF Differ
<1>3. d \in Int /\ -256 <= d /\ d <= 255
  BY SMT
<1> HIDE DEF out, d
<1>4. c = (d < 0) /\ v \in Int /\ 0 <= v /\ v < 256 /\ v = IF d < 0 THEN d + 256 ELSE d
  BY <1>3, DifferenceBits, SMT
<1> HIDE DEF diff, v, c
<1>5. PICK borrow \in 0 .. 1 : borrow = IF d < 0 THEN 1 ELSE 0
  BY SMT
<1>6. v = lhs - rhs - carry + 256 * borrow
  BY <1>3, <1>4, <1>5, SMT DEF d
<1>7. h = (Rem(lhs, 16) - Rem(rhs, 16) - carry < 0)
  BY <1>4, <1>6, BorrowBit, SMT
<1> HIDE DEF h
<1>8. pv = (TopBit(lhs, 256) # TopBit(rhs, 256) /\ TopBit(lhs, 256) # TopBit(v, 256))
  BY <1>4, ByteBit, SMT DEF TopBit
<1> HIDE DEF pv
<1>9. /\ out.value = v /\ out.f.s = (v >= 128) /\ out.f.z = (v = 0)
      /\ out.f.n = TRUE /\ out.f.h = h /\ out.f.pv = pv /\ out.f.c = c
  BY <1>1, <1>2 DEF Out, FlagsSZ53
<1>10. out.f.s = TopBit(v, 256)
  BY <1>4, <1>9, SMT DEF TopBit
<1>11. v - 256 * CarryIn(out.f) = d
  <2> DEFINE wide == d < 0
  <2>1. c = wide
    BY <1>4
  <2> HIDE DEF wide
  <2>2. CarryIn(out.f) = IF wide THEN 1 ELSE 0
    BY <1>9, <2>1 DEF CarryIn
  <2> QED BY <1>2, <1>3, <1>4, <2>2, SMT DEF wide
<1>12. SubsLimb(out, lhs, rhs, carry, 256)
  BY <1>2, <1>4, <1>9, <1>11, SMT DEF SubsLimb, d
<1>13. DifferenceFlags(out, lhs, rhs, 256)
  BY <1>8, <1>9, <1>10, SMT DEF DifferenceFlags
<1> QED BY <1>7, <1>9, <1>12, <1>13, SMT DEF out

(***************************************************************************)
(* ADD HL: the pair and the carry are the sum.                             *)
(***************************************************************************)
LEMMA Add16Is ==
  ASSUME NEW lhs \in Int, 0 <= lhs, lhs < 65536, NEW rhs \in Int, 0 <= rhs, rhs < 65536, NEW g \in Flags
  PROVE AddsLimb(Add16(lhs, rhs, g), lhs, rhs, 0, 65536)
<1> DEFINE out == Add16(lhs, rhs, g)
           sum == lhs + rhs
           v == Rem(sum, 65536)
           h == BitAt((lhs % 4096) + (rhs % 4096), 4096) = 1
           c == BitAt(sum, 65536) = 1
<1>1. out = Out(v, [g EXCEPT !.h = h, !.n = FALSE, !.c = c])
  BY SMT DEF Add16, Rem
<1>2. h \in BOOLEAN /\ c \in BOOLEAN
  BY SMT
<1>3. sum \in Int /\ 0 <= sum /\ sum <= 131071
  BY SMT
<1> HIDE DEF out, sum, h
<1>4. c = (sum >= 65536) /\ v \in Int /\ 0 <= v /\ v < 65536 /\ v = IF sum >= 65536 THEN sum - 65536 ELSE sum
  BY <1>3, WordSumBits, SMT
<1> HIDE DEF v, c
<1>5. out.value = v /\ out.f.c = c
  <2>1. out.f = [g EXCEPT !.h = h, !.n = FALSE, !.c = c] /\ out.value = v
    BY <1>1 DEF Out
  <2>2. PICK k : k = c
    OBVIOUS
  <2>3. [g EXCEPT !.h = h, !.n = FALSE, !.c = k].c = k
    BY SMT DEF Flags
  <2> QED BY <2>1, <2>2, <2>3
<1>6. v + 65536 * CarryIn(out.f) = sum
  <2> DEFINE wide == sum >= 65536
  <2>1. c = wide
    BY <1>4
  <2> HIDE DEF wide
  <2>2. CarryIn(out.f) = IF wide THEN 1 ELSE 0
    BY <1>5, <2>1 DEF CarryIn
  <2> QED BY <1>2, <1>3, <1>4, <2>2, SMT DEF wide
<1>7. AddsLimb(out, lhs, rhs, 0, 65536)
  BY <1>2, <1>4, <1>5, <1>6, SMT DEF AddsLimb, sum
<1> QED BY <1>7, SMT DEF out

(***************************************************************************)
(* ADC HL: as ADC, on a pair.                                              *)
(***************************************************************************)
LEMMA Add16CarryIs ==
  ASSUME NEW lhs \in Int, 0 <= lhs, lhs < 65536, NEW rhs \in Int, 0 <= rhs, rhs < 65536, NEW carry \in 0 .. 1
  PROVE LET out == Add16Carry(lhs, rhs, carry)
        IN AddsLimb(out, lhs, rhs, carry, 65536) /\ SumFlags(out, lhs, rhs, 65536)
<1> DEFINE out == Add16Carry(lhs, rhs, carry)
           sum == lhs + rhs + carry
           v == Rem(sum, 65536)
           c == BitAt(sum, 65536) = 1
           s == BitAt(v, 32768) = 1
           pv == BitAt(lhs, 32768) = BitAt(rhs, 32768) /\ BitAt(lhs, 32768) # BitAt(v, 32768)
<1>1. out.value = v /\ out.f.c = c /\ out.f.z = (v = 0) /\ out.f.s = s /\ out.f.pv = pv
  BY SMT DEF Add16Carry, Out, Rem
<1>2. sum \in Int /\ 0 <= sum /\ sum <= 131071
  BY SMT
<1> HIDE DEF out, sum
<1>3. c = (sum >= 65536) /\ v \in Int /\ 0 <= v /\ v < 65536 /\ v = IF sum >= 65536 THEN sum - 65536 ELSE sum
  BY <1>2, WordSumBits, SMT
<1>4. c \in BOOLEAN
  BY SMT
<1> HIDE DEF v, c
<1>5. s = TopBit(v, 65536) /\ pv = (TopBit(lhs, 65536) = TopBit(rhs, 65536) /\ TopBit(lhs, 65536) # TopBit(v, 65536))
  BY <1>3, WordBit, SMT DEF TopBit
<1> HIDE DEF s, pv
<1>6. v + 65536 * CarryIn(out.f) = sum
  <2> DEFINE wide == sum >= 65536
  <2>1. c = wide
    BY <1>3
  <2> HIDE DEF wide
  <2>2. CarryIn(out.f) = IF wide THEN 1 ELSE 0
    BY <1>1, <2>1 DEF CarryIn
  <2> QED BY <1>2, <1>3, <1>4, <2>2, SMT DEF wide
<1>7. AddsLimb(out, lhs, rhs, carry, 65536)
  BY <1>1, <1>3, <1>4, <1>6, SMT DEF AddsLimb, sum
<1>8. SumFlags(out, lhs, rhs, 65536)
  BY <1>1, <1>5, SMT DEF SumFlags
<1> QED BY <1>7, <1>8, SMT DEF out

(***************************************************************************)
(* SBC HL: as SBC, on a pair.                                              *)
(***************************************************************************)
LEMMA Sub16CarryIs ==
  ASSUME NEW lhs \in Int, 0 <= lhs, lhs < 65536, NEW rhs \in Int, 0 <= rhs, rhs < 65536, NEW carry \in 0 .. 1
  PROVE LET out == Sub16Carry(lhs, rhs, carry)
        IN SubsLimb(out, lhs, rhs, carry, 65536) /\ DifferenceFlags(out, lhs, rhs, 65536)
<1> DEFINE out == Sub16Carry(lhs, rhs, carry)
           d == lhs - rhs - carry
           v == Rem(d, 65536)
           c == d < 0
           s == BitAt(v, 32768) = 1
           pv == BitAt(lhs, 32768) # BitAt(rhs, 32768) /\ BitAt(lhs, 32768) # BitAt(v, 32768)
<1>1. out.value = v /\ out.f.c = c /\ out.f.z = (v = 0) /\ out.f.s = s /\ out.f.pv = pv
  BY SMT DEF Sub16Carry, Out, Rem
<1>2. d \in Int /\ -65536 <= d /\ d <= 65535
  BY SMT
<1> HIDE DEF out, d
<1>3. v \in Int /\ 0 <= v /\ v < 65536 /\ v = IF d < 0 THEN d + 65536 ELSE d
  BY <1>2, WordDifferenceBits, SMT
<1>8. c = (d < 0) /\ c \in BOOLEAN
  BY <1>2, SMT
<1> HIDE DEF v, c
<1>4. s = TopBit(v, 65536) /\ pv = (TopBit(lhs, 65536) # TopBit(rhs, 65536) /\ TopBit(lhs, 65536) # TopBit(v, 65536))
  BY <1>3, WordBit, SMT DEF TopBit
<1> HIDE DEF s, pv
<1>5. v - 65536 * CarryIn(out.f) = d
  <2> DEFINE wide == d < 0
  <2>1. c = wide
    BY <1>8
  <2> HIDE DEF wide
  <2>2. CarryIn(out.f) = IF wide THEN 1 ELSE 0
    BY <1>1, <2>1 DEF CarryIn
  <2> QED BY <1>2, <1>3, <1>8, <2>2, SMT DEF wide
<1>6. SubsLimb(out, lhs, rhs, carry, 65536)
  BY <1>1, <1>3, <1>5, <1>8, SMT DEF SubsLimb, d
<1>7. DifferenceFlags(out, lhs, rhs, 65536)
  BY <1>1, <1>4, SMT DEF DifferenceFlags
<1> QED BY <1>6, <1>7, SMT DEF out

(***************************************************************************)
(* DAA with its two corrections named.                                     *)
(***************************************************************************)
LEMMA DaaFields ==
  ASSUME NEW v \in Int, NEW g, NEW low, low = (IF g.h \/ (~g.n /\ Rem(v, 16) > 9) THEN 6 ELSE 0),
         NEW high, high = (IF g.c \/ (~g.n /\ v > 153) THEN 96 ELSE 0)
  PROVE /\ Daa(v, g).value = IF g.n THEN Rem(v - low - high, 256) ELSE Rem(v + low + high, 256)
        /\ Daa(v, g).f.c = (high = 96)
<1> DEFINE r == IF g.n THEN Rem(v - low - high, 256) ELSE Rem(v + low + high, 256)
           c == high = 96
           h == low = 6
<1>1. Daa(v, g) = Out(r, [FlagsSZP53(r) EXCEPT !.n = g.n, !.h = h, !.c = c])
  BY SMT DEF Daa, Rem
<1>2. c \in BOOLEAN
  OBVIOUS
<1> HIDE DEF r, c, h
<1>3. Daa(v, g).value = r /\ Daa(v, g).f.c = c
  <2>1. Daa(v, g).value = r /\ Daa(v, g).f = [FlagsSZP53(r) EXCEPT !.n = g.n, !.h = h, !.c = c]
    BY <1>1 DEF Out
  <2>2. "c" \in DOMAIN FlagsSZP53(r)
    BY DEF FlagsSZP53, FlagsSZ53
  <2>3. [FlagsSZP53(r) EXCEPT !.n = g.n, !.h = h, !.c = c].c = c
    BY <2>2
  <2> QED BY <2>1, <2>3
<1> QED BY <1>3 DEF r, c

(***************************************************************************)
(* A number of two hexadecimal digits is taken apart into them.            *)
(***************************************************************************)
LEMMA Split ==
  ASSUME NEW t \in Int, NEW u \in Int, 0 <= u, u < 16, NEW v \in Int, v = 16 * t + u
  PROVE Rem(v, 16) = u /\ v \div 16 = t
<1>1. Rem(v, 16) = u
  BY SMT DEF Rem
<1>2. v \div 16 = t
  BY SMT
<1> QED BY <1>1, <1>2

(***************************************************************************)
(* Two decimal digits make a number of Bcd, and its decimal value.         *)
(***************************************************************************)
LEMMA BcdIs ==
  ASSUME NEW t \in Int, 0 <= t, t < 10, NEW u \in Int, 0 <= u, u < 10, NEW v \in Int, v = 16 * t + u
  PROVE v \in Bcd /\ Decimal(v) = 10 * t + u /\ Rem(v, 16) = u
<1>1. v \in Bcd
  BY SMT DEF Bcd
<1>2. Rem(v, 16) = u /\ v \div 16 = t
  BY Split
<1> QED BY <1>1, <1>2 DEF Decimal, Rem

(***************************************************************************)
(* A number of Bcd has two decimal digits.                                 *)
(***************************************************************************)
LEMMA BcdHas ==
  ASSUME NEW v \in Bcd
  PROVE \E t \in Int, u \in Int :
          /\ 0 <= t /\ t < 10 /\ 0 <= u /\ u < 10 /\ v = 16 * t + u
          /\ Decimal(v) = 10 * t + u /\ Rem(v, 16) = u
<1>1. PICK t \in 0 .. 9, u \in 0 .. 9 : v = 16 * t + u
  BY DEF Bcd
<1>2. t \in Int /\ u \in Int /\ 0 <= t /\ t < 10 /\ 0 <= u /\ u < 10 /\ v \in Int
  BY <1>1
<1> QED BY <1>1, <1>2, BcdIs

(***************************************************************************)
(* RL, SLA and SLL double a byte, add the bit that comes in and carry the  *)
(* one that leaves.                                                        *)
(***************************************************************************)
LEMMA RotateLeft ==
  ASSUME NEW v \in Int, 0 <= v, v < 256, NEW g, NEW y \in {2, 4, 6},
         NEW in \in 0 .. 1, y = 2 => in = CarryIn(g), y = 4 => in = 0, y = 6 => in = 1
  PROVE AddsLimb(RotateCB(v, y, g), v, v, in, 256)
<1> DEFINE out == RotateCB(v, y, g)
           bit == BitAt(v, 128)
           r == Rem(2 * v, 256) + in
           c == bit = 1
<1>1. out.value = r /\ out.f.c = c
  <2>1. out = Out(r, [FlagsSZP53(r) EXCEPT !.c = c])
    <3>1. CASE y = 2
      BY <3>1, SMT DEF RotateCB, Rem
    <3>2. CASE y = 4
      BY <3>2, SMT DEF RotateCB, Rem
    <3>3. CASE y = 6
      BY <3>3, SMT DEF RotateCB, Rem
    <3> QED BY <3>1, <3>2, <3>3
  <2> HIDE DEF out, r, c
  <2>2. out.value = r /\ out.f = [FlagsSZP53(r) EXCEPT !.c = c]
    BY <2>1 DEF Out
  <2>3. "c" \in DOMAIN FlagsSZP53(r)
    BY DEF FlagsSZP53, FlagsSZ53
  <2>4. [FlagsSZP53(r) EXCEPT !.c = c].c = c
    BY <2>3
  <2> QED BY <2>2, <2>4
<1> HIDE DEF out
<1>2. bit = IF v >= 128 THEN 1 ELSE 0
  BY SMT DEF BitAt
<1>3. Rem(2 * v, 256) = IF v >= 128 THEN 2 * v - 256 ELSE 2 * v
  BY SMT DEF Rem
<1>4. c = (v >= 128)
  BY <1>2, SMT
<1>5. c \in BOOLEAN
  OBVIOUS
<1> HIDE DEF c
<1>6. r \in Int /\ 0 <= r /\ r < 256 /\ r = (IF v >= 128 THEN 2 * v - 256 ELSE 2 * v) + in
  BY <1>3, SMT
<1> HIDE DEF r
<1>7. r + 256 * CarryIn(out.f) = 2 * v + in
  <2> DEFINE wide == v >= 128
  <2>1. c = wide
    BY <1>4
  <2> HIDE DEF wide
  <2>2. CarryIn(out.f) = IF wide THEN 1 ELSE 0
    BY <1>1, <2>1 DEF CarryIn
  <2> QED BY <1>6, <2>2, SMT DEF wide
<1> QED BY <1>1, <1>5, <1>6, <1>7 DEF out, AddsLimb

(***************************************************************************)
(* RR, SRA and SRL halve a byte, with the bit that comes in on top, and    *)
(* carry the remainder.                                                    *)
(***************************************************************************)
LEMMA RotateRight ==
  ASSUME NEW v \in Int, 0 <= v, v < 256, NEW g, NEW y \in {3, 5, 7},
         NEW in \in 0 .. 1,
         y = 3 => in = CarryIn(g), y = 5 => in = IF TopBit(v, 256) THEN 1 ELSE 0, y = 7 => in = 0
  PROVE HalvesLimb(RotateCB(v, y, g), v, in)
<1> DEFINE out == RotateCB(v, y, g)
           bit == BitAt(v, 1)
           half == v \div 2
           r == half + 128 * in
           c == bit = 1
<1>0. BitAt(v, 128) = IF TopBit(v, 256) THEN 1 ELSE 0
  BY ByteBit
<1>1. out.value = r /\ out.f.c = c
  <2>1. out = Out(r, [FlagsSZP53(r) EXCEPT !.c = c])
    <3>1. CASE y = 3
      BY <3>1, SMT DEF RotateCB
    <3>2. CASE y = 5
      BY <1>0, <3>2, SMT DEF RotateCB
    <3>3. CASE y = 7
      BY <3>3, SMT DEF RotateCB
    <3> QED BY <3>1, <3>2, <3>3
  <2> HIDE DEF out, r, c
  <2>2. out.value = r /\ out.f = [FlagsSZP53(r) EXCEPT !.c = c]
    BY <2>1 DEF Out
  <2>3. "c" \in DOMAIN FlagsSZP53(r)
    BY DEF FlagsSZP53, FlagsSZ53
  <2>4. [FlagsSZP53(r) EXCEPT !.c = c].c = c
    BY <2>3
  <2> QED BY <2>2, <2>4
<1> HIDE DEF out
<1>2. half \in Int /\ bit \in 0 .. 1 /\ v = 2 * half + bit
  BY SMT DEF BitAt
<1>5. c \in BOOLEAN
  OBVIOUS
<1> HIDE DEF half, bit
<1>6. r \in Int /\ 0 <= r /\ r < 256 /\ 2 * r + bit = v + 256 * in
  BY <1>2, SMT
<1> HIDE DEF r
<1>7. CarryIn(out.f) = bit
  <2>1. CarryIn(out.f) = IF c THEN 1 ELSE 0
    BY <1>1 DEF CarryIn
  <2> QED BY <1>2, <2>1 DEF c
<1> QED BY <1>1, <1>5, <1>6, <1>7 DEF out, HalvesLimb

(***************************************************************************)
(* INC wraps at 256, and then and only then sets Z.                        *)
(***************************************************************************)
LEMMA Inc8Is ==
  ASSUME NEW v \in Int, 0 <= v, v < 256, NEW g
  PROVE LET out == Inc8(v, g)
        IN /\ out.value \in Int /\ 0 <= out.value /\ out.value < 256
           /\ out.f.z \in BOOLEAN
           /\ out.value + 256 * (IF out.f.z THEN 1 ELSE 0) = v + 1
<1> DEFINE out == Inc8(v, g)
           r == Rem(v + 1, 256)
           zero == r = 0
<1>1. out.value = r /\ out.f.z = zero
  <2> DEFINE h == v % 16 = 15
             pv == v = 127
  <2>1. out = Out(r, [FlagsSZ53(r) EXCEPT !.h = h, !.pv = pv, !.c = g.c])
    BY SMT DEF Inc8, Rem
  <2> HIDE DEF h, pv, out, r
  <2> QED BY <2>1 DEF Out, FlagsSZ53
<1>2. r = IF v = 255 THEN 0 ELSE v + 1
  BY SMT DEF Rem
<1> HIDE DEF out, r
<1>3. r \in Int /\ 0 <= r /\ r < 256 /\ zero \in BOOLEAN
  BY <1>2, SMT
<1>4. zero = (v = 255)
  BY <1>2, SMT
<1>5. r + 256 * (IF zero THEN 1 ELSE 0) = v + 1
  BY <1>2, SMT
<1> QED BY <1>1, <1>3, <1>5 DEF out

(***************************************************************************)
(* DEC of a count of 1 to 256, kept in a byte, sets Z at 1 and leaves the  *)
(* carry alone.                                                            *)
(***************************************************************************)
LEMMA Dec8Is ==
  ASSUME NEW v \in Int, 0 < v, v <= 256, NEW g
  PROVE Dec8(v, g).f.c = g.c /\ Dec8(v, g).f.z = (v = 1)
<1> DEFINE out == Dec8(v, g)
           r == Rem(v - 1, 256)
           zero == r = 0
<1>1. out.f.c = g.c /\ out.f.z = zero
  <2> DEFINE h == v % 16 = 0
             pv == v = 128
  <2>1. out = Out(r, [FlagsSZ53(r) EXCEPT !.n = TRUE, !.h = h, !.pv = pv, !.c = g.c])
    BY SMT DEF Dec8, Rem
  <2> HIDE DEF h, pv, out, r
  <2> QED BY <2>1 DEF Out, FlagsSZ53
<1>2. r = v - 1
  BY SMT DEF Rem
<1>3. zero = (v = 1)
  BY <1>2, SMT
<1> QED BY <1>1, <1>3

(***************************************************************************)
(* What DAA reads of an addition.                                          *)
(***************************************************************************)
LEMMA Add8Half ==
  ASSUME NEW lhs \in Int, 0 <= lhs, lhs < 256, NEW rhs \in Int, 0 <= rhs, rhs < 256,
         NEW carry \in 0 .. 1
  PROVE /\ Add8(lhs, rhs, carry).f.h <=> Rem(lhs, 16) + Rem(rhs, 16) + carry >= 16
        /\ ~Add8(lhs, rhs, carry).f.n
<1>1. Add8(lhs, rhs, carry).f.h = (Rem(lhs, 16) + Rem(rhs, 16) + carry >= 16)
  BY Add8Is
<1>2. Add8(lhs, rhs, carry).f.n = FALSE
  BY Add8Is
<1> QED BY <1>1, <1>2

(***************************************************************************)
(* What DAA reads of a subtraction, and its Z.                             *)
(***************************************************************************)
LEMMA Sub8Half ==
  ASSUME NEW lhs \in Int, 0 <= lhs, lhs < 256, NEW rhs \in Int, 0 <= rhs, rhs < 256,
         NEW carry \in 0 .. 1
  PROVE /\ Sub8(lhs, rhs, carry).f.h <=> Rem(lhs, 16) - Rem(rhs, 16) - carry < 0
        /\ Sub8(lhs, rhs, carry).f.n
        /\ Sub8(lhs, rhs, carry).f.z <=> Sub8(lhs, rhs, carry).value = 0
        /\ ZeroKnown(Sub8(lhs, rhs, carry).f)
<1>1. Sub8(lhs, rhs, carry).f.h = (Rem(lhs, 16) - Rem(rhs, 16) - carry < 0)
  BY Sub8Is
<1>2. Sub8(lhs, rhs, carry).f.n = TRUE
  BY Sub8Is
<1>3. Sub8(lhs, rhs, carry).f.z = (Sub8(lhs, rhs, carry).value = 0)
  BY Sub8Is
<1>4. ZeroKnown(Sub8(lhs, rhs, carry).f)
  BY <1>3 DEF ZeroKnown
<1> QED BY <1>1, <1>2, <1>3, <1>4

(***************************************************************************)
(* ADD or ADC of two decimal bytes and DAA: a decimal byte again, and a    *)
(* carry out of the two digits.                                            *)
(***************************************************************************)
LEMMA BcdAdd ==
  ASSUME NEW lhs \in Bcd, NEW rhs \in Bcd, NEW carry \in 0 .. 1
  PROVE LET r == Add8(lhs, rhs, carry)
            digits == Daa(r.value, r.f)
        IN /\ digits.value \in Bcd /\ digits.f.c \in BOOLEAN
           /\ Decimal(digits.value) + 100 * CarryIn(digits.f) = Decimal(lhs) + Decimal(rhs) + carry
<1> DEFINE r == Add8(lhs, rhs, carry)
           digits == Daa(r.value, r.f)
<1>1. PICK a \in Int, b \in Int :
        /\ 0 <= a /\ a < 10 /\ 0 <= b /\ b < 10 /\ lhs = 16 * a + b
        /\ Decimal(lhs) = 10 * a + b /\ Rem(lhs, 16) = b
  BY BcdHas
<1>2. PICK c \in Int, d \in Int :
        /\ 0 <= c /\ c < 10 /\ 0 <= d /\ d < 10 /\ rhs = 16 * c + d
        /\ Decimal(rhs) = 10 * c + d /\ Rem(rhs, 16) = d
  BY BcdHas
<1>3. lhs \in Int /\ 0 <= lhs /\ lhs < 256 /\ rhs \in Int /\ 0 <= rhs /\ rhs < 256
  BY <1>1, <1>2
<1>4. /\ AddsLimb(r, lhs, rhs, carry, 256)
      /\ r.f.h <=> Rem(lhs, 16) + Rem(rhs, 16) + carry >= 16
      /\ ~r.f.n
  <2>1. AddsLimb(r, lhs, rhs, carry, 256)
    BY <1>3, Add8Is
  <2>2. (r.f.h <=> Rem(lhs, 16) + Rem(rhs, 16) + carry >= 16) /\ ~r.f.n
    BY <1>3, Add8Half
  <2> QED BY <2>1, <2>2
<1> HIDE DEF r
<1>5. PICK v \in Int, over \in 0 .. 1 :
        /\ v = r.value /\ 0 <= v /\ v < 256 /\ over = CarryIn(r.f) /\ (r.f.c <=> over = 1)
        /\ v + 256 * over = 16 * (a + c) + b + d + carry
  BY <1>1, <1>2, <1>4 DEF AddsLimb, CarryIn
<1>6. PICK m \in Int : m = b + d + carry
  BY <1>1, <1>2
<1>7. 0 <= m /\ m < 20 /\ v + 256 * over = 16 * (a + c) + m /\ 0 <= a + c /\ a + c < 19
  BY <1>1, <1>2, <1>5, <1>6
<1>8. Rem(v, 16) = IF m >= 16 THEN m - 16 ELSE m
  <2>1. CASE m >= 16
    <3>1. PICK t \in Int, u \in Int : t = a + c + 1 - 16 * over /\ u = m - 16
      BY <1>1, <1>2, <1>5
    <3>2. 0 <= u /\ u < 16 /\ v = 16 * t + u
      BY <1>7, <2>1, <3>1
    <3>3. Rem(v, 16) = u
      BY <3>2, SMT DEF Rem
    <3> QED BY <2>1, <3>1, <3>3
  <2>2. CASE m < 16
    <3>1. PICK t \in Int, u \in Int : t = a + c - 16 * over /\ u = m
      BY <1>1, <1>2, <1>5
    <3>2. 0 <= u /\ u < 16 /\ v = 16 * t + u
      BY <1>7, <2>2, <3>1
    <3>3. Rem(v, 16) = u
      BY <3>2, SMT DEF Rem
    <3> QED BY <2>2, <3>1, <3>3
  <2> QED BY <2>1, <2>2
<1>9. PICK low \in Int : low = IF r.f.h \/ (~r.f.n /\ Rem(v, 16) > 9) THEN 6 ELSE 0
  OBVIOUS
<1>10. low = IF m >= 10 THEN 6 ELSE 0
  <2>1. (r.f.h <=> m >= 16) /\ ~r.f.n
    BY <1>1, <1>2, <1>4, <1>6
  <2>2. CASE m >= 16
    BY <1>9, <2>1, <2>2
  <2>3. CASE m < 16
    <3>1. Rem(v, 16) = m /\ ~r.f.h
      BY <1>8, <2>1, <2>3
    <3> QED BY <1>9, <2>1, <2>3, <3>1
  <2> QED BY <2>2, <2>3
<1>11. PICK high \in Int : high = IF r.f.c \/ (~r.f.n /\ v > 153) THEN 96 ELSE 0
  OBVIOUS
<1>12. PICK t \in 0 .. 1 : t = IF m >= 10 THEN 1 ELSE 0
  OBVIOUS
<1>13. PICK u \in 0 .. 1 : u = IF a + c + t >= 10 THEN 1 ELSE 0
  OBVIOUS
<1>14. high = 96 * u
  <2>0. PICK s \in Int : s = a + c /\ 0 <= s /\ s < 19 /\ v + 256 * over = 16 * s + m
    BY <1>7
  <2>1. (over = 1 \/ v > 153) <=> a + c + t >= 10
    <3>1. CASE m >= 10
      BY <1>5, <1>7, <1>12, <2>0, <3>1
    <3>2. CASE m < 10
      BY <1>5, <1>7, <1>12, <2>0, <3>2
    <3> QED BY <3>1, <3>2
  <2>2. high = IF over = 1 \/ v > 153 THEN 96 ELSE 0
    BY <1>4, <1>5, <1>11
  <2> QED BY <1>13, <2>1, <2>2
<1>15. /\ digits.value = Rem(v + low + high, 256)
       /\ digits.f.c = (high = 96)
  BY <1>4, <1>5, <1>9, <1>11, DaaFields
<1>16. PICK e \in Int, g \in Int : e = a + c + t - 10 * u /\ g = m - 10 * t
  BY <1>1, <1>2
<1>17. 0 <= e /\ e < 10 /\ 0 <= g /\ g < 10
  BY <1>7, <1>12, <1>13, <1>16
<1>18. v + low + high = 16 * e + g + 256 * (u - over) /\ low = 6 * t
  BY <1>7, <1>10, <1>12, <1>14, <1>16
<1>19. v + low + high = 16 * e + g \/ v + low + high = 16 * e + g + 256
  <2>1. over <= u
    <3>1. CASE over = 1
      <4>0. PICK s \in Int : s = a + c /\ v + 256 = 16 * s + m
        BY <1>7, <3>1
      <4>1. a + c >= 15
        BY <1>5, <1>7, <4>0
      <4>2. a + c + t >= 10
        BY <1>7, <4>1
      <4> QED BY <1>13, <3>1, <4>2
    <3>2. CASE over = 0
      BY <3>2
    <3> QED BY <3>1, <3>2
  <2> QED BY <1>18, <2>1
<1>20. PICK w \in Int : w = 16 * e + g
  OBVIOUS
<1>21. PICK x \in Int : x = v + low + high
  OBVIOUS
<1>22. 0 <= w /\ w < 160 /\ (x = w \/ x = w + 256)
  BY <1>17, <1>19, <1>20, <1>21
<1>23. Rem(x, 256) = w
  BY <1>22, SMT DEF Rem
<1>24. digits.value = w
  BY <1>15, <1>21, <1>23
<1>25. w \in Bcd /\ Decimal(w) = 10 * e + g
  BY <1>17, <1>20, BcdIs
<1>26. digits.f.c \in BOOLEAN /\ CarryIn(digits.f) = u
  <2>1. (high = 96) <=> u = 1
    BY <1>14
  <2>2. digits.f.c <=> u = 1
    BY <1>15, <2>1
  <2>3. digits.f.c \in BOOLEAN
    BY <1>15
  <2>4. CarryIn(digits.f) = IF u = 1 THEN 1 ELSE 0
    BY <2>2 DEF CarryIn
  <2> QED BY <2>3, <2>4
<1>27. Decimal(w) + 100 * u = Decimal(lhs) + Decimal(rhs) + carry
  BY <1>1, <1>2, <1>6, <1>16, <1>25
<1> HIDE DEF digits
<1>28. /\ digits.value \in Bcd /\ digits.f.c \in BOOLEAN
       /\ Decimal(digits.value) + 100 * CarryIn(digits.f) = Decimal(lhs) + Decimal(rhs) + carry
  BY <1>24, <1>25, <1>26, <1>27
<1> QED BY <1>28 DEF digits, r

(***************************************************************************)
(* SUB or SBC of two decimal bytes and DAA likewise, with a borrow.        *)
(***************************************************************************)
LEMMA BcdSub ==
  ASSUME NEW lhs \in Bcd, NEW rhs \in Bcd, NEW carry \in 0 .. 1
  PROVE LET r == Sub8(lhs, rhs, carry)
            digits == Daa(r.value, r.f)
        IN /\ digits.value \in Bcd /\ digits.f.c \in BOOLEAN
           /\ Decimal(digits.value) - 100 * CarryIn(digits.f) = Decimal(lhs) - Decimal(rhs) - carry
<1> DEFINE r == Sub8(lhs, rhs, carry)
           digits == Daa(r.value, r.f)
<1>1. PICK a \in Int, b \in Int :
        /\ 0 <= a /\ a < 10 /\ 0 <= b /\ b < 10 /\ lhs = 16 * a + b
        /\ Decimal(lhs) = 10 * a + b /\ Rem(lhs, 16) = b
  BY BcdHas
<1>2. PICK c \in Int, d \in Int :
        /\ 0 <= c /\ c < 10 /\ 0 <= d /\ d < 10 /\ rhs = 16 * c + d
        /\ Decimal(rhs) = 10 * c + d /\ Rem(rhs, 16) = d
  BY BcdHas
<1>3. lhs \in Int /\ 0 <= lhs /\ lhs < 256 /\ rhs \in Int /\ 0 <= rhs /\ rhs < 256
  BY <1>1, <1>2
<1>4. /\ SubsLimb(r, lhs, rhs, carry, 256)
      /\ r.f.h <=> Rem(lhs, 16) - Rem(rhs, 16) - carry < 0
      /\ r.f.n
  <2>1. SubsLimb(r, lhs, rhs, carry, 256)
    BY <1>3, Sub8Is
  <2>2. (r.f.h <=> Rem(lhs, 16) - Rem(rhs, 16) - carry < 0) /\ r.f.n
    BY <1>3, Sub8Half
  <2> QED BY <2>1, <2>2
<1> HIDE DEF r
<1>5. PICK v \in Int, over \in 0 .. 1 :
        /\ v = r.value /\ 0 <= v /\ v < 256 /\ over = CarryIn(r.f) /\ (r.f.c <=> over = 1)
        /\ v - 256 * over = 16 * (a - c) + b - d - carry
  BY <1>1, <1>2, <1>4 DEF SubsLimb, CarryIn
<1>6. PICK m \in Int : m = b - d - carry
  BY <1>1, <1>2
<1>7. -11 < m /\ m < 10 /\ v - 256 * over = 16 * (a - c) + m /\ -10 < a - c /\ a - c < 10
  BY <1>1, <1>2, <1>5, <1>6
<1>9. PICK low \in Int : low = IF r.f.h \/ (~r.f.n /\ Rem(v, 16) > 9) THEN 6 ELSE 0
  OBVIOUS
<1>10. low = IF m < 0 THEN 6 ELSE 0
  <2>1. (r.f.h <=> m < 0) /\ r.f.n
    BY <1>1, <1>2, <1>4, <1>6
  <2>2. CASE m < 0
    BY <1>9, <2>1, <2>2
  <2>3. CASE m >= 0
    BY <1>9, <2>1, <2>3
  <2> QED BY <2>2, <2>3
<1>11. PICK high \in Int : high = IF r.f.c \/ (~r.f.n /\ v > 153) THEN 96 ELSE 0
  OBVIOUS
<1>12. PICK t \in 0 .. 1 : t = IF m < 0 THEN 1 ELSE 0
  OBVIOUS
<1>13. high = 96 * over
  <2>1. high = IF over = 1 THEN 96 ELSE 0
    BY <1>4, <1>5, <1>11
  <2> QED BY <2>1
<1>14. /\ over = 1 => a - c - t < 0
       /\ over = 0 => a - c - t >= 0
  <2>0. PICK s \in Int : s = a - c /\ -10 < s /\ s < 10 /\ v - 256 * over = 16 * s + m
    BY <1>7
  <2>1. CASE m < 0
    BY <1>5, <1>7, <1>12, <2>0, <2>1
  <2>2. CASE m >= 0
    BY <1>5, <1>7, <1>12, <2>0, <2>2
  <2> QED BY <2>1, <2>2
<1>15. /\ digits.value = Rem(v - low - high, 256)
       /\ digits.f.c = (high = 96)
  <2>1. digits.value = IF r.f.n THEN Rem(v - low - high, 256) ELSE Rem(v + low + high, 256)
    BY <1>5, <1>9, <1>11, DaaFields
  <2>2. digits.f.c = (high = 96)
    BY <1>5, <1>9, <1>11, DaaFields
  <2> QED BY <1>4, <2>1, <2>2
<1>16. PICK e \in Int, g \in Int : e = a - c - t + 10 * over /\ g = m + 10 * t
  BY <1>1, <1>2
<1>17. 0 <= e /\ e < 10 /\ 0 <= g /\ g < 10
  BY <1>7, <1>12, <1>14, <1>16
<1>18. low = 6 * t
  BY <1>10, <1>12
<1>20. PICK w \in Int : w = 16 * e + g
  OBVIOUS
<1>21. PICK x \in Int : x = v - low - high
  OBVIOUS
<1>19. x = w
  BY <1>7, <1>13, <1>16, <1>18, <1>20, <1>21
<1>22. 0 <= w /\ w < 160
  BY <1>17, <1>20
<1>23. Rem(x, 256) = w
  BY <1>19, <1>22, SMT DEF Rem
<1>24. digits.value = w
  BY <1>15, <1>21, <1>23
<1>25. w \in Bcd /\ Decimal(w) = 10 * e + g
  BY <1>17, <1>20, BcdIs
<1>26. digits.f.c \in BOOLEAN /\ CarryIn(digits.f) = over
  <2>1. (high = 96) <=> over = 1
    BY <1>13
  <2>2. digits.f.c <=> over = 1
    BY <1>15, <2>1
  <2>3. digits.f.c \in BOOLEAN
    BY <1>15
  <2>4. CarryIn(digits.f) = IF over = 1 THEN 1 ELSE 0
    BY <2>2 DEF CarryIn
  <2> QED BY <2>3, <2>4
<1>27. Decimal(w) - 100 * over = Decimal(lhs) - Decimal(rhs) - carry
  BY <1>1, <1>2, <1>6, <1>16, <1>25
<1> HIDE DEF digits
<1>28. /\ digits.value \in Bcd /\ digits.f.c \in BOOLEAN
       /\ Decimal(digits.value) - 100 * CarryIn(digits.f) = Decimal(lhs) - Decimal(rhs) - carry
  BY <1>24, <1>25, <1>26, <1>27
<1> QED BY <1>28 DEF digits, r

(***************************************************************************)
(* The numbers of a program of kind k.                                     *)
(***************************************************************************)
Paired == {"addHigh", "addLow", "subHigh", "subLow"}
Size(k) == IF k \in Paired THEN 2 ELSE Limbs
W(k) == Weights(Radix(k))

Digit(k, b) == IF k \in Decimally THEN Decimal(b) ELSE b
Fits(k, i, b) == IF k \in Decimally THEN b \in Bcd ELSE b \in Nat /\ b < Radix(k)[i]

(***************************************************************************)
(* A number of kind k: a limb at every place, each in the range of its     *)
(* place.                                                                  *)
(***************************************************************************)
Limbed(k, x) ==
  /\ x \in [1 .. Size(k) -> Nat] /\ Len(x) = Size(k)
  /\ \A i \in 1 .. Size(k) : Fits(k, i, x[i])

(***************************************************************************)
(* Its digits, and what the lowest i of them make.                         *)
(***************************************************************************)
Numeral(k, x) == IF k \in Decimally THEN [i \in DOMAIN x |-> Decimal(x[i])] ELSE x
Below(k, x, i) == Partial(Numeral(k, x), W(k))[i]

(***************************************************************************)
(* The length of a sequence.                                               *)
(***************************************************************************)
LEMMA LenIs ==
  ASSUME NEW n \in Nat, NEW S, NEW x \in [1 .. n -> S]
  PROVE Len(x) = n
OBVIOUS

(***************************************************************************)
(* A number has no more limbs than B counts.                               *)
(***************************************************************************)
LEMMA LimbsIs == Limbs \in Nat /\ 2 <= Limbs /\ Limbs <= 256
<1>1. Limbs \in 2 .. 256
  BY ArithmeticAssumption, SMT
<1> QED BY <1>1, SMT

(***************************************************************************)
(* How many limbs a program works on: two where they differ in width.      *)
(***************************************************************************)
LEMMA SizeIs == ASSUME NEW k PROVE Size(k) \in Nat /\ 2 <= Size(k) /\ Size(k) <= 256
<1>2. CASE k \in Paired
  BY <1>2, SMT DEF Size
<1>3. CASE k \notin Paired
  BY LimbsIs, <1>3, SMT DEF Size
<1> QED BY <1>2, <1>3

(***************************************************************************)
(* What the limbs of each kind count in.                                   *)
(***************************************************************************)
LEMMA RadixIs ==
  ASSUME NEW k \in Kinds
  PROVE /\ Radix(k) \in [1 .. Size(k) -> Nat \ {0}] /\ Len(Radix(k)) = Size(k)
        /\ k \in Decimally => \A i \in 1 .. Size(k) : Radix(k)[i] = 100
        /\ k \notin Decimally => \A i \in 1 .. Size(k) : Radix(k)[i] \in {256, 65536}
        /\ k \notin Decimally \cup Paired => \A i \in 1 .. Size(k) : Radix(k)[i] = 256
        /\ k \in {"addHigh", "subHigh"} => Radix(k)[1] = 256 /\ Radix(k)[2] = 65536
        /\ k \in {"addLow", "subLow"} => Radix(k)[1] = 65536 /\ Radix(k)[2] = 256
<1> USE DEF Paired
<1>1. CASE k \in {"addHigh", "subHigh"}
  <2>1. Radix(k) = <<256, 65536>> /\ Size(k) = 2 /\ k \notin Decimally
    BY <1>1, SMT DEF Radix, Size, Decimally
  <2>2. <<256, 65536>> \in [1 .. 2 -> Nat \ {0}] /\ Len(<<256, 65536>>) = 2
        /\ <<256, 65536>>[1] = 256 /\ <<256, 65536>>[2] = 65536
    BY SMT
  <2>3. \A i \in 1 .. 2 : i = 1 \/ i = 2
    BY SMT
  <2> QED BY <1>1, <2>1, <2>2, <2>3, SMT
<1>2. CASE k \in {"addLow", "subLow"}
  <2>1. Radix(k) = <<65536, 256>> /\ Size(k) = 2 /\ k \notin Decimally
    BY <1>2, SMT DEF Radix, Size, Decimally
  <2>2. <<65536, 256>> \in [1 .. 2 -> Nat \ {0}] /\ Len(<<65536, 256>>) = 2
        /\ <<65536, 256>>[1] = 65536 /\ <<65536, 256>>[2] = 256
    BY SMT
  <2>3. \A i \in 1 .. 2 : i = 1 \/ i = 2
    BY SMT
  <2> QED BY <1>2, <2>1, <2>2, <2>3, SMT
<1>0. Limbs \in Nat
  BY LimbsIs
<1>3. CASE k \in Decimally
  <2>1. Radix(k) = [i \in 1 .. Limbs |-> 100] /\ Size(k) = Limbs
    BY <1>3, SMT DEF Radix, Size, Decimally
  <2>2. Radix(k) \in [1 .. Limbs -> Nat \ {0}] /\ \A i \in 1 .. Limbs : Radix(k)[i] = 100
    BY <2>1, SMT
  <2>3. Len(Radix(k)) = Limbs
    BY <1>0, <2>2, LenIs
  <2>4. k \notin Paired
    BY <1>3, SMT DEF Decimally
  <2>5. Radix(k) \in [1 .. Size(k) -> Nat \ {0}] /\ Len(Radix(k)) = Size(k)
    BY <2>1, <2>2, <2>3
  <2>6. \A i \in 1 .. Size(k) : Radix(k)[i] = 100
    BY <2>1, <2>2
  <2> HIDE DEF Paired
  <2> QED BY <1>3, <2>4, <2>5, <2>6 DEF Paired
<1>4. CASE k \notin Decimally \cup Paired
  <2>1. Radix(k) = [i \in 1 .. Limbs |-> 256] /\ Size(k) = Limbs
    BY <1>4, SMT DEF Radix, Size
  <2>2. Radix(k) \in [1 .. Limbs -> Nat \ {0}] /\ \A i \in 1 .. Limbs : Radix(k)[i] = 256
    BY <2>1, SMT
  <2>3. Len(Radix(k)) = Limbs
    BY <1>0, <2>2, LenIs
  <2>5. Radix(k) \in [1 .. Size(k) -> Nat \ {0}] /\ Len(Radix(k)) = Size(k)
    BY <2>1, <2>2, <2>3
  <2>6. \A i \in 1 .. Size(k) : Radix(k)[i] = 256 /\ Radix(k)[i] \in {256, 65536}
    BY <2>1, <2>2, SMT
  <2> QED BY <1>4, <2>5, <2>6
<1> QED BY <1>1, <1>2, <1>3, <1>4, SMT

(***************************************************************************)
(* The weights of a kind are on its scale.                                 *)
(***************************************************************************)
LEMMA WeightsAre == ASSUME NEW k \in Kinds PROVE Scale(Size(k), Radix(k), W(k))
<1>1. Size(k) \in Nat /\ Size(k) # 0
  BY SizeIs, SMT
<1>2. Radix(k) \in [1 .. Size(k) -> Nat \ {0}] /\ Len(Radix(k)) = Size(k)
  BY RadixIs
<1>3. /\ W(k) \in [0 .. Size(k) -> Nat \ {0}] /\ W(k)[0] = 1
      /\ \A i \in 1 .. Size(k) : W(k)[i] = Radix(k)[i] * W(k)[i - 1]
  BY <1>1, <1>2, WeightsType DEF W
<1> QED BY <1>1, <1>2, <1>3, SMT DEF Scale

(***************************************************************************)
(* A limb that fits its place is a digit below the radix.                  *)
(***************************************************************************)
LEMMA DigitIs ==
  ASSUME NEW k \in Kinds, NEW i \in 1 .. Size(k), NEW b, Fits(k, i, b)
  PROVE Digit(k, b) \in Nat /\ Digit(k, b) < Radix(k)[i]
<1>1. CASE k \in Decimally
  <2>1. b \in Bcd
    BY <1>1 DEF Fits
  <2>2. PICK t \in Int, u \in Int :
          /\ 0 <= t /\ t < 10 /\ 0 <= u /\ u < 10 /\ Decimal(b) = 10 * t + u
    BY <2>1, BcdHas
  <2>3. Radix(k)[i] = 100
    BY <1>1, RadixIs
  <2> QED BY <1>1, <2>2, <2>3, SMT DEF Digit
<1>2. CASE k \notin Decimally
  BY <1>2 DEF Digit, Fits
<1> QED BY <1>1, <1>2

(***************************************************************************)
(* The digits of a number are on the scale of its kind.                    *)
(***************************************************************************)
LEMMA NumeralIs ==
  ASSUME NEW k \in Kinds, NEW x, Limbed(k, x)
  PROVE /\ OnScale(Numeral(k, x), Size(k), Radix(k))
        /\ \A i \in 1 .. Size(k) : Numeral(k, x)[i] = Digit(k, x[i])
<1>0. \A i \in 1 .. Size(k) : Digit(k, x[i]) \in Nat /\ Digit(k, x[i]) < Radix(k)[i]
  BY DigitIs DEF Limbed
<1>1. CASE k \in Decimally
  <2>1. Numeral(k, x) = [i \in 1 .. Size(k) |-> Digit(k, x[i])]
    BY <1>1 DEF Numeral, Digit, Limbed
  <2>2. Len(Numeral(k, x)) = Size(k)
    BY <1>0, <2>1, SizeIs, LenIs
  <2> QED BY <1>0, <2>1, <2>2 DEF OnScale
<1>2. CASE k \notin Decimally
  BY <1>0, <1>2 DEF Numeral, Digit, Limbed, OnScale
<1> QED BY <1>1, <1>2

(***************************************************************************)
(* What the lowest limbs make, limb by limb: below the weight of the next  *)
(* one.                                                                    *)
(***************************************************************************)
LEMMA BelowIs ==
  ASSUME NEW k \in Kinds, NEW x, Limbed(k, x)
  PROVE /\ Below(k, x, 0) = 0
        /\ \A i \in 0 .. Size(k) : Below(k, x, i) \in Nat /\ Below(k, x, i) < W(k)[i]
        /\ \A i \in 1 .. Size(k) : Below(k, x, i) = Below(k, x, i - 1) + Digit(k, x[i]) * W(k)[i - 1]
<1>1. /\ Scale(Size(k), Radix(k), W(k)) /\ OnScale(Numeral(k, x), Size(k), Radix(k))
      /\ \A i \in 1 .. Size(k) : Numeral(k, x)[i] = Digit(k, x[i])
  BY WeightsAre, NumeralIs
<1> DEFINE sum == Partial(Numeral(k, x), W(k))
<1>2. /\ sum \in [0 .. Size(k) -> Nat] /\ sum[0] = 0
      /\ \A i \in 1 .. Size(k) : sum[i] = sum[i - 1] + Numeral(k, x)[i] * W(k)[i - 1]
      /\ \A i \in 0 .. Size(k) : sum[i] < W(k)[i]
  BY <1>1, PartialIs
<1>3. \A i : Below(k, x, i) = sum[i]
  BY DEF Below
<1> HIDE DEF sum
<1> QED BY <1>1, <1>2, <1>3

(***************************************************************************)
(* A limb replaced changes the number by the difference of the digits at   *)
(* its place.                                                              *)
(***************************************************************************)
LEMMA BelowReplaced ==
  ASSUME NEW k \in Kinds, NEW x, Limbed(k, x), NEW p \in 1 .. Size(k), NEW b, Fits(k, p, b)
  PROVE LET new == [x EXCEPT ![p] = b]
        IN /\ Limbed(k, new)
           /\ Below(k, new, Size(k))
                = Below(k, x, Size(k)) + (Digit(k, b) - Digit(k, x[p])) * W(k)[p - 1]
<1> DEFINE new == [x EXCEPT ![p] = b]
           n == Size(k)
           d == Digit(k, b)
<1>1. b \in Nat
  BY BcdHas DEF Fits
<1>2. new \in [1 .. n -> Nat] /\ new[p] = b /\ \A i \in 1 .. n : i # p => new[i] = x[i]
  BY <1>1 DEF Limbed
<1>3. Limbed(k, new)
  <2>1. Len(new) = n
    BY <1>2, SizeIs, LenIs
  <2>2. \A i \in 1 .. n : Fits(k, i, new[i])
    BY <1>2 DEF Limbed
  <2> QED BY <1>2, <2>1, <2>2 DEF Limbed
<1> HIDE DEF d
<1>4. Scale(n, Radix(k), W(k)) /\ OnScale(Numeral(k, x), n, Radix(k))
  BY WeightsAre, NumeralIs
<1>5. d \in Nat /\ d < Radix(k)[p]
  BY DigitIs DEF d
<1>6. /\ Numeral(k, x)[p] = Digit(k, x[p]) /\ Numeral(k, x) \in [1 .. n -> Nat]
      /\ Numeral(k, new) \in [1 .. n -> Nat]
  BY <1>3, NumeralIs DEF OnScale
<1>7. Numeral(k, new) = [Numeral(k, x) EXCEPT ![p] = d]
  <2>1. \A i \in 1 .. n : Numeral(k, new)[i] = Digit(k, new[i]) /\ Numeral(k, x)[i] = Digit(k, x[i])
    BY <1>3, NumeralIs
  <2> HIDE DEF new, n
  <2>2. \A i \in 1 .. n : Numeral(k, new)[i] = IF i = p THEN d ELSE Numeral(k, x)[i]
    BY <1>2, <2>1 DEF d
  <2> QED BY <1>6, <2>2
<1>8. Partial([Numeral(k, x) EXCEPT ![p] = d], W(k))[n]
        = Partial(Numeral(k, x), W(k))[n] + (d - Numeral(k, x)[p]) * W(k)[p - 1]
  <2> HIDE DEF n
  <2> p \in 1 .. n
    BY DEF n
  <2> QED BY <1>4, <1>5, PartialReplaced
<1>9. Below(k, new, n) = Below(k, x, n) + (d - Digit(k, x[p])) * W(k)[p - 1]
  BY <1>6, <1>7, <1>8 DEF Below
<1> QED BY <1>3, <1>9 DEF d

(***************************************************************************)
(* Numbers that agree from some limb upwards differ by their lower limbs.  *)
(***************************************************************************)
LEMMA BelowAgree ==
  ASSUME NEW k \in Kinds, NEW x, Limbed(k, x), NEW y, Limbed(k, y), NEW p \in 0 .. Size(k),
         \A i \in 1 .. Size(k) : i > p => x[i] = y[i]
  PROVE Below(k, x, Size(k)) - Below(k, y, Size(k)) = Below(k, x, p) - Below(k, y, p)
<1> DEFINE n == Size(k)
           u == Numeral(k, x)
           v == Numeral(k, y)
<1>1. Scale(n, Radix(k), W(k)) /\ OnScale(u, n, Radix(k)) /\ OnScale(v, n, Radix(k)) /\ p \in 0 .. n
  BY WeightsAre, NumeralIs
<1>2. \A i \in 1 .. n : i > p => u[i] = v[i]
  BY NumeralIs
<1> HIDE DEF n, u, v
<1>3. Partial(u, W(k))[n] - Partial(v, W(k))[n] = Partial(u, W(k))[p] - Partial(v, W(k))[p]
  BY <1>1, <1>2, PartialAgree
<1> QED BY <1>3 DEF n, u, v, Below

(***************************************************************************)
(* A limb of a byte is below 256.                                          *)
(***************************************************************************)
LEMMA BytesAre == ASSUME NEW b \in Bytes PROVE b \in Nat /\ b < 256
<1>1. Bytes \subseteq Byte
  BY ArithmeticAssumption, SMT
<1> QED BY <1>1, SMT DEF Byte

(***************************************************************************)
(* A limb of a pair is below 65536.                                        *)
(***************************************************************************)
LEMMA WordsAre == ASSUME NEW w \in Words PROVE w \in Nat /\ w < 65536
<1>1. Words \subseteq Word
  BY ArithmeticAssumption, SMT
<1>2. w \in Word
  BY <1>1
<1> QED BY <1>2, SMT DEF Word

(***************************************************************************)
(* A limb of two decimal digits is one of Bcd.                             *)
(***************************************************************************)
LEMMA DecimalsAre == ASSUME NEW b \in Decimals PROVE b \in Bcd /\ b \in Nat
<1>1. Decimals \subseteq Bcd
  BY ArithmeticAssumption, SMT
<1>2. b \in Bcd
  BY <1>1
<1> QED BY <1>2, BcdHas

(***************************************************************************)
(* The numbers a program starts with have a limb that fits at every place. *)
(***************************************************************************)
LEMMA NumbersAre == ASSUME NEW k \in Kinds, NEW x \in Numbers(k) PROVE Limbed(k, x)
<1>1. \A b \in Bytes : b \in Nat /\ b < 256
  BY BytesAre
<1>2. \A w \in Words : w \in Nat /\ w < 65536
  BY WordsAre
<1>3. CASE k \in {"addHigh", "subHigh"}
  <2>1. x \in Bytes \X Words /\ Size(k) = 2 /\ k \notin Decimally /\ Radix(k)[1] = 256 /\ Radix(k)[2] = 65536
    BY <1>3, RadixIs, SMT DEF Numbers, Size, Paired, Decimally
  <2>2. x[1] \in Bytes /\ x[2] \in Words /\ x \in [1 .. 2 -> Nat] /\ Len(x) = 2
    BY <1>1, <1>2, <2>1, SMT
  <2>3. \A i \in 1 .. 2 : i = 1 \/ i = 2
    BY SMT
  <2> QED BY <1>1, <1>2, <2>1, <2>2, <2>3, SMT DEF Limbed, Fits
<1>4. CASE k \in {"addLow", "subLow"}
  <2>1. x \in Words \X Bytes /\ Size(k) = 2 /\ k \notin Decimally /\ Radix(k)[1] = 65536 /\ Radix(k)[2] = 256
    BY <1>4, RadixIs, SMT DEF Numbers, Size, Paired, Decimally
  <2>2. x[1] \in Words /\ x[2] \in Bytes /\ x \in [1 .. 2 -> Nat] /\ Len(x) = 2
    BY <1>1, <1>2, <2>1, SMT
  <2>3. \A i \in 1 .. 2 : i = 1 \/ i = 2
    BY SMT
  <2> QED BY <1>1, <1>2, <2>1, <2>2, <2>3, SMT DEF Limbed, Fits
<1>5. CASE k \in Decimally
  <2>1. x \in [1 .. Limbs -> Decimals] /\ Size(k) = Limbs
    BY <1>5, SMT DEF Numbers, Size, Paired, Decimally
  <2>2. x \in [1 .. Limbs -> Nat] /\ \A i \in 1 .. Limbs : x[i] \in Bcd
    <3>1. ASSUME NEW i \in 1 .. Limbs PROVE x[i] \in Bcd /\ x[i] \in Nat
      BY <2>1, DecimalsAre
    <3> QED BY <2>1, <3>1
  <2>3. Len(x) = Limbs
    BY LimbsIs, <2>2, LenIs
  <2> QED BY <1>5, <2>1, <2>2, <2>3 DEF Limbed, Fits
<1>6. CASE k \notin Decimally \cup Paired
  <2>1. x \in [1 .. Limbs -> Bytes] /\ Size(k) = Limbs
    BY <1>6, SMT DEF Numbers, Size, Paired
  <2>2. x \in [1 .. Limbs -> Nat] /\ \A i \in 1 .. Limbs : x[i] < 256
    BY <1>1, <2>1, SMT
  <2>3. Len(x) = Limbs
    BY LimbsIs, <2>2, LenIs
  <2>4. \A i \in 1 .. Size(k) : Radix(k)[i] = 256
    BY <1>6, RadixIs
  <2>5. \A i \in 1 .. Size(k) : Fits(k, i, x[i])
    BY <1>6, <2>1, <2>2, <2>4 DEF Fits
  <2> QED BY <2>1, <2>2, <2>3, <2>5 DEF Limbed
<1> QED BY <1>3, <1>4, <1>5, <1>6, SMT DEF Paired

----------------------------------------------------------------------------
Subtracting == Differences \cup {"subBcd"}
Downward == Rightward \cup {"compare"}

\* The limb that comes after done limbs, and whether the i-th is still to come.
Place(k, i) == IF k \in Downward THEN Size(k) - i ELSE i + 1
Pending(k, i, p) == IF k \in Downward THEN p <= Size(k) - i ELSE p > i

(***************************************************************************)
(* What holds of the three numbers and the flags before each step: every   *)
(* limb fits its place, the limbs still to come are those of left, the     *)
(* flags that are read next are flags, and a program does not stop before  *)
(* its first limb.                                                         *)
(***************************************************************************)
Shape(k, l, r, out, i, more, g) ==
  /\ k \in Kinds /\ Limbed(k, l) /\ Limbed(k, r) /\ Limbed(k, out)
  /\ i \in 0 .. Size(k) /\ more \in BOOLEAN /\ (more => i < Size(k)) /\ (i = 0 => more)
  /\ Known(g) /\ (i = 0 => g \in Flags)
  /\ \A p \in 1 .. Size(k) : Pending(k, i, p) => out[p] = l[p]

(***************************************************************************)
(* The place a step works at is one still to come, and then no more.       *)
(***************************************************************************)
LEMMA PlaceIs ==
  ASSUME NEW k, NEW i \in 0 .. Size(k), i < Size(k)
  PROVE /\ Place(k, i) \in 1 .. Size(k) /\ Pending(k, i, Place(k, i))
        /\ \A p \in 1 .. Size(k) : Pending(k, i + 1, p) => Pending(k, i, p) /\ p # Place(k, i)
BY SizeIs DEF Place, Pending

Replaced(k, out, i, b) == [out EXCEPT ![Place(k, i)] = b]

(***************************************************************************)
(* A limb that fits its place, put there, keeps the shape of the three     *)
(* numbers.                                                                *)
(***************************************************************************)
LEMMA ShapePut ==
  ASSUME NEW k, NEW l, NEW r, NEW out, NEW i, NEW g, Shape(k, l, r, out, i, TRUE, g),
         NEW b, Fits(k, Place(k, i), b), NEW h, Known(h),
         NEW j, j = i + 1, NEW more \in BOOLEAN, more => j < Size(k)
  PROVE Shape(k, l, r, Replaced(k, out, i, b), j, more, h)
<1> DEFINE p == Place(k, i)
           new == Replaced(k, out, i, b)
<1>1. p \in 1 .. Size(k) /\ \A q \in 1 .. Size(k) : Pending(k, j, q) => Pending(k, i, q) /\ q # p
  BY PlaceIs DEF Shape
<1>2. Limbed(k, new)
  <2> HIDE DEF p
  <2>1. Limbed(k, [out EXCEPT ![p] = b])
    BY <1>1, BelowReplaced DEF Shape, p
  <2> QED BY <2>1 DEF p, Replaced
<1>3. \A q \in 1 .. Size(k) : q # p => new[q] = out[q]
  BY DEF Shape, Limbed, Replaced
<1> HIDE DEF new, p
<1>4. j \in 0 .. Size(k) /\ j # 0
  BY SizeIs DEF Shape
<1>5. Shape(k, l, r, new, j, more, h)
  BY <1>1, <1>2, <1>3, <1>4 DEF Shape
<1> QED BY <1>5 DEF new

----------------------------------------------------------------------------

(***************************************************************************)
(* What a program that works upwards adds: one of its own (increment, and  *)
(* SLL), and the number to its right, negative for a difference, or for a  *)
(* shift itself.                                                           *)
(***************************************************************************)
First(k) == IF k \in {"increment", "shiftLeftOne"} THEN 1 ELSE 0

Addend(k, l, r, i) ==
  IF k \in Sums \cup {"addBcd"} THEN Below(k, r, i)
  ELSE IF k \in Subtracting THEN - Below(k, r, i)
  ELSE IF k \in Leftward THEN Below(k, l, i) ELSE 0

\* What a limb adds to its place, and what the flags carry out of it.
Added(k, a, b) ==
  IF k \in Sums \cup {"addBcd"} THEN b
  ELSE IF k \in Subtracting THEN - b
  ELSE IF k \in Leftward THEN a ELSE 0
Carried(k, g) ==
  IF k = "increment" THEN IF g.z THEN 1 ELSE 0
  ELSE IF k \in Subtracting THEN - CarryIn(g) ELSE CarryIn(g)
Owed(k, i, g) == IF i = 0 THEN First(k) ELSE Carried(k, g)

(***************************************************************************)
(* With i limbs done, result stands for left plus the lowest i limbs of    *)
(* what is added, but for the carry that is owed to the limb that comes    *)
(* next. Only an increment stops before the last limb, at the first that   *)
(* does not become zero.                                                   *)
(***************************************************************************)
Upward(k, l, r, out, i, more, g) ==
  k \notin Downward =>
    /\ Below(k, out, Size(k)) + Owed(k, i, g) * W(k)[i]
         = Below(k, l, Size(k)) + First(k) + Addend(k, l, r, i)
    /\ ~more => i = Size(k) \/ (k = "increment" /\ ~g.z)
    /\ k = "increment" /\ i # 0 => ZeroKnown(g) /\ (more => g.z)

Owes(s, c, w, t, e, u) == s + c * w = t + e + u
Carries(v, x, d, a, m, c) == v + x * d = a + m + c
OwesNext(s, w, t, e, u, v, x, d, a, m) == (s + (v - a) * w) + d * (x * w) = t + e + (u + m * w)

(***************************************************************************)
(* The sum of a limb, weighed: what comes in is paid at this weight, what  *)
(* goes out is owed at the next.                                           *)
(***************************************************************************)
LEMMA LimbAdded ==
  ASSUME NEW s \in Int, NEW t \in Int, NEW u \in Int, NEW w \in Int, NEW a \in Int, NEW v \in Int,
         NEW x \in Int, NEW c \in Int, NEW d \in Int, NEW m \in Int, NEW e \in Int,
         Owes(s, c, w, t, e, u), Carries(v, x, d, a, m, c)
  PROVE OwesNext(s, w, t, e, u, v, x, d, a, m)
<1>1. PICK z \in Int : z = x * d
  OBVIOUS
<1>2. v - a = m + c - z
  BY <1>1 DEF Carries
<1>3. (m + c - z) * w = m * w + c * w - z * w
  OBVIOUS
<1>4. d * (x * w) = (x * d) * w
  OBVIOUS
<1>5. PICK e1 \in Int, e2 \in Int, e3 \in Int, e4 \in Int :
    e1 = (v - a) * w /\ e2 = z * w /\ e3 = m * w /\ e4 = c * w
  BY <1>1
<1>6. e1 + e2 = e3 + e4
  BY <1>2, <1>3, <1>5
<1>7. e2 = d * (x * w)
  BY <1>1, <1>4, <1>5
<1>8. s + e4 = t + e + u
  BY <1>5 DEF Owes
<1>9. s + e1 + e2 = t + e + (u + e3)
  BY <1>6, <1>8
<1> QED BY <1>5, <1>7, <1>9 DEF OwesNext

(***************************************************************************)
(* What has been added grows by what a limb adds at its place.             *)
(***************************************************************************)
LEMMA AddendPut ==
  ASSUME NEW k \in Kinds, k \notin Downward, NEW l, Limbed(k, l), NEW r, Limbed(k, r),
         NEW p \in 1 .. Size(k)
  PROVE /\ Added(k, Digit(k, l[p]), Digit(k, r[p])) \in Int /\ Addend(k, l, r, p - 1) \in Int
        /\ Addend(k, l, r, p) = Addend(k, l, r, p - 1)
             + Added(k, Digit(k, l[p]), Digit(k, r[p])) * W(k)[p - 1]
<1>1. p - 1 \in 0 .. Size(k) /\ p \in 0 .. Size(k)
  BY SizeIs
<1>2. PICK a \in Nat, b \in Nat, w \in Nat : a = Digit(k, l[p]) /\ b = Digit(k, r[p]) /\ w = W(k)[p - 1]
  BY <1>1, DigitIs, WeightsAre DEF Limbed, Scale
<1>3. /\ Below(k, l, p) = Below(k, l, p - 1) + a * w /\ Below(k, l, p - 1) \in Nat
      /\ Below(k, r, p) = Below(k, r, p - 1) + b * w /\ Below(k, r, p - 1) \in Nat
  BY <1>1, <1>2, BelowIs
<1>4. a * w \in Int /\ b * w \in Int /\ (-b) * w = -(b * w) /\ 0 * w = 0
  OBVIOUS
<1>5. CASE k \in Sums \cup {"addBcd"}
  BY <1>2, <1>3, <1>4, <1>5 DEF Addend, Added
<1>6. CASE k \in Subtracting
  <2>1. k \notin Sums \cup {"addBcd"}
    BY <1>6 DEF Subtracting, Differences, Sums
  <2> QED BY <1>2, <1>3, <1>4, <1>6, <2>1 DEF Addend, Added
<1>7. CASE k \in Leftward
  <2>1. k \notin Sums \cup {"addBcd"} /\ k \notin Subtracting
    BY <1>7 DEF Subtracting, Differences, Sums, Leftward
  <2> QED BY <1>2, <1>3, <1>4, <1>7, <2>1 DEF Addend, Added
<1>8. CASE k = "increment"
  <2>1. k \notin Sums \cup {"addBcd"} /\ k \notin Subtracting /\ k \notin Leftward
    BY <1>8 DEF Subtracting, Differences, Sums, Leftward
  <2> QED BY <1>2, <1>4, <1>8, <2>1 DEF Addend, Added
<1> QED BY <1>5, <1>6, <1>7, <1>8 DEF Kinds, Downward, Unary, Decimally, Subtracting

(***************************************************************************)
(* A limb that adds what its kind adds, with the carry that came in and    *)
(* the one that goes out, keeps the sum of the numbers upwards.            *)
(***************************************************************************)
LEMMA UpwardPut ==
  ASSUME NEW k, NEW l, NEW r, NEW out, NEW i, NEW g,
         Shape(k, l, r, out, i, TRUE, g), Upward(k, l, r, out, i, TRUE, g), k \notin Downward,
         NEW p, p = i + 1, NEW b, Fits(k, p, b), NEW h, Known(h),
         NEW c \in Int, c = Owed(k, i, g), NEW d \in Int, d = Carried(k, h),
         Digit(k, b) + Radix(k)[p] * d
           = Digit(k, l[p]) + Added(k, Digit(k, l[p]), Digit(k, r[p])) + c,
         NEW more \in BOOLEAN, ~more => p = Size(k) \/ (k = "increment" /\ ~h.z),
         k = "increment" => ZeroKnown(h) /\ (more => h.z)
  PROVE Upward(k, l, r, Replaced(k, out, i, b), p, more, h)
<1> DEFINE new == [out EXCEPT ![Place(k, i)] = b]
           n == Size(k)
<1>0. /\ p \in 1 .. n /\ p # 0 /\ p - 1 = i /\ i \in 0 .. n /\ Place(k, i) = p /\ Pending(k, i, p)
      /\ n \in Nat /\ k \in Kinds /\ Limbed(k, l) /\ Limbed(k, r) /\ Limbed(k, out) /\ out[p] = l[p]
  BY PlaceIs, SizeIs DEF Shape, Place
<1> PICK a \in Nat, v \in Nat, w \in Nat, x \in Nat :
      a = Digit(k, l[p]) /\ v = Digit(k, b) /\ w = W(k)[i] /\ x = Radix(k)[p]
  BY <1>0, DigitIs, WeightsAre DEF Limbed, Scale
<1>1. Below(k, new, n) = Below(k, out, n) + (v - a) * w
  <2> HIDE DEF n
  <2>1. Fits(k, p, b)
    OBVIOUS
  <2>2. Below(k, [out EXCEPT ![p] = b], Size(k))
                = Below(k, out, Size(k)) + (Digit(k, b) - Digit(k, out[p])) * W(k)[p - 1]
    BY <1>0, <2>1, BelowReplaced DEF n
  <2> QED BY <1>0, <2>2 DEF n
<1>2. PICK m \in Int : m = Added(k, a, Digit(k, r[p]))
                       /\ Addend(k, l, r, p) = Addend(k, l, r, i) + m * w /\ Addend(k, l, r, i) \in Int
  <2>1. /\ Added(k, Digit(k, l[p]), Digit(k, r[p])) \in Int /\ Addend(k, l, r, p - 1) \in Int
        /\ Addend(k, l, r, p) = Addend(k, l, r, p - 1)
             + Added(k, Digit(k, l[p]), Digit(k, r[p])) * W(k)[p - 1]
    <3> HIDE DEF n, new
    <3>1. p \in 1 .. Size(k)
      BY <1>0 DEF n
    <3> QED BY <1>0, <3>1, AddendPut
  <2> HIDE DEF n, new
  <2> QED BY <1>0, <2>1
<1>3. W(k)[p] = x * w
  BY <1>0, WeightsAre DEF Scale
<1>4. Below(k, out, n) \in Int /\ Below(k, l, n) \in Int
  BY <1>0, BelowIs
<1>5. PICK s \in Int, t \in Int, u \in Int : s = Below(k, out, n) /\ t = Below(k, l, n) /\ u = Addend(k, l, r, i)
  BY <1>2, <1>4
<1>6. s + c * w = t + First(k) + u
  BY <1>0, <1>5 DEF Upward
<1>7. v + x * d = a + m + c
  BY <1>2
<1>8. PICK e \in Int : e = First(k)
  BY DEF First
<1>9. (s + (v - a) * w) + d * (x * w) = t + e + (u + m * w)
  <2>1. Owes(s, c, w, t, e, u)
    BY <1>6, <1>8 DEF Owes
  <2>2. Carries(v, x, d, a, m, c)
    BY <1>7 DEF Carries
  <2>3. m \in Int /\ e \in Int /\ s \in Int /\ t \in Int /\ u \in Int
    BY <1>2, <1>5, <1>8
  <2>4. w \in Int /\ a \in Int /\ v \in Int /\ x \in Int
    OBVIOUS
  <2>5. OwesNext(s, w, t, e, u, v, x, d, a, m)
    BY <2>1, <2>2, <2>3, <2>4, LimbAdded
  <2> QED BY <2>5 DEF OwesNext
<1>10. Owed(k, p, h) = d
  BY <1>0 DEF Owed
<1>11. Below(k, new, n) + Owed(k, p, h) * W(k)[p] = Below(k, l, n) + First(k) + Addend(k, l, r, p)
  BY <1>1, <1>2, <1>3, <1>5, <1>8, <1>9, <1>10
<1> HIDE DEF n, new
<1>12. Upward(k, l, r, new, p, more, h)
  BY <1>11 DEF Upward, n
<1> QED BY <1>12 DEF new, Replaced

(***************************************************************************)
(* S and PV of a sum or a difference are those of its highest limb, the    *)
(* last one.                                                               *)
(***************************************************************************)
LastFlags(k, l, r, i, b, g) ==
  i = Size(k) =>
    /\ k \in Sums => SumFlags(Out(b, g), l[i], r[i], Radix(k)[i])
    /\ k \in Differences => DifferenceFlags(Out(b, g), l[i], r[i], Radix(k)[i])
TopFlags(k, l, r, out, i, g) == LastFlags(k, l, r, i, out[i], g)

(***************************************************************************)
(* A shift to the right goes on with the bit that left the limb above, the *)
(* first with the sign or with zero.                                       *)
(***************************************************************************)
Sign(k, l) == IF k = "shiftRightSigned" /\ TopBit(l[Size(k)], 256) THEN 1 ELSE 0
ShiftedIn(k, l, i, g) == IF i = 0 THEN Sign(k, l) ELSE CarryIn(g)

(***************************************************************************)
(* With i limbs done from the top, twice what result makes above those to  *)
(* come, and the bit that is owed to the one that comes next, are what     *)
(* left makes there.                                                       *)
(***************************************************************************)
ShiftedRight(k, l, out, i, more, g) ==
  k \in Rightward =>
    /\ LET p == Size(k) - i
       IN 2 * (Below(k, out, Size(k)) - Below(k, l, p)) + ShiftedIn(k, l, i, g) * W(k)[p]
            = Below(k, l, Size(k)) - Below(k, l, p) + Sign(k, l) * W(k)[Size(k)]
    /\ ~more => i = Size(k)

(***************************************************************************)
(* What a comparison that reached limb p knows: the limbs above are equal, *)
(* and the flags compare these.                                            *)
(***************************************************************************)
ComparedTo(l, r, p, n, g) ==
  /\ \A q \in 1 .. n : q > p => l[q] = r[q]
  /\ ZeroKnown(g)
  /\ g.c <=> l[p] < r[p]
  /\ g.z <=> l[p] = r[p]
Compared(k, l, r, i, more, g) ==
  k = "compare" /\ i # 0 =>
    /\ ComparedTo(l, r, Size(k) - i + 1, Size(k), g)
    /\ more => g.z
    /\ ~more => ~g.z \/ i = Size(k)

(***************************************************************************)
(* The inductive invariant: SequenceIsWide speaks of a program that has    *)
(* stopped, its parts of one on its way, of which the limbs done, those to *)
(* come and the carry between them make up the number.                     *)
(***************************************************************************)
SumInv ==
  /\ Shape(kind, left, right, result, done, running, f)
  /\ Upward(kind, left, right, result, done, running, f)
  /\ TopFlags(kind, left, right, result, done, f)
  /\ ShiftedRight(kind, left, result, done, running, f)
  /\ Compared(kind, left, right, done, running, f)

(***************************************************************************)
(* A program starts with either carry.                                     *)
(***************************************************************************)
LEMMA FirstFlags == ASSUME NEW c \in BOOLEAN PROVE [FlagsSZ53(1) EXCEPT !.c = c] \in Flags
<1>1. FlagsSZ53(1) \in Flags
  BY SMT DEF FlagsSZ53, Flags
<1>2. \A g \in Flags : [g EXCEPT !.c = c] \in Flags
  BY SMT DEF Flags
<1> QED BY <1>1, <1>2

(***************************************************************************)
(* Every program starts in the invariant.                                  *)
(***************************************************************************)
LEMMA SumInvStarts == InitSum => SumInv
<1> SUFFICES ASSUME InitSum PROVE SumInv
  OBVIOUS
<1>1. kind \in Kinds /\ left \in Numbers(kind) /\ right \in Numbers(kind)
  BY DEF InitSum
<1>2. result = left /\ done = 0 /\ running = TRUE
  BY DEF InitSum
<1>3. f \in Flags /\ Known(f)
  <2>1. f \in Flags
    BY FirstFlags DEF InitSum
  <2> QED BY <2>1 DEF Flags, Known
<1>4. Limbed(kind, left) /\ Limbed(kind, right)
  BY <1>1, NumbersAre
<1>5. Size(kind) \in Nat /\ 2 <= Size(kind)
  BY SizeIs
<1>6. Shape(kind, left, right, result, done, running, f)
  BY <1>1, <1>2, <1>3, <1>4, <1>5 DEF Shape
<1>7. Upward(kind, left, right, result, done, running, f)
  <2>1. W(kind)[0] = 1 /\ First(kind) \in Int /\ Below(kind, left, Size(kind)) \in Int
    BY <1>1, <1>4, <1>5, WeightsAre, BelowIs DEF Scale, First
  <2>2. kind \notin Downward => Addend(kind, left, right, 0) = 0
    <3>1. Below(kind, left, 0) = 0 /\ Below(kind, right, 0) = 0
      BY <1>1, <1>4, BelowIs
    <3>2. kind \notin Downward => kind \in Sums \cup {"addBcd"} \/ kind \in Subtracting \/ kind \in Leftward \/ kind = "increment"
      BY <1>1 DEF Kinds, Downward, Unary, Decimally, Subtracting
    <3> QED BY <3>1, <3>2 DEF Addend
  <2>3. Owed(kind, 0, f) = First(kind)
    BY DEF Owed
  <2> QED BY <1>2, <2>1, <2>2, <2>3 DEF Upward
<1>8. TopFlags(kind, left, right, result, done, f)
  BY <1>2, <1>5 DEF TopFlags, LastFlags
<1>9. ShiftedRight(kind, left, result, done, running, f)
  <2>1. Size(kind) - 0 = Size(kind)
    BY <1>5
  <2>2. ShiftedIn(kind, left, 0, f) = Sign(kind, left)
    BY DEF ShiftedIn
  <2>3. Below(kind, left, Size(kind)) \in Int
    BY <1>1, <1>4, <1>5, BelowIs
  <2>4. Sign(kind, left) * W(kind)[Size(kind)] \in Int
    <3> PICK x \in Int, y \in Int : x = Sign(kind, left) /\ y = W(kind)[Size(kind)]
      BY <1>1, <1>5, WeightsAre DEF Sign, Scale
    <3>1. x * y \in Int
      OBVIOUS
    <3> QED BY <3>1
  <2> QED BY <1>2, <2>1, <2>2, <2>3, <2>4 DEF ShiftedRight
<1>10. Compared(kind, left, right, done, running, f)
  BY <1>2 DEF Compared
<1> QED BY <1>6, <1>7, <1>8, <1>9, <1>10 DEF SumInv

(***************************************************************************)
(* What one instruction sequence leaves of the state, and the parts of the *)
(* invariant it found.                                                     *)
(***************************************************************************)
LEMMA PutIs ==
  ASSUME SumInv, NEW b, NEW h, NEW more \in BOOLEAN, Put(b, h, more), Known(h),
         Fits(kind, Place(kind, done), b)
  PROVE /\ kind' = kind /\ left' = left /\ right' = right
        /\ done' = done + 1 /\ f' = h /\ running' \in BOOLEAN
        /\ running' <=> more /\ done + 1 < Size(kind)
        /\ result' = Replaced(kind, result, done, b)
        /\ Shape(kind, left, right, result, done, TRUE, f)
        /\ Upward(kind, left, right, result, done, TRUE, f)
        /\ ShiftedRight(kind, left, result, done, TRUE, f)
        /\ Compared(kind, left, right, done, TRUE, f)
        /\ Shape(kind', left', right', result', done', running', f')
<1>1. running = TRUE
  BY DEF SumInv, Shape, Put
<1>2. Len(left) = Size(kind) /\ Limb = Place(kind, done)
  BY DEF SumInv, Shape, Limbed, Limb, Place, Downward
<1>3. /\ kind' = kind /\ left' = left /\ right' = right
      /\ done' = done + 1 /\ f' = h /\ running' = (more /\ done + 1 < Size(kind))
      /\ result' = Replaced(kind, result, done, b)
  BY <1>2 DEF Put, Replaced
<1>4. Shape(kind, left, right, result, done, TRUE, f)
  BY <1>1 DEF SumInv
<1>5. running' \in BOOLEAN /\ (running' <=> more /\ done + 1 < Size(kind))
  BY <1>3
<1>6. Shape(kind, left, right, Replaced(kind, result, done, b), done', running', h)
  <2>1. PICK j : j = done'
    OBVIOUS
  <2>2. PICK m \in BOOLEAN : m = running'
    BY <1>5
  <2>3. j = done + 1 /\ (m => j < Size(kind))
    BY <1>3, <1>5, <2>1, <2>2
  <2>4. Fits(kind, Place(kind, done), b) /\ Known(h)
    OBVIOUS
  <2>5. Shape(kind, left, right, Replaced(kind, result, done, b), j, m, h)
    BY <1>4, <2>2, <2>3, <2>4, ShapePut
  <2> QED BY <2>1, <2>2, <2>5
<1> QED BY <1>1, <1>3, <1>4, <1>5, <1>6 DEF SumInv

LimbSum(k, x, lhs, rhs, carry, i, g) ==
  IF k \in Differences
  THEN IF x = 256 THEN Sub8(lhs, rhs, carry) ELSE Sub16Carry(lhs, rhs, carry)
  ELSE IF x = 256 THEN Add8(lhs, rhs, carry)
  ELSE IF i = 0 THEN Add16(lhs, rhs, g) ELSE Add16Carry(lhs, rhs, carry)

(***************************************************************************)
(* ADD and ADC in the two facts a chain needs: the sum and the flags of    *)
(* it.                                                                     *)
(***************************************************************************)
LEMMA Add8Limb ==
  ASSUME NEW lhs \in Int, 0 <= lhs, lhs < 256, NEW rhs \in Int, 0 <= rhs, rhs < 256, NEW carry \in 0 .. 1
  PROVE /\ AddsLimb(Add8(lhs, rhs, carry), lhs, rhs, carry, 256)
        /\ SumFlags(Add8(lhs, rhs, carry), lhs, rhs, 256)
BY Add8Is

(***************************************************************************)
(* SUB and SBC likewise.                                                   *)
(***************************************************************************)
LEMMA Sub8Limb ==
  ASSUME NEW lhs \in Int, 0 <= lhs, lhs < 256, NEW rhs \in Int, 0 <= rhs, rhs < 256, NEW carry \in 0 .. 1
  PROVE /\ SubsLimb(Sub8(lhs, rhs, carry), lhs, rhs, carry, 256)
        /\ DifferenceFlags(Sub8(lhs, rhs, carry), lhs, rhs, 256)
BY Sub8Is

(***************************************************************************)
(* Whichever instruction AddLimbs takes for a limb: it adds or subtracts   *)
(* it with the carry, and but for an ADD HL, which leaves them alone, S    *)
(* and PV are those of the limb.                                           *)
(***************************************************************************)
LEMMA LimbSumIs ==
  ASSUME NEW k \in Sums \cup Differences, NEW x \in {256, 65536}, NEW lhs \in Nat, lhs < x,
         NEW rhs \in Nat, rhs < x, NEW carry \in 0 .. 1,
         NEW i \in Nat, NEW g, i = 0 => g \in Flags /\ carry = 0
  PROVE LET out == LimbSum(k, x, lhs, rhs, carry, i, g)
        IN /\ k \in Sums => AddsLimb(out, lhs, rhs, carry, x) /\ (i # 0 => SumFlags(out, lhs, rhs, x))
           /\ k \in Differences => SubsLimb(out, lhs, rhs, carry, x) /\ DifferenceFlags(out, lhs, rhs, x)
<1>0. lhs \in Int /\ 0 <= lhs /\ rhs \in Int /\ 0 <= rhs
  BY SMT
<1>1. CASE k \in Differences /\ x = 256
  <2>1. k \notin Sums
    BY <1>1 DEF Sums, Differences
  <2>2. LimbSum(k, x, lhs, rhs, carry, i, g) = Sub8(lhs, rhs, carry) /\ lhs < 256 /\ rhs < 256
    BY <1>1 DEF LimbSum
  <2>3. SubsLimb(Sub8(lhs, rhs, carry), lhs, rhs, carry, 256)
    BY <1>0, <2>2, Sub8Limb, SMT
  <2>4. DifferenceFlags(Sub8(lhs, rhs, carry), lhs, rhs, 256)
    BY <1>0, <2>2, Sub8Limb, SMT
  <2> QED BY <1>1, <2>1, <2>2, <2>3, <2>4
<1>2. CASE k \in Differences /\ x = 65536
  <2>1. k \notin Sums
    BY <1>2 DEF Sums, Differences
  <2>2. LimbSum(k, x, lhs, rhs, carry, i, g) = Sub16Carry(lhs, rhs, carry) /\ lhs < 65536 /\ rhs < 65536
    BY <1>2, SMT DEF LimbSum
  <2>3. SubsLimb(Sub16Carry(lhs, rhs, carry), lhs, rhs, carry, 65536)
    BY <1>0, <2>2, Sub16CarryIs, SMT
  <2>4. DifferenceFlags(Sub16Carry(lhs, rhs, carry), lhs, rhs, 65536)
    BY <1>0, <2>2, Sub16CarryIs, SMT
  <2> QED BY <1>2, <2>1, <2>2, <2>3, <2>4, SMT
<1>3. CASE k \in Sums /\ x = 256
  <2>1. k \notin Differences
    BY <1>3 DEF Sums, Differences
  <2>2. LimbSum(k, x, lhs, rhs, carry, i, g) = Add8(lhs, rhs, carry) /\ lhs < 256 /\ rhs < 256
    BY <1>3, <2>1 DEF LimbSum
  <2>3. AddsLimb(Add8(lhs, rhs, carry), lhs, rhs, carry, 256)
    BY <1>0, <2>2, Add8Limb, SMT
  <2>4. SumFlags(Add8(lhs, rhs, carry), lhs, rhs, 256)
    BY <1>0, <2>2, Add8Limb, SMT
  <2> QED BY <1>3, <2>1, <2>2, <2>3, <2>4
<1>4. CASE k \in Sums /\ x = 65536 /\ i = 0
  <2>1. k \notin Differences
    BY <1>4 DEF Sums, Differences
  <2>2. LimbSum(k, x, lhs, rhs, carry, i, g) = Add16(lhs, rhs, g) /\ lhs < 65536 /\ rhs < 65536
        /\ g \in Flags /\ carry = 0
    BY <1>4, <2>1, SMT DEF LimbSum
  <2>3. AddsLimb(Add16(lhs, rhs, g), lhs, rhs, 0, 65536)
    BY <1>0, <2>2, Add16Is, SMT
  <2>4. AddsLimb(Add16(lhs, rhs, g), lhs, rhs, carry, x)
    BY <1>4, <2>2, <2>3
  <2>5. AddsLimb(LimbSum(k, x, lhs, rhs, carry, i, g), lhs, rhs, carry, x)
    BY <2>2, <2>4, SMT
  <2>6. k \in Sums /\ i = 0
    BY <1>4
  <2> QED BY <2>1, <2>5, <2>6, SMT
<1>5. CASE k \in Sums /\ x = 65536 /\ i # 0
  <2>1. k \notin Differences
    BY <1>5 DEF Sums, Differences
  <2>2. LimbSum(k, x, lhs, rhs, carry, i, g) = Add16Carry(lhs, rhs, carry) /\ lhs < 65536 /\ rhs < 65536
    BY <1>5, <2>1, SMT DEF LimbSum
  <2>3. AddsLimb(Add16Carry(lhs, rhs, carry), lhs, rhs, carry, 65536)
    BY <1>0, <2>2, Add16CarryIs, SMT
  <2>4. SumFlags(Add16Carry(lhs, rhs, carry), lhs, rhs, 65536)
    BY <1>0, <2>2, Add16CarryIs, SMT
  <2> QED BY <1>5, <2>1, <2>2, <2>3, <2>4, SMT
<1> QED BY <1>1, <1>2, <1>3, <1>4, <1>5, SMT

(***************************************************************************)
(* A sum carries.                                                          *)
(***************************************************************************)
LEMMA SumsCarry ==
  ASSUME NEW k \in Sums \cup {"addBcd"}, NEW a, NEW b, NEW g
  PROVE Added(k, a, b) = b /\ Carried(k, g) = CarryIn(g)
<1>1. k # "increment" /\ k \notin Subtracting
  BY DEF Sums, Subtracting, Differences
<1> QED BY <1>1 DEF Added, Carried

(***************************************************************************)
(* A difference borrows.                                                   *)
(***************************************************************************)
LEMMA DifferencesCarry ==
  ASSUME NEW k \in Subtracting, NEW a, NEW b, NEW g
  PROVE Added(k, a, b) = - b /\ Carried(k, g) = - CarryIn(g)
<1>1. k # "increment" /\ k \notin Sums \cup {"addBcd"}
  BY DEF Sums, Subtracting, Differences
<1> QED BY <1>1 DEF Added, Carried

(***************************************************************************)
(* A limb added or subtracted, in the form the invariant counts in.        *)
(***************************************************************************)
LEMMA CarryOut ==
  ASSUME NEW k \in Sums \cup Differences, NEW x \in {256, 65536}, NEW lhs \in Nat, NEW rhs \in Nat,
         NEW carry \in 0 .. 1, NEW out,
         k \in Sums => AddsLimb(out, lhs, rhs, carry, x),
         k \in Differences => SubsLimb(out, lhs, rhs, carry, x)
  PROVE /\ out.value \in Nat /\ out.value < x /\ Known(out.f) /\ Carried(k, out.f) \in Int
        /\ out.value + x * Carried(k, out.f)
             = lhs + Added(k, lhs, rhs) + (IF k \in Differences THEN - carry ELSE carry)
<1>1. k # "increment"
  BY DEF Sums, Differences
<1>2. CASE k \in Sums
  <2>1. k \notin Differences /\ k \notin Subtracting
    BY <1>2 DEF Sums, Differences, Subtracting
  <2>2. Carried(k, out.f) = CarryIn(out.f) /\ Added(k, lhs, rhs) = rhs
    BY <1>2, SumsCarry
  <2>3. /\ out.value \in Int /\ 0 <= out.value /\ out.value < x /\ Known(out.f)
        /\ out.value + x * CarryIn(out.f) = lhs + rhs + carry
    BY <1>2 DEF AddsLimb, Known
  <2>4. CarryIn(out.f) \in Int
    BY DEF CarryIn
  <2> QED BY <2>1, <2>2, <2>3, <2>4
<1>3. CASE k \in Differences
  <2>1. k \notin Sums \cup {"addBcd"} /\ k \in Subtracting
    BY <1>3 DEF Sums, Differences, Subtracting
  <2>2. Carried(k, out.f) = - CarryIn(out.f) /\ Added(k, lhs, rhs) = - rhs
    BY <2>1, DifferencesCarry
  <2>3. /\ out.value \in Int /\ 0 <= out.value /\ out.value < x /\ Known(out.f)
        /\ out.value - x * CarryIn(out.f) = lhs - rhs - carry
    BY <1>3 DEF SubsLimb, Known
  <2>4. CarryIn(out.f) \in Int
    BY DEF CarryIn
  <2>5. PICK c \in Int, v \in Int : c = CarryIn(out.f) /\ v = out.value
    BY <2>3, <2>4
  <2>6. x * (-c) = - (x * c) /\ x * c \in Int
    BY <2>5
  <2> QED BY <1>3, <2>1, <2>2, <2>3, <2>5, <2>6
<1> QED BY <1>2, <1>3

(***************************************************************************)
(* A step of a program that works upward, from what it does to one limb.   *)
(***************************************************************************)
LEMMA UpwardKeeps ==
  ASSUME SumInv, kind \notin Downward, NEW v, NEW h, NEW more \in BOOLEAN, Put(v, h, more), Known(h),
         NEW p, p = done + 1, Fits(kind, p, v),
         NEW c \in Int, c = Owed(kind, done, f), NEW d \in Int, d = Carried(kind, h),
         Digit(kind, v) + Radix(kind)[p] * d
           = Digit(kind, left[p]) + Added(kind, Digit(kind, left[p]), Digit(kind, right[p])) + c,
         ~more => p = Size(kind) \/ (kind = "increment" /\ ~h.z),
         kind = "increment" => ZeroKnown(h) /\ (more => h.z),
         LastFlags(kind, left, right, p, v, h)
  PROVE SumInv'
<1>1. Place(kind, done) = p /\ kind \notin Rightward /\ kind # "compare"
  BY DEF Place, Downward
<1>2. Fits(kind, Place(kind, done), v)
  BY <1>1
<1>3. /\ kind' = kind /\ left' = left /\ right' = right
      /\ done' = done + 1 /\ f' = h /\ running' \in BOOLEAN
      /\ running' <=> more /\ done + 1 < Size(kind)
      /\ result' = Replaced(kind, result, done, v)
      /\ Shape(kind, left, right, result, done, TRUE, f)
      /\ Upward(kind, left, right, result, done, TRUE, f)
      /\ Shape(kind', left', right', result', done', running', f')
  BY <1>2, PutIs
<1>4. p \in 1 .. Size(kind) /\ Size(kind) \in Nat
  BY <1>3, SizeIs DEF Shape
<1>5. Upward(kind', left', right', result', done', running', f')
  <2>1. PICK m \in BOOLEAN : m = running'
    BY <1>3
  <2>2. ~m => p = Size(kind) \/ (kind = "increment" /\ ~h.z)
    BY <1>3, <1>4, <2>1
  <2>3. kind = "increment" => ZeroKnown(h) /\ (m => h.z)
    BY <1>3, <2>1
  <2>4. Upward(kind, left, right, Replaced(kind, result, done, v), p, m, h)
    BY <1>3, <2>1, <2>2, <2>3, UpwardPut
  <2> QED BY <1>3, <2>1, <2>4
<1>6. TopFlags(kind', left', right', result', done', f')
  <2>1. result'[p] = v
    BY <1>1, <1>3, <1>4 DEF Replaced, Shape, Limbed
  <2> QED BY <1>3, <2>1 DEF TopFlags
<1>7. ShiftedRight(kind', left', result', done', running', f')
  BY <1>1, <1>3 DEF ShiftedRight
<1>8. Compared(kind', left', right', done', running', f')
  BY <1>1, <1>3 DEF Compared
<1> QED BY <1>3, <1>5, <1>6, <1>7, <1>8 DEF SumInv

(***************************************************************************)
(* The limb a step finds.                                                  *)
(***************************************************************************)
LEMMA StepHas ==
  ASSUME SumInv, running
  PROVE /\ kind \in Kinds /\ done \in Nat /\ done < Size(kind) /\ Len(left) = Size(kind)
        /\ Limb = Place(kind, done) /\ Limb \in 1 .. Size(kind) /\ (kind \notin Downward => Limb = done + 1)
        /\ Fits(kind, Limb, left[Limb]) /\ Fits(kind, Limb, right[Limb])
        /\ (done = 0 => f \in Flags) /\ Known(f)
<1>1. Shape(kind, left, right, result, done, running, f)
  BY DEF SumInv
<1>2. Limb = Place(kind, done) /\ Len(left) = Size(kind)
  BY <1>1 DEF Shape, Limbed, Limb, Place, Downward
<1>3. done \in 0 .. Size(kind) /\ done < Size(kind)
  BY <1>1 DEF Shape
<1>4. Limb \in 1 .. Size(kind)
  BY <1>2, <1>3, PlaceIs
<1> QED BY <1>1, <1>2, <1>3, <1>4, SizeIs DEF Shape, Limbed, Place

(***************************************************************************)
(* ADD or SUB, then ADC or SBC.                                            *)
(***************************************************************************)
LEMMA AddLimbsKeeps == ASSUME SumInv, AddLimbs PROVE SumInv'
<1> DEFINE p == Limb
           x == Radix(kind)[p]
           lhs == left[p]
           rhs == right[p]
           r == LimbSum(kind, x, lhs, rhs, Carry, done, f)
           c == IF kind \in Differences THEN - Carry ELSE Carry
<1>1. /\ kind \in Sums \cup Differences /\ kind \notin Downward /\ kind \notin Decimally
      /\ kind # "increment" /\ kind # "shiftLeftOne"
  BY DEF AddLimbs, Sums, Differences, Decimally, Downward, Rightward
<1>2. /\ kind \in Kinds /\ done \in Nat /\ done < Size(kind) /\ p = done + 1 /\ p \in 1 .. Size(kind)
      /\ Fits(kind, p, lhs) /\ Fits(kind, p, rhs) /\ (done = 0 => f \in Flags)
  BY <1>1, StepHas DEF AddLimbs, Put
<1>3. Put(r.value, r.f, TRUE)
  BY DEF AddLimbs, LimbSum
<1>4. /\ lhs \in Nat /\ lhs < x /\ rhs \in Nat /\ rhs < x /\ x \in {256, 65536}
      /\ Digit(kind, lhs) = lhs /\ Digit(kind, rhs) = rhs
  BY <1>1, <1>2, RadixIs DEF Fits, Digit
<1>5. Carry \in 0 .. 1 /\ (done = 0 => Carry = 0)
  BY DEF Carry, CarryIn
<1> HIDE DEF x, lhs, rhs
<1>6. /\ kind \in Sums => AddsLimb(r, lhs, rhs, Carry, x) /\ (done # 0 => SumFlags(r, lhs, rhs, x))
      /\ kind \in Differences => SubsLimb(r, lhs, rhs, Carry, x) /\ DifferenceFlags(r, lhs, rhs, x)
  BY <1>1, <1>2, <1>4, <1>5, LimbSumIs
<1> HIDE DEF r, p
<1>7. /\ r.value \in Nat /\ r.value < x /\ Known(r.f) /\ Carried(kind, r.f) \in Int
      /\ r.value + x * Carried(kind, r.f) = lhs + Added(kind, lhs, rhs) + c
  BY <1>1, <1>4, <1>5, <1>6, CarryOut
<1>8. Fits(kind, p, r.value) /\ Digit(kind, r.value) = r.value
  BY <1>1, <1>7 DEF Fits, Digit, x
<1>9. Owed(kind, done, f) = c
  <2>1. First(kind) = 0
    BY <1>1 DEF First
  <2>2. kind \in Subtracting <=> kind \in Differences
    BY <1>1 DEF Subtracting, Sums, Differences
  <2> QED BY <1>1, <2>1, <2>2 DEF Owed, Carried, Carry
<1>10. p = Size(kind) =>
         /\ kind \in Sums => SumFlags(Out(r.value, r.f), lhs, rhs, x)
         /\ kind \in Differences => DifferenceFlags(Out(r.value, r.f), lhs, rhs, x)
  <2>1. p = Size(kind) => done # 0
    BY <1>2, SizeIs
  <2>2. Out(r.value, r.f).value = r.value /\ Out(r.value, r.f).f = r.f
    BY DEF Out
  <2> QED BY <1>6, <2>1, <2>2 DEF SumFlags, DifferenceFlags
<1>11. PICK d \in Int : d = Carried(kind, r.f)
  BY <1>7
<1>14. PICK e \in Int : e = c
  BY <1>5
<1>17. PICK more \in BOOLEAN : more = TRUE
  OBVIOUS
<1>15. PICK b : b = r.value
  OBVIOUS
<1>16. PICK g : g = r.f
  OBVIOUS
<1>12. Digit(kind, b) + Radix(kind)[p] * d
         = Digit(kind, left[p]) + Added(kind, Digit(kind, left[p]), Digit(kind, right[p])) + e
  BY <1>4, <1>7, <1>8, <1>11, <1>14, <1>15 DEF x, lhs, rhs
<1>13. /\ Put(b, g, more) /\ more /\ Known(g) /\ Fits(kind, p, b) /\ e = Owed(kind, done, f) /\ d = Carried(kind, g)
       /\ LastFlags(kind, left, right, p, b, g)
  BY <1>3, <1>7, <1>8, <1>9, <1>10, <1>11, <1>14, <1>15, <1>16, <1>17 DEF x, lhs, rhs, LastFlags
<1> HIDE DEF c
<1>18. p = done + 1 /\ kind \notin Downward
  BY <1>1, <1>2
<1>19. /\ kind = "increment" => ZeroKnown(g) /\ (more => g.z)
       /\ ~more => p = Size(kind) \/ (kind = "increment" /\ ~g.z)
  BY <1>1, <1>13
<1> QED BY <1>11, <1>14, <1>17, <1>12, <1>13, <1>18, <1>19, UpwardKeeps

(***************************************************************************)
(* DEC B behind DAA reads as the last count or not, and passes the carry   *)
(* on.                                                                     *)
(***************************************************************************)
LEMMA CountIs ==
  ASSUME NEW m \in Int, 0 < m, m <= 256, NEW g, Known(g)
  PROVE LET h == Dec8(m, g).f
        IN Known(h) /\ CarryIn(h) = CarryIn(g) /\ (h.z <=> m = 1)
<1>1. Dec8(m, g).f.c = g.c
  BY Dec8Is
<1>2. Dec8(m, g).f.z = (m = 1)
  BY Dec8Is
<1> QED BY <1>1, <1>2 DEF Known, CarryIn

DecimalSum(k, lhs, rhs, carry) ==
  LET r == IF k = "addBcd" THEN Add8(lhs, rhs, carry) ELSE Sub8(lhs, rhs, carry)
  IN Daa(r.value, r.f)

AddsDigits(b, h, k, lhs, rhs, carry, m) ==
  /\ b \in Bcd /\ Decimal(b) \in Int /\ Decimal(lhs) \in Int /\ Decimal(rhs) \in Int
  /\ Known(h) /\ (h.z <=> m = 1) /\ Carried(k, h) \in Int
  /\ Decimal(b) + 100 * Carried(k, h)
       = Decimal(lhs) + Added(k, Decimal(lhs), Decimal(rhs)) + (IF k = "subBcd" THEN - carry ELSE carry)

(***************************************************************************)
(* Two decimal digits with DAA behind and the count behind that, in the    *)
(* form the invariant counts in.                                           *)
(***************************************************************************)
LEMMA DecimalLimb ==
  ASSUME NEW k \in Decimally, NEW lhs \in Bcd, NEW rhs \in Bcd, NEW carry \in 0 .. 1,
         NEW m \in Int, 0 < m, m <= 256
  PROVE LET digits == DecimalSum(k, lhs, rhs, carry)
            h == Dec8(m, digits.f).f
        IN AddsDigits(digits.value, h, k, lhs, rhs, carry, m)
<1> DEFINE digits == DecimalSum(k, lhs, rhs, carry)
           h == Dec8(m, digits.f).f
<1>1. CASE k = "addBcd"
  <2>1. k # "subBcd" /\ k \in Sums \cup {"addBcd"}
    BY <1>1
  <2>2. digits = Daa(Add8(lhs, rhs, carry).value, Add8(lhs, rhs, carry).f)
    BY <1>1 DEF DecimalSum
  <2>3. /\ digits.value \in Bcd /\ Known(digits.f)
        /\ Decimal(digits.value) + 100 * CarryIn(digits.f) = Decimal(lhs) + Decimal(rhs) + carry
    BY <2>2, BcdAdd DEF Known
  <2>4. Decimal(digits.value) \in Int /\ Decimal(lhs) \in Int /\ Decimal(rhs) \in Int
    BY <2>3, BcdHas
  <2> HIDE DEF digits
  <2>5. Known(h) /\ CarryIn(h) = CarryIn(digits.f) /\ (h.z <=> m = 1)
    BY <2>3, CountIs
  <2> HIDE DEF h
  <2>6. Added(k, Decimal(lhs), Decimal(rhs)) = Decimal(rhs) /\ Carried(k, h) = CarryIn(digits.f)
    BY <2>1, <2>5, SumsCarry
  <2>7. CarryIn(digits.f) \in Int
    BY DEF CarryIn
  <2> QED BY <2>1, <2>3, <2>4, <2>5, <2>6, <2>7 DEF h, digits, AddsDigits
<1>2. CASE k = "subBcd"
  <2>1. k # "addBcd" /\ k \in Subtracting
    BY <1>2 DEF Subtracting
  <2>2. digits = Daa(Sub8(lhs, rhs, carry).value, Sub8(lhs, rhs, carry).f)
    BY <2>1 DEF DecimalSum
  <2>3. /\ digits.value \in Bcd /\ Known(digits.f)
        /\ Decimal(digits.value) - 100 * CarryIn(digits.f) = Decimal(lhs) - Decimal(rhs) - carry
    BY <2>2, BcdSub DEF Known
  <2>4. Decimal(digits.value) \in Int /\ Decimal(lhs) \in Int /\ Decimal(rhs) \in Int
    BY <2>3, BcdHas
  <2> HIDE DEF digits
  <2>5. Known(h) /\ CarryIn(h) = CarryIn(digits.f) /\ (h.z <=> m = 1)
    BY <2>3, CountIs
  <2> HIDE DEF h
  <2>6. Added(k, Decimal(lhs), Decimal(rhs)) = - Decimal(rhs) /\ Carried(k, h) = - CarryIn(digits.f)
    BY <2>1, <2>5, DifferencesCarry
  <2>7. CarryIn(digits.f) \in Int
    BY DEF CarryIn
  <2> QED BY <1>2, <2>3, <2>4, <2>5, <2>6, <2>7 DEF h, digits, AddsDigits
<1> QED BY <1>1, <1>2 DEF Decimally

(***************************************************************************)
(* ADC or SBC, DAA and DEC B.                                              *)
(***************************************************************************)
LEMMA AddDecimalsKeeps == ASSUME SumInv, AddDecimals PROVE SumInv'
<1> DEFINE p == Limb
           lhs == left[p]
           rhs == right[p]
           m == Len(left) - done
           digits == DecimalSum(kind, lhs, rhs, Carry)
           h == Dec8(m, digits.f).f
           c == IF kind = "subBcd" THEN - Carry ELSE Carry
<1>1. /\ kind \in Decimally /\ kind \notin Downward /\ kind # "increment" /\ kind # "shiftLeftOne"
      /\ kind \notin Sums /\ kind \notin Differences /\ (kind \in Subtracting <=> kind = "subBcd")
  BY DEF AddDecimals, Sums, Differences, Decimally, Downward, Rightward, Subtracting
<1>2. /\ kind \in Kinds /\ done \in Nat /\ done < Size(kind) /\ p = done + 1 /\ p \in 1 .. Size(kind)
      /\ Fits(kind, p, lhs) /\ Fits(kind, p, rhs) /\ Len(left) = Size(kind)
  <2>1. running
    BY DEF AddDecimals, Put
  <2>2. p = done + 1
    BY <1>1, <2>1, StepHas
  <2> HIDE DEF p
  <2> QED BY <2>1, <2>2, StepHas DEF p
<1>3. Put(digits.value, h, ~h.z)
  BY Zenon DEF AddDecimals, DecimalSum
<1>4. lhs \in Bcd /\ rhs \in Bcd /\ Radix(kind)[p] = 100
  BY <1>1, <1>2, RadixIs DEF Fits
<1>5. Carry \in 0 .. 1
  BY DEF Carry, CarryIn
<1>6. m \in Int /\ 0 < m /\ m <= 256 /\ (m = 1 <=> p = Size(kind))
  BY <1>2, SizeIs
<1> HIDE DEF lhs, rhs, m
<1>7. /\ digits.value \in Bcd
      /\ Decimal(digits.value) \in Int /\ Decimal(lhs) \in Int /\ Decimal(rhs) \in Int
      /\ Known(h) /\ (h.z <=> m = 1) /\ Carried(kind, h) \in Int
      /\ Decimal(digits.value) + 100 * Carried(kind, h) = Decimal(lhs) + Added(kind, Decimal(lhs), Decimal(rhs)) + c
  <2>1. AddsDigits(digits.value, h, kind, lhs, rhs, Carry, m)
    BY <1>1, <1>4, <1>5, <1>6, DecimalLimb
  <2> QED BY <2>1 DEF AddsDigits
<1> HIDE DEF h, digits, p
<1>8. Owed(kind, done, f) = c
  <2>1. First(kind) = 0
    BY <1>1 DEF First
  <2> QED BY <1>1, <2>1 DEF Owed, Carried, Carry
<1>9. PICK d \in Int : d = Carried(kind, h)
  BY <1>7
<1>10. PICK e \in Int : e = c
  BY <1>5
<1>11. PICK b : b = digits.value
  OBVIOUS
<1>12. PICK g : g = h
  OBVIOUS
<1>13. PICK more \in BOOLEAN : more = ~h.z
  OBVIOUS
<1>14. Digit(kind, b) + Radix(kind)[p] * d
         = Digit(kind, left[p]) + Added(kind, Digit(kind, left[p]), Digit(kind, right[p])) + e
  BY <1>1, <1>4, <1>7, <1>9, <1>10, <1>11 DEF lhs, rhs, Digit
<1>15. /\ Put(b, g, more) /\ Known(g) /\ Fits(kind, p, b) /\ e = Owed(kind, done, f) /\ d = Carried(kind, g)
       /\ ~more => p = Size(kind)
       /\ LastFlags(kind, left, right, p, b, g)
  BY <1>1, <1>3, <1>6, <1>7, <1>8, <1>9, <1>10, <1>11, <1>12, <1>13 DEF Fits, LastFlags
<1> HIDE DEF c
<1> QED BY <1>1, <1>2, <1>9, <1>10, <1>13, <1>14, <1>15, UpwardKeeps

(***************************************************************************)
(* INC while a byte becomes zero.                                          *)
(***************************************************************************)
LEMMA IncrementBytesKeeps == ASSUME SumInv, IncrementBytes PROVE SumInv'
<1> DEFINE p == Limb
           lhs == left[p]
           r == Inc8(lhs, f)
<1>1. /\ kind = "increment" /\ kind \notin Downward /\ kind \notin Decimally
      /\ kind \notin Sums \cup {"addBcd"} /\ kind \notin Differences /\ kind \notin Subtracting /\ kind \notin Leftward
      /\ kind \notin Decimally \cup Paired
  BY DEF IncrementBytes, Sums, Differences, Decimally, Downward, Rightward, Subtracting, Leftward, Paired
<1>2. /\ kind \in Kinds /\ done \in Nat /\ done < Size(kind) /\ p = done + 1 /\ p \in 1 .. Size(kind)
      /\ Fits(kind, p, lhs) /\ Known(f) /\ running
  BY <1>1, StepHas DEF IncrementBytes, Put
<1>3. Put(r.value, r.f, r.f.z)
  BY DEF IncrementBytes
<1>4. lhs \in Int /\ 0 <= lhs /\ lhs < 256 /\ Radix(kind)[p] = 256
  BY <1>1, <1>2, RadixIs DEF Fits
<1> HIDE DEF lhs
<1>5. /\ r.value \in Int /\ 0 <= r.value /\ r.value < 256 /\ r.f.z \in BOOLEAN
      /\ r.value + 256 * (IF r.f.z THEN 1 ELSE 0) = lhs + 1
  BY <1>4, Inc8Is
<1>6. Known(r.f)
  <2> DEFINE v == (lhs + 1) % 256
             low == lhs % 16 = 15
             last == lhs = 127
  <2>1. r = Out(v, [FlagsSZ53(v) EXCEPT !.h = low, !.pv = last, !.c = f.c])
    BY DEF Inc8
  <2> HIDE DEF r, v, low, last
  <2>2. r.f.c = f.c
    BY <2>1 DEF Out, FlagsSZ53
  <2> QED BY <1>2, <2>2 DEF Known
<1> HIDE DEF r, p
<1>7. Owed(kind, done, f) = 1
  <2>1. done # 0 => f.z
    BY <1>1, <1>2 DEF SumInv, Upward
  <2> QED BY <1>1, <2>1 DEF Owed, Carried, First
<1>8. PICK d \in Int : d = IF r.f.z THEN 1 ELSE 0
  OBVIOUS
<1>9. PICK e \in Int : e = 1
  OBVIOUS
<1>10. PICK b : b = r.value
  OBVIOUS
<1>11. PICK g : g = r.f
  OBVIOUS
<1>12. PICK more \in BOOLEAN : more = r.f.z
  BY <1>5
<1>13. Digit(kind, b) + Radix(kind)[p] * d
         = Digit(kind, left[p]) + Added(kind, Digit(kind, left[p]), Digit(kind, right[p])) + e
  <2>1. Digit(kind, b) = b /\ Digit(kind, left[p]) = lhs
    BY <1>1 DEF Digit, lhs
  <2>2. Added(kind, Digit(kind, left[p]), Digit(kind, right[p])) = 0
    BY <1>1 DEF Added
  <2> QED BY <1>4, <1>5, <1>8, <1>9, <1>10, <2>1, <2>2
<1>14. /\ Put(b, g, more) /\ Known(g) /\ Fits(kind, p, b)
       /\ ~more => p = Size(kind) \/ (kind = "increment" /\ ~g.z)
       /\ kind = "increment" => ZeroKnown(g) /\ (more => g.z)
       /\ LastFlags(kind, left, right, p, b, g)
  BY <1>1, <1>3, <1>4, <1>5, <1>6, <1>10, <1>11, <1>12 DEF Fits, ZeroKnown, LastFlags
<1>15. e = Owed(kind, done, f) /\ d = Carried(kind, g)
  BY <1>1, <1>7, <1>8, <1>9, <1>11 DEF Carried
<1> QED BY <1>1, <1>2, <1>8, <1>9, <1>12, <1>13, <1>14, <1>15, UpwardKeeps

(***************************************************************************)
(* CP tells below and equal.                                               *)
(***************************************************************************)
LEMMA CompareIs ==
  ASSUME NEW lhs \in Int, 0 <= lhs, lhs < 256, NEW rhs \in Int, 0 <= rhs, rhs < 256
  PROVE LET g == Compare8(lhs, rhs)
        IN Known(g) /\ ZeroKnown(g) /\ (g.c <=> lhs < rhs) /\ (g.z <=> lhs = rhs)
<1> DEFINE out == Sub8(lhs, rhs, 0)
<1>1. SubsLimb(out, lhs, rhs, 0, 256)
  BY Sub8Limb
<1>2. (out.f.z <=> out.value = 0) /\ ZeroKnown(out.f)
  BY Sub8Half
<1> HIDE DEF out
<1>3. PICK v \in Int, c \in 0 .. 1 :
        /\ v = out.value /\ 0 <= v /\ v < 256 /\ c = CarryIn(out.f) /\ (out.f.c <=> c = 1)
        /\ v - 256 * c = lhs - rhs /\ Known(out.f)
  BY <1>1 DEF SubsLimb, CarryIn, Known
<1>4. out.f.c <=> lhs < rhs
  <2>1. c = 1 <=> lhs < rhs
    BY <1>3
  <2> QED BY <1>3, <2>1
<1>5. out.f.z <=> lhs = rhs
  <2>1. v = 0 <=> lhs = rhs
    <3>1. CASE c = 0
      BY <1>3, <3>1
    <3>2. CASE c = 1
      BY <1>3, <3>2
    <3> QED BY <1>3, <3>1, <3>2
  <2> QED BY <1>2, <1>3, <2>1
<1>6. Compare8(lhs, rhs) = out.f
  BY DEF Compare8, out
<1> QED BY <1>2, <1>3, <1>4, <1>5, <1>6

(***************************************************************************)
(* CP from the highest byte while the bytes are equal.                     *)
(***************************************************************************)
LEMMA CompareBytesKeeps == ASSUME SumInv, CompareBytes PROVE SumInv'
<1> DEFINE p == Limb
           lhs == left[p]
           rhs == right[p]
           h == Compare8(lhs, rhs)
           n == Size(kind)
<1>1. /\ kind = "compare" /\ kind \in Downward /\ kind \notin Decimally \cup Paired /\ kind \notin Decimally
      /\ kind \notin Sums /\ kind \notin Differences /\ kind \notin Rightward
  BY DEF CompareBytes, Sums, Differences, Decimally, Downward, Rightward, Paired
<1>2. running
  BY DEF CompareBytes, Put
<1>3. /\ kind \in Kinds /\ done \in Nat /\ done < n /\ p = Place(kind, done) /\ p \in 1 .. n
      /\ Fits(kind, p, lhs) /\ Fits(kind, p, rhs) /\ n \in Nat
  BY <1>2, StepHas, SizeIs
<1>4. Put(lhs, h, h.z)
  BY DEF CompareBytes
<1>5. p = n - done /\ Radix(kind)[p] = 256
  BY <1>1, <1>3, RadixIs DEF Place
<1>6. lhs \in Int /\ 0 <= lhs /\ lhs < 256 /\ rhs \in Int /\ 0 <= rhs /\ rhs < 256
  BY <1>1, <1>3, <1>5 DEF Fits
<1> HIDE DEF n
<1>7. Known(h) /\ ZeroKnown(h) /\ (h.c <=> lhs < rhs) /\ (h.z <=> lhs = rhs)
  <2> HIDE DEF lhs, rhs
  <2> QED BY <1>6, CompareIs
<1> HIDE DEF h, p, lhs, rhs
<1>8. /\ kind' = kind /\ left' = left /\ right' = right
      /\ done' = done + 1 /\ f' = h /\ running' \in BOOLEAN
      /\ running' <=> h.z /\ done + 1 < Size(kind)
      /\ Compared(kind, left, right, done, TRUE, f)
      /\ Shape(kind', left', right', result', done', running', f')
  <2>1. PICK more \in BOOLEAN : more <=> h.z
    OBVIOUS
  <2>2. PICK b : b = lhs
    OBVIOUS
  <2>3. PICK g : g = h
    OBVIOUS
  <2>4. Put(b, g, more) /\ Known(g) /\ Fits(kind, Place(kind, done), b)
    BY <1>3, <1>4, <1>7, <2>1, <2>2, <2>3
  <2>5. /\ kind' = kind /\ left' = left /\ right' = right
        /\ done' = done + 1 /\ f' = g /\ running' \in BOOLEAN
        /\ running' <=> more /\ done + 1 < Size(kind)
        /\ Compared(kind, left, right, done, TRUE, f)
        /\ Shape(kind', left', right', result', done', running', f')
    BY <2>1, <2>4, PutIs
  <2> QED BY <2>1, <2>3, <2>5
<1>9. ComparedTo(left, right, p, n, h)
  <2>1. ASSUME NEW q \in 1 .. n, q > p PROVE left[q] = right[q]
    <3>1. done # 0
      BY <1>3, <1>5, <2>1
    <3>2. ComparedTo(left, right, Size(kind) - done + 1, Size(kind), f) /\ f.z
      BY <1>1, <1>8, <3>1 DEF Compared
    <3>3. PICK s \in Nat : s = Size(kind) - done + 1
      BY <1>3 DEF n
    <3>4. ComparedTo(left, right, s, n, f)
      BY <3>2, <3>3 DEF n
    <3>5. s \in 1 .. n /\ (q = s \/ q > s)
      BY <1>3, <1>5, <2>1, <3>1, <3>3 DEF n
    <3> QED BY <3>2, <3>4, <3>5 DEF ComparedTo
  <2> QED BY <1>7, <2>1 DEF ComparedTo, lhs, rhs
<1>10. Compared(kind', left', right', done', running', f')
  <2>1. done' # 0 /\ Size(kind) - done' + 1 = p
    BY <1>3, <1>5, <1>8 DEF n
  <2>2. ComparedTo(left, right, Size(kind) - done' + 1, Size(kind), h)
    BY <1>9, <2>1 DEF n
  <2>3. (running' => h.z) /\ (~running' => ~h.z \/ done' = Size(kind))
    BY <1>3, <1>8 DEF n
  <2> QED BY <1>8, <2>1, <2>2, <2>3 DEF Compared
<1>11. Upward(kind', left', right', result', done', running', f')
  BY <1>1, <1>8 DEF Upward
<1>12. TopFlags(kind', left', right', result', done', f')
  BY <1>1, <1>8 DEF TopFlags, LastFlags
<1>13. ShiftedRight(kind', left', result', done', running', f')
  BY <1>1, <1>8 DEF ShiftedRight
<1> QED BY <1>8, <1>10, <1>11, <1>12, <1>13 DEF SumInv

----------------------------------------------------------------------------

(***************************************************************************)
(* SLA or SLL, then RL.                                                    *)
(***************************************************************************)
LEMMA ShiftLeftKeeps == ASSUME SumInv, ShiftBytes, kind \in Leftward PROVE SumInv'
<1> DEFINE p == Limb
           lhs == left[p]
           y == IF done = 0 THEN IF kind = "shiftLeft" THEN 4 ELSE 6 ELSE 2
           r == RotateCB(lhs, y, f)
           c == Owed(kind, done, f)
<1>1. /\ kind \notin Downward /\ kind \notin Decimally \cup Paired /\ kind \notin Decimally /\ kind # "increment"
      /\ kind \notin Sums \cup {"addBcd"} /\ kind \notin Differences /\ kind \notin Rightward /\ kind \notin Subtracting
      /\ kind \in {"shiftLeft", "shiftLeftOne"}
  BY DEF Leftward, Sums, Differences, Decimally, Downward, Rightward, Subtracting, Paired
<1>2. /\ kind \in Kinds /\ done \in Nat /\ done < Size(kind) /\ p = done + 1 /\ p \in 1 .. Size(kind)
      /\ Fits(kind, p, lhs) /\ Known(f)
  BY <1>1, StepHas DEF ShiftBytes, Put
<1>3. Put(r.value, r.f, TRUE)
  <2> DEFINE first == [shiftLeft |-> 4, shiftLeftOne |-> 6, shiftRight |-> 7, shiftRightSigned |-> 5]
             z == IF done = 0 THEN first[kind] ELSE IF kind \in Leftward THEN 2 ELSE 3
  <2>1. Put(RotateCB(lhs, z, f).value, RotateCB(lhs, z, f).f, TRUE)
    BY DEF ShiftBytes
  <2>2. first[kind] = IF kind = "shiftLeft" THEN 4 ELSE 6
    BY <1>1
  <2>3. z = y
    BY <2>2
  <2> HIDE DEF z, y, lhs
  <2> QED BY <2>1, <2>3
<1>4. lhs \in Int /\ 0 <= lhs /\ lhs < 256 /\ Radix(kind)[p] = 256
  BY <1>1, <1>2, RadixIs DEF Fits
<1>5. /\ c \in 0 .. 1 /\ y \in {2, 4, 6}
      /\ y = 2 => c = CarryIn(f)
      /\ y = 4 => c = 0
      /\ y = 6 => c = 1
  BY <1>1, <1>2 DEF Owed, First, Carried, CarryIn
<1> HIDE DEF lhs, y, c
<1>6. AddsLimb(r, lhs, lhs, c, 256)
  BY <1>4, <1>5, RotateLeft
<1> HIDE DEF r, p
<1>7. /\ r.value \in Int /\ 0 <= r.value /\ r.value < 256 /\ Known(r.f)
      /\ r.value + 256 * CarryIn(r.f) = lhs + lhs + c
  BY <1>6 DEF AddsLimb, Known
<1>8. PICK d \in Int : d = CarryIn(r.f)
  BY DEF CarryIn
<1>9. PICK b : b = r.value
  OBVIOUS
<1>10. PICK g : g = r.f
  OBVIOUS
<1>11. PICK e \in Int : e = c
  BY <1>5
<1>12. Digit(kind, b) + Radix(kind)[p] * d
         = Digit(kind, left[p]) + Added(kind, Digit(kind, left[p]), Digit(kind, right[p])) + e
  <2>1. Digit(kind, b) = b /\ Digit(kind, left[p]) = lhs
    BY <1>1 DEF Digit, lhs
  <2>2. Added(kind, Digit(kind, left[p]), Digit(kind, right[p])) = lhs
    BY <1>1, <2>1 DEF Added
  <2> QED BY <1>4, <1>7, <1>8, <1>9, <1>11, <2>1, <2>2
<1>13. Put(b, g, TRUE) /\ Known(g) /\ Fits(kind, p, b) /\ LastFlags(kind, left, right, p, b, g)
  <2>1. b \in Nat /\ b < 256
    BY <1>7, <1>9
  <2>2. Put(b, g, TRUE) /\ Known(g)
    BY <1>3, <1>7, <1>9, <1>10
  <2> QED BY <1>1, <1>4, <2>1, <2>2 DEF Fits, LastFlags
<1>14. e = Owed(kind, done, f) /\ d = Carried(kind, g)
  BY <1>1, <1>8, <1>10, <1>11 DEF Carried, c
<1> QED BY <1>1, <1>2, <1>8, <1>11, <1>12, <1>13, <1>14, UpwardKeeps

Halved(s, low, c, w, t, e) == 2 * (s - low) + c * (256 * w) = t - low + e
HalvedNext(s, low, v, a, d, w, t, e) ==
  2 * ((s + (v - a) * w) - (low - a * w)) + d * w = t - (low - a * w) + e
Halves(v, d, a, c) == 2 * v + d = a + 256 * c

(***************************************************************************)
(* A limb halved, weighed: what comes in from above is paid at the weight  *)
(* above, what goes out is owed at its own.                                *)
(***************************************************************************)
LEMMA LimbHalved ==
  ASSUME NEW s \in Int, NEW low \in Int, NEW c \in Int, NEW w \in Int, NEW t \in Int, NEW e \in Int,
         NEW v \in Int, NEW a \in Int, NEW d \in Int,
         Halved(s, low, c, w, t, e), Halves(v, d, a, c)
  PROVE HalvedNext(s, low, v, a, d, w, t, e)
<1>1. PICK cw \in Int, vw \in Int, aw \in Int, dw \in Int :
        cw = c * w /\ vw = v * w /\ aw = a * w /\ dw = d * w
  OBVIOUS
<1>2. (v - a) * w = vw - aw
  BY <1>1
<1>3. c * (256 * w) = 256 * cw
  BY <1>1
<1>4. 2 * vw + dw = aw + 256 * cw
  <2>1. (2 * v + d) * w = 2 * (v * w) + d * w
    OBVIOUS
  <2>2. (a + 256 * c) * w = a * w + 256 * (c * w)
    OBVIOUS
  <2>3. 2 * v + d = a + 256 * c
    BY DEF Halves
  <2> QED BY <1>1, <2>1, <2>2, <2>3
<1>5. 2 * (s - low) + 256 * cw = t - low + e
  BY <1>3 DEF Halved
<1>6. 2 * ((s + (vw - aw)) - (low - aw)) + dw = t - (low - aw) + e
  BY <1>1, <1>4, <1>5
<1> QED BY <1>1, <1>2, <1>6 DEF HalvedNext

(***************************************************************************)
(* SRL or SRA, then RR.                                                    *)
(***************************************************************************)
LEMMA ShiftRightKeeps == ASSUME SumInv, ShiftBytes, kind \in Rightward PROVE SumInv'
<1> DEFINE p == Limb
           n == Size(kind)
           lhs == left[p]
           y == IF done = 0 THEN IF kind = "shiftRight" THEN 7 ELSE 5 ELSE 3
           r == RotateCB(lhs, y, f)
           c == ShiftedIn(kind, left, done, f)
<1>1. /\ kind \in Downward /\ kind \notin Decimally \cup Paired /\ kind \notin Decimally
      /\ kind \notin Sums /\ kind \notin Differences /\ kind # "compare"
      /\ kind \in {"shiftRight", "shiftRightSigned"} /\ kind \notin Leftward
  BY DEF Leftward, Sums, Differences, Decimally, Downward, Rightward, Paired
<1>2. running
  BY DEF ShiftBytes, Put
<1>3. /\ kind \in Kinds /\ done \in Nat /\ done < n /\ p = Place(kind, done) /\ p \in 1 .. n
      /\ Fits(kind, p, lhs) /\ n \in Nat
  BY <1>2, StepHas, SizeIs
<1>4. p = n - done /\ Radix(kind)[p] = 256
  BY <1>1, <1>3, RadixIs DEF Place
<1>5. Put(r.value, r.f, TRUE)
  <2> DEFINE first == [shiftLeft |-> 4, shiftLeftOne |-> 6, shiftRight |-> 7, shiftRightSigned |-> 5]
             z == IF done = 0 THEN first[kind] ELSE IF kind \in Leftward THEN 2 ELSE 3
  <2>1. Put(RotateCB(lhs, z, f).value, RotateCB(lhs, z, f).f, TRUE)
    BY DEF ShiftBytes
  <2>2. first[kind] = IF kind = "shiftRight" THEN 7 ELSE 5
    BY <1>1
  <2>3. z = y
    BY <1>1, <2>2
  <2> HIDE DEF z, y, lhs
  <2> QED BY <2>1, <2>3
<1>6. lhs \in Int /\ 0 <= lhs /\ lhs < 256
  BY <1>1, <1>3, <1>4 DEF Fits
<1>7. /\ c \in 0 .. 1 /\ y \in {3, 5, 7}
      /\ y = 3 => c = CarryIn(f)
      /\ y = 5 => c = IF TopBit(lhs, 256) THEN 1 ELSE 0
      /\ y = 7 => c = 0
  <2>1. done = 0 => lhs = left[n]
    BY <1>3, <1>4
  <2>2. CarryIn(f) \in 0 .. 1 /\ Sign(kind, left) \in 0 .. 1
    BY DEF CarryIn, Sign
  <2>3. kind = "shiftRight" => Sign(kind, left) = 0
    BY DEF Sign
  <2>4. kind = "shiftRightSigned" => Sign(kind, left) = IF TopBit(left[n], 256) THEN 1 ELSE 0
    BY DEF Sign
  <2> HIDE DEF lhs, n
  <2> QED BY <1>1, <2>1, <2>2, <2>3, <2>4 DEF ShiftedIn
<1> HIDE DEF lhs, y, c
<1>8. HalvesLimb(r, lhs, c)
  BY <1>6, <1>7, RotateRight
<1> HIDE DEF r, p
<1>9. PICK v \in Nat : v = r.value /\ v < 256 /\ Known(r.f) /\ 2 * v + CarryIn(r.f) = lhs + 256 * c
  BY <1>8 DEF HalvesLimb, Known
<1>10. PICK g : g = r.f
  OBVIOUS
<1>11. Put(v, g, TRUE) /\ Known(g) /\ Fits(kind, Place(kind, done), v) /\ Fits(kind, p, v)
  BY <1>1, <1>3, <1>4, <1>5, <1>9, <1>10 DEF Fits
<1>12. /\ kind' = kind /\ left' = left /\ right' = right
       /\ done' = done + 1 /\ f' = g /\ running' \in BOOLEAN
       /\ running' <=> TRUE /\ done + 1 < Size(kind)
       /\ result' = Replaced(kind, result, done, v)
       /\ Shape(kind, left, right, result, done, TRUE, f)
       /\ ShiftedRight(kind, left, result, done, TRUE, f)
       /\ Shape(kind', left', right', result', done', running', f')
  BY <1>11, PutIs
<1>13. ShiftedRight(kind', left', result', done', running', f')
  <2>1. /\ Limbed(kind, left) /\ Limbed(kind, result) /\ result[p] = lhs /\ result' = [result EXCEPT ![p] = v]
        /\ p - 1 \in 0 .. n /\ p \in 0 .. n /\ n \in 0 .. n
    BY <1>3, <1>12, PlaceIs DEF Shape, Replaced, lhs, n
  <2>2. PICK w \in Nat : w = W(kind)[p - 1] /\ W(kind)[p] = 256 * w
    <3>1. Scale(n, Radix(kind), W(kind))
      BY <1>3, WeightsAre DEF n
    <3>2. W(kind)[p] = Radix(kind)[p] * W(kind)[p - 1] /\ W(kind)[p - 1] \in Nat
      BY <1>3, <2>1, <3>1 DEF Scale
    <3> QED BY <1>4, <3>2
  <2>3. PICK s \in Int, t \in Int, low \in Int :
          s = Below(kind, result, n) /\ t = Below(kind, left, n) /\ low = Below(kind, left, p)
    BY <1>3, <2>1, BelowIs DEF n
  <2>4. Below(kind, left, p - 1) = low - lhs * w
    <3>1. low = Below(kind, left, p - 1) + Digit(kind, left[p]) * w /\ Below(kind, left, p - 1) \in Int
      BY <1>3, <2>1, <2>2, <2>3, BelowIs DEF n
    <3>2. Digit(kind, left[p]) = lhs
      BY <1>1 DEF Digit, lhs
    <3>3. lhs * w \in Int
      BY <1>6
    <3> QED BY <3>1, <3>2, <3>3
  <2>5. Below(kind, result', n) = s + (v - lhs) * w
    <3>1. Below(kind, [result EXCEPT ![p] = v], Size(kind))
            = Below(kind, result, Size(kind)) + (Digit(kind, v) - Digit(kind, result[p])) * W(kind)[p - 1]
      BY <1>3, <1>11, <2>1, BelowReplaced DEF n
    <3>2. Digit(kind, v) = v /\ Digit(kind, result[p]) = lhs
      BY <1>1, <2>1 DEF Digit
    <3> QED BY <2>1, <2>2, <2>3, <3>1, <3>2 DEF n
  <2>6. PICK e \in Int : e = Sign(kind, left) * W(kind)[n]
    <3>1. PICK x \in Int, z \in Int : x = Sign(kind, left) /\ z = W(kind)[n]
      BY <1>3, <2>1, WeightsAre DEF Sign, Scale, n
    <3>2. x * z \in Int
      OBVIOUS
    <3> QED BY <3>1, <3>2
  <2>7. PICK x \in Int, d \in Int : x = c /\ d = CarryIn(g)
    BY <1>7 DEF CarryIn
  <2>8. Halved(s, low, x, w, t, e)
    BY <1>4, <1>12, <2>2, <2>3, <2>6, <2>7 DEF ShiftedRight, Halved, c, n
  <2>9. Halves(v, d, lhs, x)
    BY <1>9, <1>10, <2>7 DEF Halves
  <2>10. HalvedNext(s, low, v, lhs, d, w, t, e)
    BY <1>6, <2>2, <2>3, <2>6, <2>7, <2>8, <2>9, LimbHalved
  <2>11. 2 * (Below(kind, result', n) - Below(kind, left, p - 1)) + d * W(kind)[p - 1]
           = Below(kind, left, n) - Below(kind, left, p - 1) + Sign(kind, left) * W(kind)[n]
    BY <2>2, <2>3, <2>4, <2>5, <2>6, <2>10 DEF HalvedNext
  <2>12. n - done' = p - 1 /\ done' # 0 /\ ShiftedIn(kind, left, done', g) = d
    BY <1>3, <1>4, <1>12, <2>7 DEF ShiftedIn
  <2>13. ~running' => done' = n
    BY <1>3, <1>12 DEF n
  <2> QED BY <1>12, <2>11, <2>12, <2>13 DEF ShiftedRight, n
<1>14. Upward(kind', left', right', result', done', running', f')
  BY <1>1, <1>12 DEF Upward
<1>15. TopFlags(kind', left', right', result', done', f')
  BY <1>1, <1>12 DEF TopFlags, LastFlags
<1>16. Compared(kind', left', right', done', running', f')
  BY <1>1, <1>12 DEF Compared
<1> QED BY <1>12, <1>13, <1>14, <1>15, <1>16 DEF SumInv

(***************************************************************************)
(* The invariant is inductive.                                             *)
(***************************************************************************)
LEMMA SumInvKept == SumInv /\ [NextSum]_sumVars => SumInv'
<1> SUFFICES ASSUME SumInv, [NextSum]_sumVars PROVE SumInv'
  OBVIOUS
<1>1. CASE AddLimbs
  BY <1>1, AddLimbsKeeps
<1>2. CASE AddDecimals
  BY <1>2, AddDecimalsKeeps
<1>3. CASE CompareBytes
  BY <1>3, CompareBytesKeeps
<1>4. CASE IncrementBytes
  BY <1>4, IncrementBytesKeeps
<1>5. CASE ShiftBytes
  <2>1. kind \in Leftward \/ kind \in Rightward
    BY <1>5 DEF ShiftBytes
  <2> QED BY <1>5, <2>1, ShiftLeftKeeps, ShiftRightKeeps
<1>6. CASE UNCHANGED sumVars
  BY <1>6 DEF sumVars, SumInv
<1> QED BY <1>1, <1>2, <1>3, <1>4, <1>5, <1>6 DEF NextSum

(***************************************************************************)
(* The number v stands for in two's complement, modulo m.                  *)
(***************************************************************************)
Sgn(v, m) == IF TopBit(v, m) THEN v - m ELSE v

(***************************************************************************)
(* A number at most one modulus away from its remainder.                   *)
(***************************************************************************)
LEMMA RemIs ==
  ASSUME NEW m \in Nat, NEW r \in Nat, r < m, NEW x \in Int, x = r \/ x = r + m \/ x = r - m
  PROVE Rem(x, m) = r
<1>1. CASE x = r
  BY <1>1, SMT DEF Rem
<1>2. CASE x = r + m
  BY <1>2, SMT DEF Rem
<1>3. CASE x = r - m
  BY <1>3, SMT DEF Rem
<1> QED BY <1>1, <1>2, <1>3

SumsTo(a, b, c, r, m) == a < m /\ b < m /\ r < m /\ r + c * m = a + b
DiffersBy(a, b, c, r, m) == a < m /\ b < m /\ r < m /\ r - c * m = a - b

(***************************************************************************)
(* What the sum, its remainder and the carry tell of two numbers, unsigned *)
(* and signed.                                                             *)
(***************************************************************************)
LEMMA WideSum ==
  ASSUME NEW m \in Nat, NEW a \in Nat, NEW b \in Nat, NEW r \in Nat, NEW c \in 0 .. 1,
         SumsTo(a, b, c, r, m)
  PROVE /\ Rem(a + b, m) = r
        /\ c = 1 <=> a + b >= m \/ a + b < 0
        /\ Sgn(r, m) # Sgn(a, m) + Sgn(b, m)
             <=> (TopBit(a, m) <=> TopBit(b, m)) /\ ~(TopBit(a, m) <=> TopBit(r, m))
<1>0. a < m /\ b < m /\ r < m /\ r + c * m = a + b
  BY DEF SumsTo
<1>1. a + b = r \/ a + b = r + m
  BY <1>0, SMT
<1>2. Rem(a + b, m) = r
  <2>1. PICK x \in Int : x = a + b
    OBVIOUS
  <2> QED BY <1>0, <1>1, <2>1, RemIs
<1>3. c = 1 <=> a + b >= m \/ a + b < 0
  BY <1>0, SMT
<1>4. Sgn(r, m) # Sgn(a, m) + Sgn(b, m)
        <=> (TopBit(a, m) <=> TopBit(b, m)) /\ ~(TopBit(a, m) <=> TopBit(r, m))
  <2>1. CASE c = 0
    BY <1>0, <2>1, SMT DEF Sgn, TopBit
  <2>2. CASE c = 1
    BY <1>0, <2>2, SMT DEF Sgn, TopBit
  <2> QED BY <2>1, <2>2
<1> QED BY <1>2, <1>3, <1>4

(***************************************************************************)
(* What the difference, its remainder and the borrow tell of two numbers,  *)
(* unsigned and signed.                                                    *)
(***************************************************************************)
LEMMA WideDifference ==
  ASSUME NEW m \in Nat, NEW a \in Nat, NEW b \in Nat, NEW r \in Nat, NEW c \in 0 .. 1,
         DiffersBy(a, b, c, r, m)
  PROVE /\ Rem(a - b, m) = r
        /\ c = 1 <=> a - b >= m \/ a - b < 0
        /\ c = 1 <=> a < b
        /\ Sgn(r, m) # Sgn(a, m) - Sgn(b, m)
             <=> ~(TopBit(a, m) <=> TopBit(b, m)) /\ ~(TopBit(a, m) <=> TopBit(r, m))
        /\ Sgn(a, m) < Sgn(b, m)
             <=> ~(TopBit(r, m) <=> ~(TopBit(a, m) <=> TopBit(b, m)) /\ ~(TopBit(a, m) <=> TopBit(r, m)))
<1>0. a < m /\ b < m /\ r < m /\ r - c * m = a - b
  BY DEF DiffersBy
<1>1. a - b = r \/ a - b = r - m
  BY <1>0, SMT
<1>2. Rem(a - b, m) = r
  <2>1. PICK x \in Int : x = a - b
    OBVIOUS
  <2> QED BY <1>0, <1>1, <2>1, RemIs
<1>3. (c = 1 <=> a - b >= m \/ a - b < 0) /\ (c = 1 <=> a < b)
  BY <1>0, SMT
<1>4. Sgn(r, m) # Sgn(a, m) - Sgn(b, m)
        <=> ~(TopBit(a, m) <=> TopBit(b, m)) /\ ~(TopBit(a, m) <=> TopBit(r, m))
  <2>1. CASE c = 0
    BY <1>0, <2>1, SMT DEF Sgn, TopBit
  <2>2. CASE c = 1
    BY <1>0, <2>2, SMT DEF Sgn, TopBit
  <2> QED BY <2>1, <2>2
<1>5. Sgn(a, m) < Sgn(b, m)
        <=> ~(TopBit(r, m) <=> ~(TopBit(a, m) <=> TopBit(b, m)) /\ ~(TopBit(a, m) <=> TopBit(r, m)))
  <2>1. CASE c = 0
    BY <1>0, <2>1, SMT DEF Sgn, TopBit
  <2>2. CASE c = 1
    BY <1>0, <2>2, SMT DEF Sgn, TopBit
  <2> QED BY <2>1, <2>2
<1> QED BY <1>2, <1>3, <1>4, <1>5

(***************************************************************************)
(* A half and a remainder.                                                 *)
(***************************************************************************)
LEMMA HalfIs ==
  ASSUME NEW x \in Int, NEW h \in Int, NEW c \in 0 .. 1, x = 2 * h + c
  PROVE x \div 2 = h /\ (c = 1 <=> x % 2 = 1)
<1>1. x \div 2 = h
  BY SMT
<1>2. Rem(x, 2) = c
  BY SMT DEF Rem
<1> QED BY <1>1, <1>2 DEF Rem

HasTop(v, m, top, x, low, w, h) == low < w /\ v = low + top * w /\ m = x * w /\ x = 2 * h

(***************************************************************************)
(* The top bit of a number is that of its top limb.                        *)
(***************************************************************************)
LEMMA TopBitIs ==
  ASSUME NEW h \in Nat, NEW w \in Nat \ {0}, NEW low \in Nat, NEW top \in Nat,
         NEW x \in Nat, NEW v \in Nat, NEW m \in Nat, HasTop(v, m, top, x, low, w, h)
  PROVE TopBit(v, m) <=> TopBit(top, x)
<1>0. low < w /\ v = low + top * w /\ m = x * w /\ x = 2 * h
  BY DEF HasTop
<1>1. CASE top >= h
  <2>1. PICK d \in Nat : top = h + d
    BY <1>1
  <2>2. top * w = h * w + d * w /\ d * w \in Nat /\ h * w \in Nat /\ m = 2 * (h * w)
    BY <1>0, <2>1
  <2> QED BY <1>0, <1>1, <2>2 DEF TopBit
<1>2. CASE top < h
  <2>1. PICK d \in Nat : h = top + 1 + d
    BY <1>2
  <2>2. h * w = top * w + w + d * w /\ d * w \in Nat /\ top * w \in Nat
    BY <2>1
  <2>3. m = 2 * (h * w) /\ h * w \in Nat
    BY <1>0
  <2> QED BY <1>0, <1>2, <2>2, <2>3 DEF TopBit
<1> QED BY <1>1, <1>2

(***************************************************************************)
(* The value of a number is what all its limbs make, below the modulus.    *)
(***************************************************************************)
LEMMA ValueIs ==
  ASSUME SumInv, NEW x, Limbed(kind, x)
  PROVE /\ Value(x) = Below(kind, x, Size(kind)) /\ Modulus = W(kind)[Size(kind)]
        /\ Value(x) \in Nat /\ Modulus \in Nat /\ Value(x) < Modulus
<1>1. kind \in Kinds /\ Len(left) = Size(kind) /\ Size(kind) \in 0 .. Size(kind)
  BY SizeIs DEF SumInv, Shape, Limbed
<1>2. Len(Numeral(kind, x)) = Size(kind)
  BY <1>1, NumeralIs DEF OnScale
<1>3. Value(x) = Number(Numeral(kind, x))
  BY DEF Value, Numeral
<1>4. Value(x) = Below(kind, x, Size(kind))
  BY <1>2, <1>3 DEF Number, Weight, W, Below
<1>5. Modulus = W(kind)[Size(kind)]
  BY <1>1 DEF Modulus, Weight, W
<1>6. W(kind)[Size(kind)] \in Nat
  <2>1. Scale(Size(kind), Radix(kind), W(kind))
    BY <1>1, WeightsAre
  <2> QED BY <1>1, <2>1 DEF Scale
<1> QED BY <1>1, <1>4, <1>5, <1>6, BelowIs

(***************************************************************************)
(* The sign of a number is the sign of its highest limb.                   *)
(***************************************************************************)
LEMMA ValueTop ==
  ASSUME SumInv, kind \notin Decimally, NEW x, Limbed(kind, x)
  PROVE TopBit(Value(x), Modulus) <=> TopBit(x[Size(kind)], Radix(kind)[Size(kind)])
<1> DEFINE n == Size(kind)
<1>1. kind \in Kinds /\ n \in 1 .. n /\ n - 1 \in 0 .. n
  BY SizeIs DEF SumInv, Shape
<1>2. Scale(n, Radix(kind), W(kind))
  BY <1>1, WeightsAre
<1>3. Value(x) = Below(kind, x, n) /\ Modulus = W(kind)[n]
  BY ValueIs
<1>4. Fits(kind, n, x[n])
  BY <1>1 DEF Limbed
<1>5. /\ Below(kind, x, n) = Below(kind, x, n - 1) + Digit(kind, x[n]) * W(kind)[n - 1]
      /\ Below(kind, x, n - 1) \in Nat /\ Below(kind, x, n - 1) < W(kind)[n - 1]
  BY <1>1, BelowIs
<1> HIDE DEF n
<1>6. PICK h \in Nat : Radix(kind)[n] = 2 * h
  <2>1. Radix(kind)[n] \in {256, 65536}
    BY <1>1, RadixIs DEF n
  <2>2. 256 = 2 * 128 /\ 65536 = 2 * 32768 /\ 128 \in Nat /\ 32768 \in Nat
    BY SMT
  <2> QED BY <2>1, <2>2, SMT
<1>7. PICK w \in Nat \ {0}, low \in Nat : w = W(kind)[n - 1] /\ low = Below(kind, x, n - 1)
  BY <1>1, <1>2, <1>5 DEF Scale
<1>8. PICK top \in Nat : top = x[n]
  BY <1>4 DEF Fits
<1>9. PICK v \in Nat, m \in Nat : v = Value(x) /\ m = Modulus
  BY ValueIs
<1>10. PICK r \in Nat : r = Radix(kind)[n]
  BY <1>6
<1>11. HasTop(v, m, top, r, low, w, h)
  <2>1. Digit(kind, x[n]) = top
    BY <1>8 DEF Digit
  <2>2. W(kind)[n] = Radix(kind)[n] * W(kind)[n - 1]
    BY <1>1, <1>2 DEF Scale
  <2> QED BY <1>3, <1>5, <1>6, <1>7, <1>9, <1>10, <2>1, <2>2 DEF HasTop
<1>12. TopBit(v, m) <=> TopBit(top, r)
  <2>1. h \in Nat
    BY <1>6
  <2>2. w \in Nat \ {0} /\ low \in Nat
    BY <1>7
  <2>3. top \in Nat /\ v \in Nat /\ m \in Nat /\ r \in Nat
    BY <1>8, <1>9, <1>10
  <2> QED BY <1>11, <2>1, <2>2, <2>3, TopBitIs
<1> QED BY <1>8, <1>9, <1>10, <1>12 DEF n

(***************************************************************************)
(* What a program that has stopped leaves, kind by kind.                   *)
(***************************************************************************)
Ends(a, b, r, m) ==
  /\ Value(left) = a /\ Value(right) = b /\ Value(result) = r /\ Modulus = m
  /\ a < m /\ b < m /\ r < m

(***************************************************************************)
(* A chain upwards that has stopped went through every limb, and the carry *)
(* that leaves the last one makes up the number.                           *)
(***************************************************************************)
LEMMA UpwardEnds ==
  ASSUME SumInv, ~running, kind \notin Downward, kind # "increment",
         NEW a \in Nat, NEW b \in Nat, NEW r \in Nat, NEW m \in Nat, Ends(a, b, r, m)
  PROVE /\ done = Size(kind) /\ done # 0
        /\ r + Carried(kind, f) * m = a + First(kind) + Added(kind, a, b)
<1>1. /\ Shape(kind, left, right, result, done, running, f)
      /\ Upward(kind, left, right, result, done, running, f)
  BY DEF SumInv
<1>2. done = Size(kind) /\ done # 0
  BY <1>1, SizeIs DEF Upward
<1>3. /\ Below(kind, left, Size(kind)) = a /\ Below(kind, right, Size(kind)) = b
      /\ Below(kind, result, Size(kind)) = r /\ W(kind)[Size(kind)] = m
  BY <1>1, ValueIs DEF Ends, Shape
<1>4. Addend(kind, left, right, done) = Added(kind, a, b)
  BY <1>2, <1>3 DEF Addend, Added
<1>5. Owed(kind, done, f) = Carried(kind, f)
  BY <1>2 DEF Owed
<1> QED BY <1>1, <1>2, <1>3, <1>4, <1>5 DEF Upward

(***************************************************************************)
(* A sum of many limbs.                                                    *)
(***************************************************************************)
LEMMA SumEnds ==
  ASSUME SumInv, ~running, kind \in Sums,
         NEW a \in Nat, NEW b \in Nat, NEW r \in Nat, NEW m \in Nat, Ends(a, b, r, m)
  PROVE /\ r = Rem(a + b, m) /\ f.c = (a + b >= m \/ a + b < 0)
        /\ f.s = TopBit(r, m) /\ f.pv = (Sgn(r, m) # Sgn(a, m) + Sgn(b, m))
<1>1. /\ kind \notin Downward /\ kind # "increment" /\ kind # "shiftLeftOne" /\ kind \notin Decimally
      /\ kind \in Sums \cup {"addBcd"}
  BY DEF Sums, Downward, Rightward, Decimally
<1>2. done = Size(kind) /\ r + Carried(kind, f) * m = a + First(kind) + Added(kind, a, b)
  BY <1>1, UpwardEnds
<1>3. PICK c \in 0 .. 1 : c = CarryIn(f) /\ (f.c <=> c = 1)
  BY DEF CarryIn
<1>4. SumsTo(a, b, c, r, m)
  <2>1. Carried(kind, f) = CarryIn(f) /\ Added(kind, a, b) = b
    BY <1>1, SumsCarry
  <2>2. First(kind) = 0
    BY <1>1 DEF First
  <2>3. r + c * m = a + b
    BY <1>2, <1>3, <2>1, <2>2
  <2> QED BY <2>3 DEF SumsTo, Ends
<1>5. /\ Rem(a + b, m) = r
      /\ c = 1 <=> a + b >= m \/ a + b < 0
      /\ Sgn(r, m) # Sgn(a, m) + Sgn(b, m)
           <=> (TopBit(a, m) <=> TopBit(b, m)) /\ ~(TopBit(a, m) <=> TopBit(r, m))
  BY <1>3, <1>4, WideSum
<1>6. /\ TopBit(a, m) <=> TopBit(left[done], Radix(kind)[done])
      /\ TopBit(b, m) <=> TopBit(right[done], Radix(kind)[done])
      /\ TopBit(r, m) <=> TopBit(result[done], Radix(kind)[done])
  BY <1>1, <1>2, ValueTop DEF Ends, SumInv, Shape
<1>7. SumFlags(Out(result[done], f), left[done], right[done], Radix(kind)[done])
  BY <1>2 DEF SumInv, TopFlags, LastFlags
<1>8. Known(f)
  BY DEF SumInv, Shape
<1>9. f.c = (a + b >= m \/ a + b < 0)
  BY <1>3, <1>5, <1>8 DEF Known
<1>10. /\ f.s = TopBit(result[done], Radix(kind)[done])
       /\ f.pv = (TopBit(left[done], Radix(kind)[done]) = TopBit(right[done], Radix(kind)[done])
                   /\ TopBit(left[done], Radix(kind)[done]) # TopBit(result[done], Radix(kind)[done]))
  BY <1>7 DEF SumFlags, Out
<1>11. f.s = TopBit(r, m)
  BY <1>6, <1>10 DEF TopBit
<1>12. f.pv = (Sgn(r, m) # Sgn(a, m) + Sgn(b, m))
  BY <1>5, <1>6, <1>10 DEF TopBit
<1> QED BY <1>5, <1>9, <1>11, <1>12

(***************************************************************************)
(* A number of bytes has as many negative values as others.                *)
(***************************************************************************)
LEMMA EvenModulus ==
  ASSUME SumInv, kind \notin Decimally
  PROVE \E h \in Nat : Modulus = 2 * h
<1>1. PICK n \in Nat : n = Size(kind) /\ n \in 1 .. n /\ n - 1 \in 0 .. n
  BY SizeIs
<1>2. kind \in Kinds
  BY DEF SumInv, Shape
<1>3. Radix(kind)[n] \in {256, 65536}
  BY <1>1, <1>2, RadixIs
<1>4. PICK g \in Nat : Radix(kind)[n] = 2 * g
  <2>1. 256 = 2 * 128 /\ 65536 = 2 * 32768 /\ 128 \in Nat /\ 32768 \in Nat
    BY SMT
  <2> QED BY <1>3, <2>1, SMT
<1>5. Scale(n, Radix(kind), W(kind))
  BY <1>1, <1>2, WeightsAre
<1>6. PICK w \in Nat : w = W(kind)[n - 1]
  BY <1>1, <1>5 DEF Scale
<1>7. W(kind)[n] = (2 * g) * w
  BY <1>1, <1>4, <1>5, <1>6 DEF Scale
<1>8. Modulus = W(kind)[n]
  <2>1. Limbed(kind, left)
    BY DEF SumInv, Shape
  <2> QED BY <1>1, <2>1, ValueIs
<1>9. (2 * g) * w = 2 * (g * w) /\ g * w \in Nat
  BY <1>4
<1> QED BY <1>7, <1>8, <1>9

(***************************************************************************)
(* A difference of many limbs.                                             *)
(***************************************************************************)
LEMMA DifferenceEnds ==
  ASSUME SumInv, ~running, kind \in Differences,
         NEW a \in Nat, NEW b \in Nat, NEW r \in Nat, NEW m \in Nat, Ends(a, b, r, m)
  PROVE /\ r = Rem(a - b, m) /\ f.c = (a - b >= m \/ a - b < 0)
        /\ f.s = TopBit(r, m) /\ f.pv = (Sgn(r, m) # Sgn(a, m) - Sgn(b, m))
        /\ (f.s # f.pv) = (Sgn(a, m) < Sgn(b, m))
<1>1. /\ kind \notin Downward /\ kind # "increment" /\ kind # "shiftLeftOne" /\ kind \notin Decimally
      /\ kind \in Subtracting
  BY DEF Differences, Downward, Rightward, Decimally, Subtracting
<1>2. done = Size(kind) /\ r + Carried(kind, f) * m = a + First(kind) + Added(kind, a, b)
  BY <1>1, UpwardEnds
<1>3. PICK c \in 0 .. 1 : c = CarryIn(f) /\ (f.c <=> c = 1)
  BY DEF CarryIn
<1>4. DiffersBy(a, b, c, r, m)
  <2>1. Carried(kind, f) = - CarryIn(f) /\ Added(kind, a, b) = - b
    BY <1>1, DifferencesCarry
  <2>2. First(kind) = 0
    BY <1>1 DEF First
  <2>3. r + (- c) * m = a - b
    BY <1>2, <1>3, <2>1, <2>2
  <2>4. (- c) * m = - (c * m) /\ c * m \in Int
    OBVIOUS
  <2>5. r - c * m = a - b
    BY <2>3, <2>4
  <2> QED BY <2>5 DEF DiffersBy, Ends
<1>5. /\ Rem(a - b, m) = r
      /\ c = 1 <=> a - b >= m \/ a - b < 0
      /\ Sgn(r, m) # Sgn(a, m) - Sgn(b, m)
           <=> ~(TopBit(a, m) <=> TopBit(b, m)) /\ ~(TopBit(a, m) <=> TopBit(r, m))
      /\ Sgn(a, m) < Sgn(b, m)
           <=> ~(TopBit(r, m) <=> ~(TopBit(a, m) <=> TopBit(b, m)) /\ ~(TopBit(a, m) <=> TopBit(r, m)))
  BY <1>3, <1>4, WideDifference
<1>6. /\ TopBit(a, m) <=> TopBit(left[done], Radix(kind)[done])
      /\ TopBit(b, m) <=> TopBit(right[done], Radix(kind)[done])
      /\ TopBit(r, m) <=> TopBit(result[done], Radix(kind)[done])
  BY <1>1, <1>2, ValueTop DEF Ends, SumInv, Shape
<1>7. DifferenceFlags(Out(result[done], f), left[done], right[done], Radix(kind)[done])
  BY <1>2 DEF SumInv, TopFlags, LastFlags
<1>8. Known(f)
  BY DEF SumInv, Shape
<1>9. f.c = (a - b >= m \/ a - b < 0)
  BY <1>3, <1>5, <1>8 DEF Known
<1>10. /\ f.s = TopBit(result[done], Radix(kind)[done])
       /\ f.pv = (TopBit(left[done], Radix(kind)[done]) # TopBit(right[done], Radix(kind)[done])
                   /\ TopBit(left[done], Radix(kind)[done]) # TopBit(result[done], Radix(kind)[done]))
  BY <1>7 DEF DifferenceFlags, Out
<1>11. f.s = TopBit(r, m)
  BY <1>6, <1>10 DEF TopBit
<1>12. f.pv = (Sgn(r, m) # Sgn(a, m) - Sgn(b, m))
  BY <1>5, <1>6, <1>10 DEF TopBit
<1>13. (f.s # f.pv) = (Sgn(a, m) < Sgn(b, m))
  BY <1>5, <1>11, <1>12 DEF TopBit
<1> QED BY <1>5, <1>9, <1>11, <1>12, <1>13

(***************************************************************************)
(* Sums and differences of many decimal digits.                            *)
(***************************************************************************)
LEMMA DecimalEnds ==
  ASSUME SumInv, ~running, kind \in Decimally,
         NEW a \in Nat, NEW b \in Nat, NEW r \in Nat, NEW m \in Nat, Ends(a, b, r, m)
  PROVE /\ kind = "addBcd" => r = Rem(a + b, m) /\ f.c = (a + b >= m)
        /\ kind = "subBcd" => r = Rem(a - b, m) /\ f.c = (a < b)
<1>1. kind \notin Downward /\ kind # "increment" /\ First(kind) = 0
  BY DEF Downward, Rightward, Decimally, First
<1>2. r + Carried(kind, f) * m = a + First(kind) + Added(kind, a, b)
  BY <1>1, UpwardEnds
<1>3. PICK c \in 0 .. 1 : c = CarryIn(f) /\ (f.c <=> c = 1)
  BY DEF CarryIn
<1>4. Known(f)
  BY DEF SumInv, Shape
<1>5. a < m /\ b < m /\ r < m
  BY DEF Ends
<1>6. CASE kind = "addBcd"
  <2>1. Carried(kind, f) = CarryIn(f) /\ Added(kind, a, b) = b
    BY <1>6, SumsCarry
  <2>2. SumsTo(a, b, c, r, m)
    BY <1>1, <1>2, <1>3, <1>5, <2>1 DEF SumsTo
  <2>3. Rem(a + b, m) = r /\ (c = 1 <=> a + b >= m \/ a + b < 0)
    BY <1>3, <2>2, WideSum
  <2>4. f.c = (a + b >= m)
    BY <1>3, <1>4, <2>3 DEF Known
  <2> QED BY <1>6, <2>3, <2>4
<1>7. CASE kind = "subBcd"
  <2>1. Carried(kind, f) = - CarryIn(f) /\ Added(kind, a, b) = - b
    BY <1>7, DifferencesCarry DEF Subtracting
  <2>2. (- c) * m = - (c * m) /\ c * m \in Int
    OBVIOUS
  <2>3. r - c * m = a - b
    BY <1>1, <1>2, <1>3, <2>1, <2>2
  <2>4. DiffersBy(a, b, c, r, m)
    BY <1>5, <2>3 DEF DiffersBy
  <2>5. Rem(a - b, m) = r /\ (c = 1 <=> a < b)
    BY <1>3, <2>4, WideDifference
  <2>6. f.c = (a < b)
    BY <1>3, <1>4, <2>5 DEF Known
  <2> QED BY <1>7, <2>5, <2>6
<1> QED BY <1>6, <1>7 DEF Decimally

(***************************************************************************)
(* A shift to the left of many bytes.                                      *)
(***************************************************************************)
LEMMA ShiftLeftEnds ==
  ASSUME SumInv, ~running, kind \in Leftward,
         NEW a \in Nat, NEW b \in Nat, NEW r \in Nat, NEW m \in Nat, Ends(a, b, r, m)
  PROVE r = Rem(2 * a + First(kind), m) /\ f.c = (2 * a >= m)
<1>1. /\ kind \notin Downward /\ kind # "increment" /\ kind \notin Sums \cup {"addBcd"}
      /\ kind \notin Subtracting
  BY DEF Leftward, Downward, Rightward, Subtracting, Sums, Differences
<1>2. r + Carried(kind, f) * m = a + First(kind) + Added(kind, a, b)
  BY <1>1, UpwardEnds
<1>3. PICK c \in 0 .. 1 : c = CarryIn(f) /\ (f.c <=> c = 1)
  BY DEF CarryIn
<1>4. Carried(kind, f) = CarryIn(f) /\ Added(kind, a, b) = a
  BY <1>1 DEF Carried, Added
<1>5. PICK e \in 0 .. 1 : e = First(kind)
  BY DEF First
<1>6. r + c * m = 2 * a + e
  BY <1>2, <1>3, <1>4, <1>5
<1>7. a < m /\ r < m
  BY DEF Ends
<1>8. PICK x \in Int : x = 2 * a + e
  OBVIOUS
<1>9. x = r \/ x = r + m
  BY <1>6, <1>8
<1>10. Rem(x, m) = r
  BY <1>7, <1>9, RemIs
<1>11. PICK h \in Nat : m = 2 * h
  <2>1. kind \notin Decimally
    BY DEF Leftward, Decimally
  <2> QED BY <2>1, EvenModulus DEF Ends
<1>12. c = 1 <=> 2 * a >= m
  <2>1. CASE c = 0
    BY <1>6, <1>7, <2>1
  <2>2. CASE c = 1
    BY <1>6, <1>7, <1>11, <2>2
  <2> QED BY <2>1, <2>2
<1>13. Known(f)
  BY DEF SumInv, Shape
<1>14. f.c = (2 * a >= m)
  BY <1>3, <1>12, <1>13 DEF Known
<1> QED BY <1>5, <1>8, <1>10, <1>14

(***************************************************************************)
(* An increment of many bytes, which stops at the first that does not      *)
(* become zero.                                                            *)
(***************************************************************************)
LEMMA IncrementEnds ==
  ASSUME SumInv, ~running, kind = "increment",
         NEW a \in Nat, NEW b \in Nat, NEW r \in Nat, NEW m \in Nat, Ends(a, b, r, m)
  PROVE r = Rem(a + 1, m) /\ f.z = (r = 0)
<1>1. /\ Shape(kind, left, right, result, done, running, f)
      /\ Upward(kind, left, right, result, done, running, f)
  BY DEF SumInv
<1>2. kind \notin Downward /\ kind \notin Sums \cup {"addBcd"} /\ kind \notin Subtracting /\ kind \notin Leftward
  BY DEF Downward, Rightward, Sums, Subtracting, Differences, Leftward
<1>3. kind \in Kinds /\ Limbed(kind, left) /\ Limbed(kind, result) /\ done \in 0 .. Size(kind) /\ done # 0
  BY <1>1 DEF Shape
<1>4. ZeroKnown(f) /\ (done = Size(kind) \/ ~f.z)
  BY <1>1, <1>2, <1>3 DEF Upward
<1>5. /\ Below(kind, left, Size(kind)) = a /\ Below(kind, result, Size(kind)) = r
      /\ W(kind)[Size(kind)] = m /\ a < m /\ r < m
  BY <1>3, ValueIs DEF Ends
<1>6. PICK w \in Nat \ {0} : w = W(kind)[done]
  BY <1>3, WeightsAre DEF Scale
<1>7. Addend(kind, left, right, done) = 0 /\ First(kind) = 1
  BY <1>2 DEF Addend, First
<1>8. Owed(kind, done, f) = IF f.z THEN 1 ELSE 0
  BY <1>3 DEF Owed, Carried
<1>9. PICK d \in 0 .. 1 : d = (IF f.z THEN 1 ELSE 0)
  OBVIOUS
<1>10. r + d * w = a + 1
  BY <1>1, <1>2, <1>5, <1>6, <1>7, <1>8, <1>9 DEF Upward
<1>11. d = 1 => w = m
  BY <1>4, <1>5, <1>6, <1>9
<1>12. PICK x \in Int : x = a + 1
  OBVIOUS
<1>13. x = r \/ x = r + m
  BY <1>10, <1>11, <1>12
<1>14. Rem(x, m) = r
  BY <1>5, <1>13, RemIs
<1>15. d = 1 <=> r = 0
  <2>1. CASE d = 0
    BY <1>10, <2>1
  <2>2. CASE d = 1
    BY <1>5, <1>10, <1>11, <2>2
  <2> QED BY <2>1, <2>2
<1>16. f.z = (r = 0)
  BY <1>4, <1>9, <1>15 DEF ZeroKnown
<1> QED BY <1>12, <1>14, <1>16

Leads(a, b, x, y, u, v, w) == u < w /\ v < w /\ a - b = (u + x * w) - (v + y * w)

(***************************************************************************)
(* A higher limb decides whatever the lower ones are.                      *)
(***************************************************************************)
LEMMA HigherDecides ==
  ASSUME NEW a \in Nat, NEW b \in Nat, NEW x \in Nat, NEW y \in Nat, NEW u \in Nat, NEW v \in Nat,
         NEW w \in Nat, Leads(a, b, x, y, u, v, w)
  PROVE (x < y => a < b) /\ (y < x => b < a)
<1>1. u < w /\ v < w /\ a - b = (u + x * w) - (v + y * w)
  BY DEF Leads
<1>2. ASSUME x < y PROVE a < b
  <2>1. PICK d \in Nat : y = x + 1 + d
    BY <1>2
  <2>2. y * w = x * w + w + d * w /\ d * w \in Nat /\ x * w \in Nat
    BY <2>1
  <2> QED BY <1>1, <2>2
<1>3. ASSUME y < x PROVE b < a
  <2>1. PICK d \in Nat : x = y + 1 + d
    BY <1>3
  <2>2. x * w = y * w + w + d * w /\ d * w \in Nat /\ y * w \in Nat
    BY <2>1
  <2> QED BY <1>1, <2>2
<1> QED BY <1>2, <1>3

(***************************************************************************)
(* A comparison of many bytes, which stops at the first that differ.       *)
(***************************************************************************)
LEMMA CompareEnds ==
  ASSUME SumInv, ~running, kind = "compare",
         NEW a \in Nat, NEW b \in Nat, NEW r \in Nat, NEW m \in Nat, Ends(a, b, r, m)
  PROVE f.c = (a < b) /\ f.z = (a = b)
<1>1. /\ kind \in Kinds /\ Limbed(kind, left) /\ Limbed(kind, right) /\ Known(f)
      /\ done \in 0 .. Size(kind) /\ done # 0
  BY DEF SumInv, Shape
<1>2. PICK n \in Nat, p \in Nat : n = Size(kind) /\ p = n - done + 1 /\ p \in 1 .. n /\ p \in 0 .. n /\ p - 1 \in 0 .. n
  BY <1>1, SizeIs
<1>3. /\ \A q \in 1 .. n : q > p => left[q] = right[q]
      /\ ZeroKnown(f) /\ (f.c <=> left[p] < right[p]) /\ (f.z <=> left[p] = right[p])
      /\ ~f.z \/ done = n
  BY <1>1, <1>2 DEF SumInv, Compared, ComparedTo
<1>4. kind \notin Decimally
  BY DEF Decimally
<1>5. PICK x \in Nat, y \in Nat : x = left[p] /\ y = right[p] /\ Digit(kind, left[p]) = x /\ Digit(kind, right[p]) = y
  BY <1>1, <1>2, <1>4 DEF Limbed, Digit, Fits
<1>6. PICK u \in Nat, v \in Nat, w \in Nat :
        /\ u = Below(kind, left, p - 1) /\ v = Below(kind, right, p - 1) /\ w = W(kind)[p - 1]
        /\ u < w /\ v < w
  <2>1. p - 1 \in 0 .. Size(kind)
    BY <1>2
  <2>2. W(kind)[p - 1] \in Nat
    BY <1>1, <2>1, WeightsAre DEF Scale
  <2>3. Below(kind, left, p - 1) \in Nat /\ Below(kind, left, p - 1) < W(kind)[p - 1]
    BY <1>1, <2>1, BelowIs
  <2>4. Below(kind, right, p - 1) \in Nat /\ Below(kind, right, p - 1) < W(kind)[p - 1]
    BY <1>1, <2>1, BelowIs
  <2> QED BY <2>2, <2>3, <2>4
<1>7. Below(kind, left, p) = u + x * w /\ Below(kind, right, p) = v + y * w
  BY <1>1, <1>2, <1>5, <1>6, BelowIs
<1>8. a - b = Below(kind, left, p) - Below(kind, right, p)
  <2>1. Below(kind, left, Size(kind)) = a /\ Below(kind, right, Size(kind)) = b
    BY <1>1, ValueIs DEF Ends
  <2>2. \A i \in 1 .. Size(kind) : i > p => left[i] = right[i]
    BY <1>2, <1>3
  <2>3. p \in 0 .. Size(kind)
    BY <1>2
  <2> QED BY <1>1, <2>1, <2>2, <2>3, BelowAgree
<1>9. Leads(a, b, x, y, u, v, w)
  BY <1>6, <1>7, <1>8 DEF Leads
<1>10. (x < y => a < b) /\ (y < x => b < a)
  <2>1. w \in Nat /\ u \in Nat /\ v \in Nat
    BY <1>6
  <2>2. x \in Nat /\ y \in Nat
    BY <1>5
  <2> QED BY <1>9, <2>1, <2>2, HigherDecides
<1>11. x = y => a = b
  <2> SUFFICES ASSUME x = y PROVE a = b
    OBVIOUS
  <2>1. p = 1
    <3>1. left[p] = right[p]
      BY <1>5
    <3>2. done = n
      BY <1>3, <3>1
    <3> QED BY <1>2, <3>2
  <2>2. Below(kind, left, 0) = 0 /\ Below(kind, right, 0) = 0
    BY <1>1, BelowIs
  <2>3. u = v
    BY <1>6, <2>1, <2>2
  <2>4. PICK z \in Int : z = x * w
    BY <1>5, <1>6
  <2>5. a - b = (u + z) - (u + z)
    BY <1>7, <1>8, <2>3, <2>4
  <2> QED BY <1>6, <2>5
<1>12. (x < y <=> a < b) /\ (x = y <=> a = b)
  BY <1>5, <1>10, <1>11
<1>13. f.c = (a < b)
  BY <1>1, <1>3, <1>5, <1>12 DEF Known
<1>14. f.z = (a = b)
  BY <1>3, <1>5, <1>12 DEF ZeroKnown
<1> QED BY <1>13, <1>14

(***************************************************************************)
(* A shift to the right that has stopped went through every limb.          *)
(***************************************************************************)
LEMMA RightEnds ==
  ASSUME SumInv, ~running, kind \in Rightward,
         NEW a \in Nat, NEW b \in Nat, NEW r \in Nat, NEW m \in Nat, Ends(a, b, r, m)
  PROVE 2 * r + CarryIn(f) = a + Sign(kind, left) * m
<1>1. /\ kind \in Kinds /\ Limbed(kind, left) /\ Limbed(kind, result)
      /\ done \in 0 .. Size(kind) /\ done # 0
  BY DEF SumInv, Shape
<1>2. done = Size(kind) /\ Size(kind) - done = 0
  BY SizeIs DEF SumInv, ShiftedRight
<1>3. Below(kind, left, 0) = 0 /\ W(kind)[0] = 1
  BY <1>1, BelowIs, WeightsAre DEF Scale
<1>4. Below(kind, left, Size(kind)) = a /\ Below(kind, result, Size(kind)) = r /\ W(kind)[Size(kind)] = m
  BY <1>1, ValueIs DEF Ends
<1>5. ShiftedIn(kind, left, done, f) = CarryIn(f)
  BY <1>1 DEF ShiftedIn
<1>6. 2 * (r - 0) + CarryIn(f) * 1 = a - 0 + Sign(kind, left) * m
  BY <1>2, <1>3, <1>4, <1>5 DEF SumInv, ShiftedRight
<1>7. PICK c \in Int, s \in Int : c = CarryIn(f) /\ s = Sign(kind, left)
  BY DEF CarryIn, Sign
<1> QED BY <1>6, <1>7

(***************************************************************************)
(* An unsigned shift to the right of many bytes.                           *)
(***************************************************************************)
LEMMA ShiftRightEnds ==
  ASSUME SumInv, ~running, kind = "shiftRight",
         NEW a \in Nat, NEW b \in Nat, NEW r \in Nat, NEW m \in Nat, Ends(a, b, r, m)
  PROVE r = a \div 2 /\ f.c = (a % 2 = 1)
<1>1. PICK c \in 0 .. 1 : c = CarryIn(f) /\ (f.c <=> c = 1)
  BY DEF CarryIn
<1>2. Sign(kind, left) = 0
  BY DEF Sign
<1>3. a = 2 * r + c
  BY <1>1, <1>2, RightEnds DEF Rightward
<1>4. a \div 2 = r /\ (c = 1 <=> a % 2 = 1)
  BY <1>1, <1>3, HalfIs
<1>5. f.c = (a % 2 = 1)
  BY <1>1, <1>4 DEF SumInv, Shape, Known
<1> QED BY <1>4, <1>5

(***************************************************************************)
(* A signed one, which rounds down.                                        *)
(***************************************************************************)
LEMMA ShiftSignedEnds ==
  ASSUME SumInv, ~running, kind = "shiftRightSigned",
         NEW a \in Nat, NEW b \in Nat, NEW r \in Nat, NEW m \in Nat, Ends(a, b, r, m)
  PROVE Sgn(r, m) = Sgn(a, m) \div 2 /\ f.c = (a % 2 = 1)
<1>1. PICK c \in 0 .. 1 : c = CarryIn(f) /\ (f.c <=> c = 1)
  BY DEF CarryIn
<1>2. kind \notin Decimally \cup Paired /\ kind \notin Decimally
  BY DEF Decimally, Paired
<1>3. PICK s \in 0 .. 1 : s = Sign(kind, left) /\ (s = 1 <=> TopBit(a, m))
  <2>1. TopBit(a, m) <=> TopBit(left[Size(kind)], Radix(kind)[Size(kind)])
    BY <1>2, ValueTop DEF Ends, SumInv, Shape
  <2>2. Radix(kind)[Size(kind)] = 256
    BY <1>2, SizeIs, RadixIs DEF SumInv, Shape
  <2> QED BY <2>1, <2>2 DEF Sign
<1>4. a < m /\ r < m
  BY DEF Ends
<1>5. PICK h \in Nat : m = 2 * h
  BY <1>2, EvenModulus DEF Ends
<1>6. 2 * r + c = a + s * m
  BY <1>1, <1>3, RightEnds DEF Rightward
<1>7. TopBit(r, m) <=> TopBit(a, m)
  <2>1. CASE s = 0
    BY <1>3, <1>4, <1>6, <2>1 DEF TopBit
  <2>2. CASE s = 1
    BY <1>3, <1>4, <1>5, <1>6, <2>2 DEF TopBit
  <2> QED BY <2>1, <2>2
<1>8. PICK x \in Int, y \in Int : x = Sgn(a, m) /\ y = Sgn(r, m) /\ x = 2 * y + c
  <2>1. Sgn(a, m) = a - s * m
    BY <1>3 DEF Sgn
  <2>2. Sgn(r, m) = r - s * m
    BY <1>3, <1>7 DEF Sgn
  <2>3. PICK z \in Int : z = s * m
    BY <1>3
  <2> QED BY <1>6, <2>1, <2>2, <2>3
<1>9. x \div 2 = y
  BY <1>8, HalfIs
<1>10. PICK k \in Int : a = 2 * k + c
  <2>1. a = 2 * (r - s * h) + c /\ r - s * h \in Int
    BY <1>5, <1>6
  <2> QED BY <2>1
<1>11. c = 1 <=> a % 2 = 1
  BY <1>10, HalfIs
<1>12. f.c = (a % 2 = 1)
  BY <1>1, <1>11 DEF SumInv, Shape, Known
<1> QED BY <1>8, <1>9, <1>12

(***************************************************************************)
(* A chain that stops in the invariant has computed on the whole number.   *)
(***************************************************************************)
LEMMA SumInvSuffices == SumInv => SequenceIsWide
<1> SUFFICES ASSUME SumInv, ~running PROVE SequenceIsWide
  BY DEF SequenceIsWide
<1> DEFINE a == Value(left)
           b == Value(right)
           r == Value(result)
           m == Modulus
<1>1. a \in Nat /\ b \in Nat /\ r \in Nat /\ m \in Nat /\ Ends(a, b, r, m)
  <2>1. Limbed(kind, left) /\ Limbed(kind, right) /\ Limbed(kind, result)
    BY DEF SumInv, Shape
  <2> QED BY <2>1, ValueIs DEF Ends
<1> DEFINE exact(wide, signed) ==
             /\ r = Rem(wide, m) /\ f.c = (wide >= m \/ wide < 0)
             /\ f.s = TopBit(r, m) /\ f.pv = (Sgn(r, m) # signed)
<1> HIDE DEF a, b, r, m
<1>2. kind \in Sums => exact(a + b, Sgn(a, m) + Sgn(b, m))
  BY <1>1, SumEnds
<1>3. kind \in Differences => exact(a - b, Sgn(a, m) - Sgn(b, m)) /\ (f.s # f.pv) = (Sgn(a, m) < Sgn(b, m))
  BY <1>1, DifferenceEnds
<1>4. /\ kind = "addBcd" => r = Rem(a + b, m) /\ f.c = (a + b >= m)
      /\ kind = "subBcd" => r = Rem(a - b, m) /\ f.c = (a < b)
  BY <1>1, DecimalEnds DEF Decimally
<1>5. kind = "compare" => f.c = (a < b) /\ f.z = (a = b)
  BY <1>1, CompareEnds
<1>6. kind = "increment" => r = Rem(a + 1, m) /\ f.z = (r = 0)
  BY <1>1, IncrementEnds
<1>7. /\ kind = "shiftLeft" => r = Rem(2 * a, m) /\ f.c = (2 * a >= m)
      /\ kind = "shiftLeftOne" => r = Rem(2 * a + 1, m) /\ f.c = (2 * a >= m)
  <2>1. kind \in Leftward => r = Rem(2 * a + First(kind), m) /\ f.c = (2 * a >= m)
    BY <1>1, ShiftLeftEnds
  <2>2. 2 * a + 0 = 2 * a
    BY <1>1
  <2> QED BY <2>1, <2>2 DEF Leftward, First
<1>8. kind = "shiftRight" => r = a \div 2 /\ f.c = (a % 2 = 1)
  BY <1>1, ShiftRightEnds
<1>9. kind = "shiftRightSigned" => Sgn(r, m) = Sgn(a, m) \div 2 /\ f.c = (a % 2 = 1)
  BY <1>1, ShiftSignedEnds
<1> QED BY <1>2, <1>3, <1>4, <1>5, <1>6, <1>7, <1>8, <1>9, Zenon
        DEF SequenceIsWide, Signed, Sgn, TopBit, Rem, a, b, r, m

(***************************************************************************)
(* For every choice of bytes, pairs and decimal digits and every length of *)
(* a number that a count in B allows: a chain of byte instructions         *)
(* computes on the whole number. Every limb passes its carry to the next   *)
(* through whatever stands between them, DAA and the count included, and   *)
(* the carry, the sign and the overflow flag that remain are those of the  *)
(* wide result.                                                            *)
(***************************************************************************)
THEOREM WideSequences == SpecSum => []SequenceIsWide
<1>1. InitSum => SumInv
  BY SumInvStarts
<1>2. SumInv /\ [NextSum]_sumVars => SumInv'
  BY SumInvKept
<1>3. SumInv => SequenceIsWide
  BY SumInvSuffices
<1> QED BY <1>1, <1>2, <1>3, PTL DEF SpecSum
=============================================================================
