------------------------------ MODULE MCZ80Isa ------------------------------
(***************************************************************************)
(* Every opcode behind no prefix, one, and two of which the second counts; *)
(* and the boundary values of the arithmetic.  The decoder and the         *)
(* arithmetic share no state: where one of them runs, the other starts in  *)
(* one state only.                                                         *)
(***************************************************************************)
EXTENDS Z80Decode, Z80Arithmetic

MCPrefixes == {<<>>, <<DD>>, <<FD>>, <<DD, FD>>}

MCCodes ==
  [prefixes : MCPrefixes, op : (0 .. 255) \ {CB, DD, ED, FD}, sub : {0}, taken : BOOLEAN] \cup
  [prefixes : MCPrefixes, op : {CB, ED}, sub : 0 .. 255, taken : BOOLEAN]

MCBytes == {0, 1, 15, 16, 127, 128, 254, 255}
MCDecimals == {16 * t + u : t \in {0, 4, 5, 9}, u \in {0, 1, 9}}
MCWords == {0, 1, 4095, 4096, 32767, 32768, 65534, 65535}

Nop == [prefixes |-> <<>>, op |-> 0, sub |-> 0, taken |-> FALSE]

\* Zero, incremented.
IdleSum ==
  /\ kind = "increment" /\ left = [k \in 1 .. Limbs |-> 0] /\ right = left
  /\ result = [left EXCEPT ![1] = 1] /\ done = 1 /\ running = FALSE /\ f = FlagsSZ53(1)

Init ==
  \/ InitDecode /\ IdleSum
  \/ code = Nop /\ InitDecode /\ InitSum

Next ==
  \/ NextDecode /\ UNCHANGED sumVars
  \/ NextSum /\ UNCHANGED decodeVars

Spec == Init /\ [][Next]_<<decodeVars, sumVars>>
=============================================================================
