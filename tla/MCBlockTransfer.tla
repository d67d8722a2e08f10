-------------------------- MODULE MCBlockTransfer --------------------------
(***************************************************************************)
(* BlockTransfer with bytes of four values and sixteen addresses.  The     *)
(* instruction is at 0, at 7 or across the end of memory.                  *)
(***************************************************************************)
EXTENDS BlockTransfer

MCInstructions == Instruction

Striped(x) == IF x = 9 THEN 2 ELSE (x \div 2) % 2
Plain(x) == 1

Memory(p, Fill(_)) ==
  [x \in Addr |-> CASE x = p -> ED
                    [] x = (p + 1) % AddrSpace -> Op
                    [] OTHER -> Fill(x)]

(***************************************************************************)
(* Copies that overlap forwards and backwards, wrap around, overwrite the  *)
(* instruction, the stack or nothing; counts of one, a few and the         *)
(* largest; and a search for what memory does not hold.                    *)
(***************************************************************************)
MCStarts ==
  {[memory |-> Memory(p, Striped), pc |-> p, sp |-> s, a |-> x,
    hl |-> h, de |-> (h + d) % AddrSpace, bc |-> c] :
     p \in {0, 7, 15}, s \in {1, 6}, x \in {1, 2}, h \in {2, 9, 14},
     d \in {0, 1, 2, 15}, c \in {0, 1, 4, 5, 12}}
  \union
  {[memory |-> Memory(7, Plain), pc |-> 7, sp |-> 6, a |-> 0, hl |-> 9, de |-> 10, bc |-> c] :
     c \in {0, 3}}
=============================================================================
