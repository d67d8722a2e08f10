----------------------------- MODULE MCBusTrace -----------------------------
(***************************************************************************)
(* BusTrace with four addresses, a buffer of four events and dump lines of *)
(* two bytes.                                                              *)
(***************************************************************************)
EXTENDS BusTrace

MCBytes == {"prefix", "halt", "storeWord", "blockInput", "bitUpdate"}
MCWriteData == {"halt"}
MCTargets == {1, 3}

(***************************************************************************)
(* None, one, two and only prefixes in front of an instruction with the    *)
(* most cycles, an instruction that overwrites itself and one that wraps.  *)
(***************************************************************************)
Image(a, b, c, d) == [i \in Addr |-> <<a, b, c, d>>[i + 1]]

MCImages ==
  {Image("storeWord", "halt", "prefix", "blockInput"),
   Image("prefix", "blockInput", "halt", "storeWord"),
   Image("prefix", "prefix", "prefix", "storeWord"),
   Image("blockInput", "prefix", "prefix", "halt"),
   Image("bitUpdate", "prefix", "bitUpdate", "halt"),
   Image("prefix", "prefix", "prefix", "prefix")}

Range(s, n) == [start |-> s, length |-> n]

MCConfigs ==
  {[busTrace |-> TRUE, ioTrace |-> FALSE, dumps |-> <<>>],
   [busTrace |-> TRUE, ioTrace |-> TRUE, dumps |-> <<Range(3, 3), Range(0, 4)>>]}
  \union
  {[busTrace |-> FALSE, ioTrace |-> FALSE, dumps |-> d] :
     d \in {<<Range(3, 2), Range(1, 1)>>, <<Range(2, 4)>>, <<Range(1, 3)>>}}
=============================================================================
