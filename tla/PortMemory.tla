---------------------------- MODULE PortMemory ----------------------------
(***************************************************************************)
(* What a program sees of the Z80's ports: one byte per port, the last     *)
(* value that crossed it, which an input returns unless a device behind    *)
(* the ports answers for itself.                                           *)
(***************************************************************************)
CONSTANTS Ports, Byte

VARIABLES
  held,      \* the byte of each port
  access,    \* the last access
  answers    \* does a device answer inputs?

vars == <<held, access, answers>>

Access == [kind : {"none", "in", "out"}, port : Ports, data : Byte]

Init ==
  /\ held \in [Ports -> Byte]
  /\ access \in {a \in Access : a.kind = "none"}
  /\ answers \in BOOLEAN

Cross(kind, p, v) ==
  /\ held' = [held EXCEPT ![p] = v]
  /\ access' = [kind |-> kind, port |-> p, data |-> v]
  /\ UNCHANGED answers

Input(p) == \E v \in Byte : (answers \/ v = held[p]) /\ Cross("in", p, v)
Output(p) == \E v \in Byte : Cross("out", p, v)

Next == \E p \in Ports : Input(p) \/ Output(p)

Spec == Init /\ [][Next]_vars
=============================================================================
