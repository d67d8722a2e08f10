---------------------------- MODULE MCGdbServer -----------------------------
(***************************************************************************)
(* GdbServer with four addresses and a few sessions.                       *)
(***************************************************************************)
EXTENDS GdbServer

CONSTANT MaxSteps

Plain ==
  [entryAddr |-> 0, spAddr |-> 0, maxSteps |-> MaxSteps, loopDetect |-> TRUE,
   stopAddrs |-> {}, interrupts |-> <<>>, timers |-> <<>>,
   tracepoints |-> {}, tracepointMax |-> 0, tracepointStop |-> FALSE,
   plugin |-> FALSE]

(***************************************************************************)
(* Nothing scheduled; an NMI for the second step; a timer.                 *)
(***************************************************************************)
MCConfigs ==
  {Plain,
   [Plain EXCEPT !.interrupts = <<[nmi |-> TRUE, step |-> 1, vector |-> 255]>>],
   [Plain EXCEPT !.timers = <<[nmi |-> FALSE, period |-> 8, start |-> 8, vector |-> 0]>>]}

Cmd(op) == [op |-> op, addr |-> -1]
CmdAt(op, a) == [op |-> op, addr |-> a]

(***************************************************************************)
(* Breakpoints set, hit, continued from and removed; registers written,    *)
(* also half; steps past the step limit; both ways to end and both modes   *)
(* of acknowledgement.                                                     *)
(***************************************************************************)
MCSessions ==
  {<<CmdAt("Z", 1), Cmd("c"), Cmd("c"), Cmd("D")>>,
   <<CmdAt("Z", 0), Cmd("c"), CmdAt("z", 0), Cmd("c")>>,
   <<Cmd("ask"), CmdAt("set", 1), Cmd("s"), CmdAt("c", 1)>>,
   <<Cmd("noack"), CmdAt("Z", 1), CmdAt("c", 1), Cmd("k")>>,
   <<Cmd("noack"), Cmd("c"), Cmd("c"), Cmd("D")>>,
   <<Cmd("bad"), CmdAt("setbad", 2), Cmd("s"), Cmd("s"), Cmd("s"), Cmd("s"), Cmd("k")>>}

MCTargets == {0}
MCPrefixes == {0}
MCRegs == {0}
MCVectors == {0, 255}
MCOpForms == {<<1, 1>>}
MCKinds == {"op", "jump", "halt", "ei"}
=============================================================================
