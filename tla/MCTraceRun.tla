----------------------------- MODULE MCTraceRun -----------------------------
(***************************************************************************)
(* Command lines for TraceRun.  Addresses are taken modulo 16 (the entries *)
(* 0x66 and 0x38 are 6 and 8) and R counts modulo 4, so that the one       *)
(* program with 3 prefixes in front of a jump turns it full circle as 127  *)
(* prefixes do in the code.  MaxSteps bounds every run.                    *)
(***************************************************************************)
EXTENDS TraceRun

CONSTANT MaxSteps

Plain ==
  [entryAddr |-> 0, spAddr |-> 0, maxSteps |-> MaxSteps, loopDetect |-> TRUE,
   stopAddrs |-> {}, interrupts |-> <<>>, timers |-> <<>>,
   tracepoints |-> {}, tracepointMax |-> 0, tracepointStop |-> FALSE,
   plugin |-> FALSE]

Irq(n, v) == [nmi |-> FALSE, step |-> n, vector |-> v]
Nmi(n) == [nmi |-> TRUE, step |-> n, vector |-> 255]
Timer(isNmi, p, s, v) == [nmi |-> isNmi, period |-> p, start |-> s, vector |-> v]

(***************************************************************************)
(* A maskable and a non-maskable request on different steps and on the     *)
(* same step, in both orders, and two vectors for one step.                *)
(***************************************************************************)
Scheduled ==
  {[Plain EXCEPT !.interrupts = q] :
     q \in {<<Irq(1, 255), Nmi(3)>>, <<Nmi(2), Irq(2, 255)>>,
            <<Irq(1, 255), Irq(1, 0)>>, <<Nmi(MaxSteps)>>, <<Irq(0, 255), Nmi(2), Nmi(2)>>}}

(***************************************************************************)
(* A timer slower and one faster than an instruction, one due at reset,    *)
(* a timer together with a scheduled request, two timers due together.     *)
(***************************************************************************)
Timed ==
  {[Plain EXCEPT !.timers = q] :
     q \in {<<Timer(FALSE, 9, 9, 255)>>, <<Timer(TRUE, 3, 0, 255)>>,
            <<Timer(FALSE, 5, 2, 0), Timer(FALSE, 10, 7, 255)>>,
            <<Timer(TRUE, 30, 30, 255), Timer(FALSE, 8, 8, 255)>>}}
  \union
  {[Plain EXCEPT !.timers = <<Timer(FALSE, 20, 20, 255)>>,
                 !.interrupts = <<Nmi(3)>>, !.loopDetect = b] : b \in BOOLEAN}

Traced ==
  {[Plain EXCEPT !.tracepoints = {0, 1}, !.tracepointMax = n, !.tracepointStop = b] :
     n \in {0, 2}, b \in BOOLEAN}
  \union
  {[Plain EXCEPT !.tracepoints = {0, 1}, !.tracepointMax = 1, !.interrupts = <<Irq(3, 255)>>]}

Others ==
  {Plain, [Plain EXCEPT !.plugin = TRUE],
   [Plain EXCEPT !.loopDetect = FALSE], [Plain EXCEPT !.stopAddrs = {6, 8}, !.plugin = TRUE]}

MCConfigs == Scheduled \union Timed \union Traced \union Others

MCTargets == {0}
MCPrefixes == {0, 3}
MCOpForms == {<<1, 1>>}
MCRegs == {0, 1}
MCVectors == {0, 255}
MCKinds == {"op", "jump", "halt", "ei", "di", "retn"}
=============================================================================
