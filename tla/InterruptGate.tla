--------------------------- MODULE InterruptGate ---------------------------
(***************************************************************************)
(* What the interrupt logic of the emulated CPU promises to whoever raises *)
(* an interrupt, without registers, vectors or instruction encodings.      *)
(*                                                                         *)
(* Maskable requests pass a gate.  The gate is closed by DI and by every   *)
(* acceptance, and EI does not open it at once: it stands in the shadow of *)
(* EI for exactly one more instruction.  A non-maskable request is never   *)
(* held back by the gate; taking it closes the gate and remembers, once,   *)
(* whether RETN has to open it again.  A sleeping (halted) CPU executes    *)
(* nothing until a request is taken.                                       *)
(***************************************************************************)
VARIABLES
  gate,      \* "closed", "shadow" (EI was the last instruction) or "open"
  resume,    \* would RETN open the gate?
  nmi,       \* a non-maskable request is latched
  int,       \* a maskable request is latched
  asleep     \* HALT was executed and nothing has woken the CPU since

vars == <<gate, resume, nmi, int, asleep>>

Init ==
  /\ gate = "closed"
  /\ resume = FALSE
  /\ nmi = FALSE
  /\ int = FALSE
  /\ asleep = FALSE

(***************************************************************************)
(* A device latches one or both requests; a latched request stays latched. *)
(***************************************************************************)
Request ==
  /\ nmi' \in {nmi, TRUE}
  /\ int' \in {int, TRUE}
  /\ UNCHANGED <<gate, resume, asleep>>

TakeNMI ==
  /\ nmi
  /\ nmi' = FALSE
  /\ asleep' = FALSE
  /\ resume' = (gate # "closed")
  /\ gate' = "closed"
  /\ UNCHANGED int

TakeINT ==
  /\ int /\ ~nmi /\ gate = "open"
  /\ int' = FALSE
  /\ asleep' = FALSE
  /\ resume' = FALSE
  /\ gate' = "closed"
  /\ UNCHANGED nmi

(***************************************************************************)
(* An instruction is executed only when no request can be taken.           *)
(***************************************************************************)
MayExecute == ~asleep /\ ~nmi /\ ~(int /\ gate = "open")

GateAfterShadow == IF gate = "shadow" THEN "open" ELSE gate

Ordinary ==
  /\ MayExecute
  /\ gate' = GateAfterShadow
  /\ asleep' \in BOOLEAN          \* HALT puts the CPU to sleep
  /\ UNCHANGED <<resume, nmi, int>>

Enable ==
  /\ MayExecute
  /\ gate' = "shadow"
  /\ resume' = TRUE
  /\ UNCHANGED <<nmi, int, asleep>>

Disable ==
  /\ MayExecute
  /\ gate' = "closed"
  /\ resume' = FALSE
  /\ UNCHANGED <<nmi, int, asleep>>

Restore ==
  /\ MayExecute
  /\ gate' = (IF resume THEN "open" ELSE "closed")
  /\ UNCHANGED <<resume, nmi, int, asleep>>

CpuStep == TakeNMI \/ TakeINT \/ Ordinary \/ Enable \/ Disable \/ Restore

Next == Request \/ CpuStep

(***************************************************************************)
(* The safety part: a system that may stop calling the CPU still obeys it. *)
(***************************************************************************)
SafeSpec == Init /\ [][Next]_vars

(***************************************************************************)
(* Somebody keeps calling the CPU, so a request that can be taken is.      *)
(***************************************************************************)
Fairness == WF_vars(TakeNMI) /\ WF_vars(TakeINT)

Spec == SafeSpec /\ Fairness
=============================================================================
