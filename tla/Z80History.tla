----------------------------- MODULE Z80History -----------------------------
(***************************************************************************)
(* The executor driven by a caller that may latch requests between any two *)
(* calls, with two history variables that remember what the registers of   *)
(* the CPU are supposed to stand for.  They observe and never constrain.   *)
(***************************************************************************)
EXTENDS Z80Core

VARIABLES
  permitted,  \* EI was executed since reset, DI and the last INT acceptance
  frame       \* "on"/"off": IFF1 when the one NMI now being handled was taken,
              \* "none": no NMI is being handled, "void": the handler nested
              \* another NMI or changed the flip-flops itself

histVars == <<permitted, frame>>
vars == <<coreVars, histVars>>

HistoryTypeOK ==
  /\ permitted \in BOOLEAN
  /\ frame \in {"none", "on", "off", "void"}

(***************************************************************************)
(* Registers, latches and history variables have their types.              *)
(***************************************************************************)
TypeOK == CoreTypeOK /\ HistoryTypeOK

Closers == {"di", "int", "intfail"}

PermittedAfter(outcome) ==
  CASE outcome = "ei" -> TRUE
    [] outcome \in Closers -> FALSE
    [] OTHER -> permitted

FrameAfter(outcome) ==
  CASE outcome = "nmi" /\ frame = "none" -> IF iff1 = 1 THEN "on" ELSE "off"
    [] outcome = "nmi" /\ frame # "none" -> "void"
    [] outcome = "retn" -> "none"
    [] outcome \in Closers \union {"ei"} /\ frame # "none" -> "void"
    [] OTHER -> frame

Emulate ==
  /\ EmulateZ80Op
  /\ permitted' = PermittedAfter(last')
  /\ frame' = FrameAfter(last')

Raise ==
  /\ RaiseNMI \/ \E v \in Vectors : RaiseINT(v)
  /\ UNCHANGED histVars

Init ==
  /\ \E entry \in Targets, stack \in Targets : ResetZ80(entry, stack)
  /\ permitted = FALSE
  /\ frame = "none"

Next == Emulate \/ Raise

(***************************************************************************)
(* The caller's loop keeps calling; nobody has to raise anything.          *)
(***************************************************************************)
Spec == Init /\ [][Next]_vars /\ WF_vars(Emulate)

----------------------------------------------------------------------------
(***************************************************************************)
(* Every call is one step of the contract, and every request that can be   *)
(* taken is taken: EmulateZ80Op looks at its latches in the right order    *)
(* and updates both flip-flops, the shadow and the halted flag together.   *)
(***************************************************************************)
GateContract == Gate!Spec

(***************************************************************************)
(* Neither flip-flop can say "enabled" unless the program executed EI      *)
(* after the last DI and the last acceptance of a maskable interrupt: no   *)
(* sequence of NMIs and RETNs, whose copies go through IFF2, opens what    *)
(* ServiceMaskableInterrupt or DI closed.                                  *)
(***************************************************************************)
OnlyProgramEnables == (iff1 = 1 \/ iff2 = 1) => permitted

(***************************************************************************)
(* RETN at the end of an NMI handler that was not interrupted by another   *)
(* NMI and left EI and DI alone puts IFF1 back to what it was when         *)
(* ServiceNMI was entered, whatever else the handler executed.             *)
(***************************************************************************)
NmiReturnRestores ==
  [][last' = "retn" /\ frame \in {"on", "off"}
       => iff1' = (IF frame = "on" THEN 1 ELSE 0)]_vars

Registers == <<pc, sp, r, im, iff1, iff2, regs>>

(***************************************************************************)
(* While halted nothing moves, R and the stack pointer included, until an  *)
(* interrupt is taken, and the acceptance leaves the halt behind.          *)
(***************************************************************************)
HaltFreezes ==
  [][halted = 1 => \/ UNCHANGED <<Registers, halted>>
                   \/ last' \in {"nmi", "int", "intfail"} /\ halted' = 0]_vars
=============================================================================
