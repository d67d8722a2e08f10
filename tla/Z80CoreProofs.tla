--------------------------- MODULE Z80CoreProofs ---------------------------
(***************************************************************************)
(* What the runs of MCZ80Core find on four addresses, proved for every     *)
(* address space, program and sequence of requests.                        *)
(***************************************************************************)
EXTENDS Z80History, ScheduleLemmas

USE DEF Bit, Wake, EndShadow, DisableInterrupts, RestoreIff1

(***************************************************************************)
(* The state InitializeZ80Ex leaves behind is well typed.                  *)
(***************************************************************************)
LEMMA InitType == Init => TypeOK
<1> SUFFICES ASSUME Init PROVE TypeOK OBVIOUS
<1>1. PICK entry \in Targets, stack \in Targets : ResetZ80(entry, stack)
  BY DEF Init
<1>2. CoreTypeOK
  BY <1>1, TargetsAreAddr, RefreshAssumption, VectorsAssumption, RegsAssumption
     DEF ResetZ80, CoreTypeOK, Outcomes
<1> QED BY <1>2 DEF Init, TypeOK, HistoryTypeOK

(***************************************************************************)
(* One step of either kind, a call or a request, keeps every variable in   *)
(* its type.                                                               *)
(***************************************************************************)
LEMMA NextType == TypeOK /\ [Next]_vars => TypeOK'
<1> SUFFICES ASSUME TypeOK, [Next]_vars PROVE TypeOK' OBVIOUS
<1> USE DEF TypeOK, HistoryTypeOK
<1>1. CASE Emulate
  <2>1. CoreTypeOK'
    BY <1>1, CallType DEF Emulate
  <2>2. HistoryTypeOK'
    BY <1>1 DEF Emulate, PermittedAfter, FrameAfter
  <2> QED BY <2>1, <2>2
<1>2. CASE Raise
  <2>1. CoreTypeOK'
    BY <1>2, VectorsAssumption DEF Raise, RaiseNMI, RaiseINT, CoreTypeOK
  <2> QED BY <1>2, <2>1 DEF Raise, histVars
<1>3. CASE UNCHANGED vars
  BY <1>3 DEF vars, coreVars, histVars, CoreTypeOK
<1> QED BY <1>1, <1>2, <1>3 DEF Next

(***************************************************************************)
(* Every register, flip-flop and latch keeps the width its C type and its  *)
(* masks give it, whatever the program does and whenever requests come.    *)
(***************************************************************************)
THEOREM TypeCorrect == Spec => []TypeOK
BY InitType, NextType, PTL DEF Spec

----------------------------------------------------------------------------
(***************************************************************************)
(* The inductive invariant.  An NMI frame that nobody disturbed keeps the  *)
(* saved flip-flop in IFF2 and IFF1 closed; the shadow stands only right   *)
(* after EI, so a halted CPU is never in it.                               *)
(***************************************************************************)
FrameKeepsIff2 ==
  /\ frame = "on" => iff1 = 0 /\ iff2 = 1
  /\ frame = "off" => iff1 = 0 /\ iff2 = 0
  /\ last = "retn" => frame = "none"

InterruptInv == TypeOK /\ OnlyProgramEnables /\ ShadowIsOneCall /\ FrameKeepsIff2

(***************************************************************************)
(* After reset both flip-flops and the shadow are off and no frame is      *)
(* open.                                                                   *)
(***************************************************************************)
LEMMA InitInterruptInv == Init => InterruptInv
BY InitType DEF Init, ResetZ80, InterruptInv, OnlyProgramEnables, ShadowIsOneCall, FrameKeepsIff2

(***************************************************************************)
(* The invariant is inductive: a call and a request both keep it.          *)
(***************************************************************************)
LEMMA NextInterruptInv == InterruptInv /\ [Next]_vars => InterruptInv'
<1> SUFFICES ASSUME InterruptInv, [Next]_vars PROVE InterruptInv' OBVIOUS
<1> USE DEF InterruptInv
<1>0. TypeOK'
  BY NextType
<1>1. CASE Emulate
  <2> USE DEF Emulate, OnlyProgramEnables, ShadowIsOneCall, FrameKeepsIff2,
              PermittedAfter, FrameAfter, Closers, TypeOK, CoreTypeOK
  <2>1. CASE ServiceNMI
    BY <1>0, <1>1, <2>1 DEF ServiceNMI
  <2>2. CASE ServiceMaskableInterrupt
    <3>1. last' \in {"int", "intfail"}
      BY <2>2 DEF ServiceMaskableInterrupt, Vectored, NotVectored
    <3> QED BY <1>0, <1>1, <2>2, <3>1 DEF ServiceMaskableInterrupt, INTAccepted
  <2>3. CASE StayHalted
    BY <1>0, <1>1, <2>3 DEF StayHalted
  <2>4. CASE Execute
    BY <1>0, <1>1, <2>4, ExecuteEffect DEF FlagEffect, PlainKinds, InstrKinds
  <2> QED BY <1>1, <2>1, <2>2, <2>3, <2>4 DEF EmulateZ80Op
<1>2. CASE Raise
  BY <1>0, <1>2 DEF Raise, RaiseNMI, RaiseINT, histVars, OnlyProgramEnables,
                    ShadowIsOneCall, FrameKeepsIff2
<1>3. CASE UNCHANGED vars
  BY <1>0, <1>3 DEF vars, coreVars, histVars, OnlyProgramEnables,
                    ShadowIsOneCall, FrameKeepsIff2
<1> QED BY <1>1, <1>2, <1>3 DEF Next

(***************************************************************************)
(* The invariant holds in every reachable state.                           *)
(***************************************************************************)
LEMMA InterruptInvariant == Spec => []InterruptInv
BY InitInterruptInv, NextInterruptInv, PTL DEF Spec

(***************************************************************************)
(* The flip-flops say "enabled" only when the program said so: neither an  *)
(* NMI nor a RETN, alone or in any sequence, reopens what was closed.      *)
(***************************************************************************)
THEOREM EnabledByProgram == Spec => []OnlyProgramEnables
BY InterruptInvariant, PTL DEF InterruptInv

(***************************************************************************)
(* The shadow of EI lasts one call.                                        *)
(***************************************************************************)
THEOREM EiShadow == Spec => []ShadowIsOneCall
BY InterruptInvariant, PTL DEF InterruptInv

(***************************************************************************)
(* The step form of the next theorem: RETN copies IFF2, which an open      *)
(* frame keeps as the saved enable.                                        *)
(***************************************************************************)
LEMMA ReturnStep ==
  InterruptInv /\ [Next]_vars =>
    [last' = "retn" /\ frame \in {"on", "off"}
       => iff1' = (IF frame = "on" THEN 1 ELSE 0)]_vars
<1> SUFFICES ASSUME InterruptInv, Next, last' = "retn", frame \in {"on", "off"}
             PROVE iff1' = (IF frame = "on" THEN 1 ELSE 0)
  OBVIOUS
<1>1. CASE Emulate
  <2>1. Execute
    BY <1>1 DEF Emulate, EmulateZ80Op, ServiceNMI, ServiceMaskableInterrupt,
                Vectored, NotVectored, StayHalted
  <2>2. iff1' = iff2
    BY <2>1, ExecuteEffect DEF FlagEffect, PlainKinds
  <2> QED BY <2>2 DEF InterruptInv, FrameKeepsIff2
<1>2. CASE Raise
  BY <1>2 DEF Raise, RaiseNMI, RaiseINT, InterruptInv, FrameKeepsIff2
<1> QED BY <1>1, <1>2 DEF Next

(***************************************************************************)
(* An undisturbed NMI handler returns the enable it found.                 *)
(***************************************************************************)
THEOREM NmiReturn == Spec => NmiReturnRestores
BY InterruptInvariant, ReturnStep, PTL DEF Spec, NmiReturnRestores

(***************************************************************************)
(* The step form of the next theorem: Execute is out of reach while        *)
(* halted.                                                                 *)
(***************************************************************************)
LEMMA HaltStep ==
  [Next]_vars =>
    [halted = 1 => \/ UNCHANGED <<Registers, halted>>
                   \/ last' \in {"nmi", "int", "intfail"} /\ halted' = 0]_vars
<1> SUFFICES ASSUME Next, halted = 1
             PROVE \/ UNCHANGED <<Registers, halted>>
                   \/ last' \in {"nmi", "int", "intfail"} /\ halted' = 0
  OBVIOUS
<1>1. CASE Emulate
  <2>1. CASE ServiceNMI
    BY <2>1 DEF ServiceNMI
  <2>2. CASE ServiceMaskableInterrupt
    BY <2>2 DEF ServiceMaskableInterrupt, Vectored, NotVectored
  <2>3. CASE StayHalted
    BY <2>3 DEF StayHalted, Registers
  <2>4. CASE Execute
    BY <2>4, ExecuteEffect
  <2> QED BY <1>1, <2>1, <2>2, <2>3, <2>4 DEF Emulate, EmulateZ80Op
<1>2. CASE Raise
  BY <1>2 DEF Raise, RaiseNMI, RaiseINT, Registers
<1> QED BY <1>1, <1>2 DEF Next

(***************************************************************************)
(* A halted CPU stays put until an acceptance.                             *)
(***************************************************************************)
THEOREM HaltSleeps == Spec => HaltFreezes
BY HaltStep, PTL DEF Spec, HaltFreezes

----------------------------------------------------------------------------
(***************************************************************************)
(* The executor implements the safety part of the interrupt contract.      *)
(***************************************************************************)
THEOREM ImplementsGate == Spec => GateSafety
<1>1. Init => Gate!Init
  BY DEF Init, ResetZ80, Gate!Init, GateOf
<1>2. InterruptInv /\ [Next]_vars => [Gate!Next]_(Gate!vars)
  <2> SUFFICES ASSUME InterruptInv, [Next]_vars PROVE [Gate!Next]_(Gate!vars)
    OBVIOUS
  <2>1. CASE Emulate
    BY <2>1, CallSimulated DEF Emulate, InterruptInv, TypeOK, Gate!Next
  <2>2. CASE Raise
    BY <2>2, RequestSimulated DEF Raise, InterruptInv, TypeOK, Gate!Next
  <2>3. CASE UNCHANGED vars
    BY <2>3 DEF vars, coreVars, Gate!vars, GateOf
  <2> QED BY <2>1, <2>2, <2>3 DEF Next
<1> QED BY <1>1, <1>2, InterruptInvariant, PTL DEF Spec, GateSafety, Gate!SafeSpec
=============================================================================
