--------------------------- MODULE ScheduleLemmas ---------------------------
(***************************************************************************)
(* What the proofs of the executor and of the two loops that drive it keep *)
(* needing, stated once.  First one call of EmulateZ80Op: it keeps the     *)
(* types, touches the interrupt state in a few ways only and is a step of  *)
(* InterruptGate.  Then arming, a call with its clock and the plugin's     *)
(* request, whichever loop they are part of: they keep the types and the   *)
(* interrupt contract.                                                     *)
(***************************************************************************)
EXTENDS Schedule, TLAPS

USE DEF Bit, Wake, EndShadow, DisableInterrupts, RestoreIff1

(***************************************************************************)
(* Addresses stay addresses: UINT16 arithmetic wraps.                      *)
(***************************************************************************)
LEMMA WrapIsAddr ==
  ASSUME NEW a \in Int PROVE Wrap(a) \in Addr
BY AddrSpaceAssumption DEF Wrap, Addr

(***************************************************************************)
(* The targets an instruction may reach are addresses.                     *)
(***************************************************************************)
LEMMA TargetsAreAddr == Targets \subseteq Addr /\ RstTargets \subseteq Addr
<1>1. Targets \subseteq Addr
  BY TargetsAssumption
<1>2. ASSUME NEW n \in 0 .. 7 PROVE Wrap(8 * n) \in Addr
  BY WrapIsAddr, 8 * n \in Int
<1> QED BY <1>1, <1>2 DEF RstTargets

(***************************************************************************)
(* IncrementR keeps R in its range.                                        *)
(***************************************************************************)
LEMMA RefreshInRange ==
  ASSUME NEW n \in Nat, r \in 0 .. RefreshMod - 1
  PROVE (r + n) % RefreshMod \in 0 .. RefreshMod - 1
BY RefreshAssumption

(***************************************************************************)
(* One call of EmulateZ80Op keeps every variable in its type.              *)
(***************************************************************************)
LEMMA CallType == ASSUME CoreTypeOK, EmulateZ80Op PROVE CoreTypeOK'
<1> USE DEF CoreTypeOK, latches
<1>1. sp - 2 \in Int /\ sp + 2 \in Int /\ Wrap(sp - 2) \in Addr /\ Wrap(sp + 2) \in Addr
  <2>1. sp - 2 \in Int /\ sp + 2 \in Int
    BY DEF Addr
  <2> QED BY <2>1, WrapIsAddr
<1>2. ASSUME NEW n \in Nat, NextPc(n) PROVE pc' \in Addr
  <2>1. pc + n \in Int
    BY DEF Addr
  <2> QED BY <1>2, <2>1, WrapIsAddr DEF NextPc
<1>3. ASSUME NEW n \in Nat, FetchOpcodes(n) PROVE r' \in 0 .. RefreshMod - 1
  BY <1>3, RefreshInRange DEF FetchOpcodes
<1>4. CASE ServiceNMI
  <2>1. Wrap(102) \in Addr
    BY WrapIsAddr
  <2> QED BY <1>4, <1>1, <2>1 DEF ServiceNMI, Push16, Outcomes
<1>5. CASE ServiceMaskableInterrupt
  <2>1. ASSUME Vectored PROVE pc' \in Addr /\ sp' \in Addr /\ last' \in Outcomes
    <3>1. RstEntry(irq_vector) \in Addr /\ Wrap(56) \in Addr
      <4>1. irq_vector \in Int
        BY VectorsAssumption
      <4>2. 8 * ((irq_vector \div 8) % 8) \in Int
        BY <4>1
      <4> QED BY <4>2, WrapIsAddr DEF RstEntry
    <3> QED BY <2>1, <3>1, <1>1, TargetsAreAddr DEF Vectored, Push16, Outcomes
  <2>2. ASSUME NotVectored PROVE pc' \in Addr /\ sp' \in Addr /\ last' \in Outcomes
    BY <2>2 DEF NotVectored, Outcomes
  <2> QED BY <1>5, <2>1, <2>2 DEF ServiceMaskableInterrupt
<1>6. CASE StayHalted
  BY <1>6 DEF StayHalted, Outcomes
<1>7. CASE Execute
  <2>1. PICK p \in Prefixes :
          \/ Op(p) \/ Stack(p) \/ Jump(p) \/ Call(p) \/ Ret(p) \/ Retn(p)
          \/ Repeat(p) \/ Halt(p) \/ Ei(p) \/ Di(p) \/ Im(p) \/ Ldr(p)
    BY <1>7 DEF Execute
  <2>2. p \in Nat
    BY PrefixesAssumption
  <2>3. ASSUME NEW kind, Instr(kind)
        PROVE /\ nmi_pending' \in Bit /\ irq_pending' \in Bit
              /\ ei_pending' \in Bit /\ irq_vector' \in Vectors
              /\ last' \in Outcomes
    BY <2>3, KindsAssumption DEF Instr, EiPendingAfter, Outcomes
  <2>4. ASSUME NEW n \in 0 .. 4 PROVE p + n \in Nat
    BY <2>2
  <2>5. CASE Op(p)
    <3>1. PICK f \in OpForms : FetchOpcodes(p + f[2]) /\ NextPc(p + f[1])
      BY <2>5 DEF Op
    <3>2. f[1] \in 0 .. 4 /\ f[2] \in 0 .. 4
      BY OpFormsAssumption
    <3> QED BY <2>5, <3>1, <3>2, <2>3, <2>4, <1>2, <1>3 DEF Op
  <2>6. CASE Stack(p)
    <3>1. ASSUME NEW d \in {-2, -1, 1, 2} PROVE Wrap(sp + d) \in Addr
      <4>1. sp + d \in Int
        BY DEF Addr
      <4> QED BY <4>1, WrapIsAddr
    <3>2. pc' \in Addr /\ r' \in 0 .. RefreshMod - 1
      BY <2>6, <2>4, <1>2, <1>3 DEF Stack
    <3> QED BY <2>6, <3>1, <3>2, <2>3, TargetsAreAddr DEF Stack
  <2>7. CASE Jump(p)
    BY <2>7, <2>3, <2>4, <1>3, TargetsAreAddr DEF Jump
  <2>8. CASE Call(p)
    BY <2>8, <2>3, <2>4, <1>1, <1>3, TargetsAreAddr DEF Call, Push16
  <2>9. CASE Ret(p)
    BY <2>9, <2>3, <2>4, <1>1, <1>3, TargetsAreAddr DEF Ret, Pop16
  <2>10. CASE Retn(p)
    BY <2>10, <2>3, <2>4, <1>1, <1>3, TargetsAreAddr DEF Retn, Pop16
  <2>11. CASE Repeat(p)
    BY <2>11, <2>2, <2>3, <2>4, <1>2, <1>3 DEF Repeat
  <2>12. CASE Halt(p)
    BY <2>12, <2>3, <2>4, <1>2, <1>3 DEF Halt
  <2>13. CASE Ei(p)
    BY <2>13, <2>3, <2>4, <1>2, <1>3 DEF Ei
  <2>14. CASE Di(p)
    BY <2>14, <2>3, <2>4, <1>2, <1>3 DEF Di
  <2>15. CASE Im(p)
    BY <2>15, <2>3, <2>4, <1>2, <1>3 DEF Im
  <2>16. CASE Ldr(p)
    BY <2>16, <2>3, <2>4, <1>2 DEF Ldr
  <2> QED BY <2>1, <2>5, <2>6, <2>7, <2>8, <2>9, <2>10, <2>11, <2>12, <2>13,
             <2>14, <2>15, <2>16
<1> QED BY <1>4, <1>5, <1>6, <1>7 DEF EmulateZ80Op

(***************************************************************************)
(* What an executed instruction does to the interrupt state: five cases.   *)
(***************************************************************************)
PlainKinds == InstrKinds \ {"halt", "ei", "di", "retn"}

FlagEffect ==
  \/ /\ last' \in PlainKinds /\ ei_pending' = 0
     /\ UNCHANGED <<iff1, iff2, halted>>
  \/ /\ last' = "halt" /\ ei_pending' = 0 /\ halted' = 1
     /\ UNCHANGED <<iff1, iff2>>
  \/ last' = "ei" /\ ei_pending' = 1 /\ iff1' = 1 /\ iff2' = 1 /\ UNCHANGED halted
  \/ last' = "di" /\ ei_pending' = 0 /\ iff1' = 0 /\ iff2' = 0 /\ UNCHANGED halted
  \/ last' = "retn" /\ ei_pending' = 0 /\ iff1' = iff2 /\ UNCHANGED <<iff2, halted>>

(***************************************************************************)
(* Execute does one of these to the interrupt state, and it runs only when *)
(* nothing is accepted and the CPU is awake.                               *)
(***************************************************************************)
LEMMA ExecuteEffect ==
  ASSUME Execute
  PROVE /\ nmi_pending = 0 /\ ~INTAccepted /\ halted = 0
        /\ UNCHANGED latches
        /\ FlagEffect
<1>1. PICK p \in Prefixes :
        \/ Op(p) \/ Stack(p) \/ Jump(p) \/ Call(p) \/ Ret(p) \/ Retn(p)
        \/ Repeat(p) \/ Halt(p) \/ Ei(p) \/ Di(p) \/ Im(p) \/ Ldr(p)
  BY DEF Execute
<1>2. PICK kind \in InstrKinds : Instr(kind)
  BY <1>1 DEF Op, Stack, Jump, Call, Ret, Retn, Repeat, Halt, Ei, Di, Im, Ldr, InstrKinds
<1>3. nmi_pending = 0 /\ ~INTAccepted /\ halted = 0 /\ UNCHANGED latches
  BY <1>2 DEF Instr
<1>4. CASE Op(p) \/ Stack(p) \/ Jump(p) \/ Repeat(p)
  <2>1. last' \in PlainKinds /\ ei_pending' = 0
    BY <1>4 DEF Op, Stack, Jump, Repeat, Instr, EiPendingAfter, PlainKinds, InstrKinds
  <2>2. UNCHANGED <<iff1, iff2, halted>>
    BY <1>4 DEF Op, Stack, Jump, Repeat
  <2> QED BY <1>3, <2>1, <2>2 DEF FlagEffect
<1>5. CASE Call(p) \/ Ret(p) \/ Im(p) \/ Ldr(p)
  <2>1. last' \in PlainKinds /\ ei_pending' = 0
    BY <1>5 DEF Call, Ret, Im, Ldr, Instr, EiPendingAfter, PlainKinds, InstrKinds
  <2>2. UNCHANGED <<iff1, iff2, halted>>
    BY <1>5 DEF Call, Ret, Im, Ldr
  <2> QED BY <1>3, <2>1, <2>2 DEF FlagEffect
<1>6. CASE Halt(p)
  BY <1>3, <1>6 DEF Halt, Instr, EiPendingAfter, FlagEffect
<1>7. CASE Ei(p)
  BY <1>3, <1>7 DEF Ei, Instr, EiPendingAfter, FlagEffect
<1>8. CASE Di(p)
  BY <1>3, <1>8 DEF Di, Instr, EiPendingAfter, FlagEffect
<1>9. CASE Retn(p)
  BY <1>3, <1>9 DEF Retn, Instr, EiPendingAfter, FlagEffect
<1> QED BY <1>1, <1>4, <1>5, <1>6, <1>7, <1>8, <1>9

(***************************************************************************)
(* Every call and every latched request is a step of InterruptGate.  The   *)
(* shadow invariant is needed twice: a halted CPU is never in the shadow,  *)
(* so StayHalted clearing ei_pending does not open the gate; and the       *)
(* shadow implies an open flip-flop, so an NMI taken in it saves "open".   *)
(***************************************************************************)
LEMMA RequestSimulated ==
  ASSUME CoreTypeOK, RaiseNMI \/ (\E v \in Vectors : RaiseINT(v))
  PROVE Gate!Request
BY DEF RaiseNMI, RaiseINT, CoreTypeOK, Gate!Request, GateOf

(***************************************************************************)
(* One call of EmulateZ80Op is a step of the abstract CPU: it takes what   *)
(* the gate lets through, or does what the instruction does to the gate.   *)
(***************************************************************************)
LEMMA CallSimulated ==
  ASSUME CoreTypeOK, ShadowIsOneCall, EmulateZ80Op
  PROVE Gate!CpuStep \/ UNCHANGED Gate!vars
<1> USE DEF CoreTypeOK, ShadowIsOneCall, GateOf, Gate!CpuStep
<1>1. CASE ServiceNMI
  <2>1. Gate!TakeNMI
    BY <1>1 DEF ServiceNMI, Gate!TakeNMI
  <2> QED BY <2>1
<1>2. CASE ServiceMaskableInterrupt
  <2>1. Gate!TakeINT
    BY <1>2 DEF ServiceMaskableInterrupt, INTAccepted, Gate!TakeINT
  <2> QED BY <2>1
<1>3. CASE StayHalted
  BY <1>3 DEF StayHalted, latches, Gate!vars
<1>4. CASE Execute
  <2>1. nmi_pending = 0 /\ ~INTAccepted /\ halted = 0 /\ UNCHANGED latches /\ FlagEffect
    BY <1>4, ExecuteEffect
  <2>2. Gate!MayExecute
    BY <2>1 DEF Gate!MayExecute, INTAccepted
  <2>3. CASE last' \in PlainKinds \union {"halt"}
    <3>1. Gate!Ordinary
      BY <2>1, <2>2, <2>3 DEF FlagEffect, PlainKinds, latches, Gate!Ordinary, Gate!GateAfterShadow
    <3> QED BY <3>1
  <2>4. CASE last' = "ei"
    <3>1. Gate!Enable
      BY <2>1, <2>2, <2>4 DEF FlagEffect, PlainKinds, latches, Gate!Enable
    <3> QED BY <3>1
  <2>5. CASE last' = "di"
    <3>1. Gate!Disable
      BY <2>1, <2>2, <2>5 DEF FlagEffect, PlainKinds, latches, Gate!Disable
    <3> QED BY <3>1
  <2>6. CASE last' = "retn"
    <3>1. Gate!Restore
      BY <2>1, <2>2, <2>6 DEF FlagEffect, PlainKinds, latches, Gate!Restore
    <3> QED BY <3>1
  <2> QED BY <2>1, <2>3, <2>4, <2>5, <2>6 DEF FlagEffect
<1> QED BY <1>1, <1>2, <1>3, <1>4 DEF EmulateZ80Op

----------------------------------------------------------------------------
USE DEF ScheduleTypeOK, ArmRequests, CallExecutor

(***************************************************************************)
(* What a parsed command line may hold, field by field.                    *)
(***************************************************************************)
LEMMA ConfigFields ==
  ASSUME NEW c \in Configs
  PROVE /\ c.entryAddr \in Addr /\ c.spAddr \in Addr
        /\ c.maxSteps \in Nat /\ c.tracepointMax \in Nat
        /\ c.stopAddrs \subseteq Addr /\ c.tracepoints \subseteq Addr
        /\ c.interrupts \in Seq(InterruptSpec) /\ c.timers \in Seq(TimerSpec)
BY ConfigsAssumption DEF Config

(***************************************************************************)
(* The fields of one --irq.                                                *)
(***************************************************************************)
LEMMA InterruptFields ==
  ASSUME NEW c \in Configs, NEW i \in DOMAIN c.interrupts
  PROVE /\ i \in Nat
        /\ c.interrupts[i].nmi \in BOOLEAN /\ c.interrupts[i].step \in Nat
        /\ c.interrupts[i].vector \in Vectors
<1>1. c.interrupts \in Seq(InterruptSpec)
  BY ConfigFields
<1>2. c.interrupts[i] \in InterruptSpec /\ i \in Nat
  BY <1>1
<1> QED BY <1>2 DEF InterruptSpec

(***************************************************************************)
(* The fields of one --timer; its period is never 0 (ParseTimer refuses    *)
(* it).                                                                    *)
(***************************************************************************)
LEMMA TimerFields ==
  ASSUME NEW c \in Configs, NEW t \in DOMAIN c.timers
  PROVE /\ t \in Nat
        /\ c.timers[t].nmi \in BOOLEAN /\ c.timers[t].start \in Nat
        /\ c.timers[t].period \in Nat \ {0} /\ c.timers[t].vector \in Vectors
<1>1. c.timers \in Seq(TimerSpec)
  BY ConfigFields
<1>2. c.timers[t] \in TimerSpec /\ t \in Nat
  BY <1>1
<1> QED BY <1>2 DEF TimerSpec

(***************************************************************************)
(* The deadline after arming is the first one of the timer's grid past the *)
(* clock, if the old one was reached.                                      *)
(***************************************************************************)
LEMMA NextDeadline ==
  ASSUME NEW now \in Nat, NEW fire \in Nat, NEW period \in Nat \ {0}, now >= fire
  PROVE LET q == (now - fire) \div period
            next == fire + period * (q + 1)
        IN q \in Nat /\ next \in Nat /\ next > now /\ next - period <= now
<1> DEFINE d == now - fire
           q == d \div period
<1>1. d \in Nat
  OBVIOUS
<1>2. q \in Nat /\ period * q <= d /\ d < period * q + period
  <2> HIDE DEF d
  <2> QED BY <1>1
<1>3. period * (q + 1) = period * q + period
  <2> HIDE DEF q
  <2> QED BY <1>2
<1>4. period * q \in Nat
  <2> HIDE DEF q
  <2> QED BY <1>2
<1>5. fire + d = now
  OBVIOUS
<1> HIDE DEF q
<1>6. fire + period * (q + 1) = fire + (period * q + period)
  BY <1>3
<1> QED
  <2> HIDE DEF d
  <2>1. /\ fire + period * (q + 1) \in Nat
        /\ fire + period * (q + 1) > now
        /\ fire + period * (q + 1) - period <= now
    BY <1>1, <1>2, <1>4, <1>5, <1>6
  <2> QED BY <1>2, <2>1 DEF q, d

(***************************************************************************)
(* A call adds a natural number of T-states.                               *)
(***************************************************************************)
LEMMA TstatesNat ==
  ASSUME NEW outcome \in Outcomes, NEW t \in Tstates(outcome) PROVE t \in Nat
<1> USE DEF Tstates
<1>1. CASE outcome = "op"
  BY <1>1, OpTstatesAssumption
<1>2. CASE outcome = "jump"
  BY <1>2, JumpTstatesAssumption
<1>3. CASE outcome = "int"
  BY <1>3
<1>4. CASE outcome \in {"nmi", "intfail", "halted", "reset", "halt", "ei", "di", "im"}
  BY <1>4
<1>5. CASE outcome \in {"ldr", "retn", "ret", "call", "repeat", "stack"}
  BY <1>5
<1> QED BY <1>1, <1>2, <1>3, <1>4, <1>5 DEF Outcomes, InstrKinds

----------------------------------------------------------------------------
(***************************************************************************)
(* The executor's part of an invariant: the shadow, and that the halted    *)
(* flag is set exactly after a call whose result was HALT.                 *)
(***************************************************************************)
HaltFlag == halted = 1 <=> ResultIsHalt

CoreInv == ShadowIsOneCall /\ HaltFlag

(***************************************************************************)
(* A call keeps the executor's part of the invariant.                      *)
(***************************************************************************)
LEMMA CallCoreInv ==
  ASSUME CoreTypeOK, CoreInv, EmulateZ80Op PROVE CoreInv'
<1> USE DEF CoreInv, ShadowIsOneCall, HaltFlag, ResultIsHalt
<1>1. CASE ServiceNMI
  BY <1>1 DEF ServiceNMI
<1>2. CASE ServiceMaskableInterrupt
  <2>1. last' \in {"int", "intfail"}
    BY <1>2 DEF ServiceMaskableInterrupt, Vectored, NotVectored
  <2> QED BY <1>2, <2>1 DEF ServiceMaskableInterrupt
<1>3. CASE StayHalted
  BY <1>3 DEF StayHalted
<1>4. CASE Execute
  BY <1>4, ExecuteEffect DEF FlagEffect, PlainKinds, InstrKinds
<1> QED BY <1>1, <1>2, <1>3, <1>4 DEF EmulateZ80Op

----------------------------------------------------------------------------
(***************************************************************************)
(* What the schedule is reset to is well typed.                            *)
(***************************************************************************)
LEMMA InitScheduleType ==
  ASSUME InitSchedule, ResetZ80(cfg.entryAddr, cfg.spAddr)
  PROVE ScheduleTypeOK /\ CoreTypeOK /\ CoreInv
<1>1. cfg \in Configs
  BY DEF InitSchedule
<1>2. cfg.entryAddr \in Addr /\ cfg.spAddr \in Addr
  BY <1>1, ConfigFields
<1>3. CoreTypeOK
  BY <1>2, RefreshAssumption, VectorsAssumption, RegsAssumption
     DEF ResetZ80, CoreTypeOK, Outcomes
<1>4. nextFire \in [DOMAIN cfg.timers -> Nat]
  BY <1>1, TimerFields DEF InitSchedule
<1>5. CoreInv
  BY DEF ResetZ80, CoreInv, ShadowIsOneCall, HaltFlag, ResultIsHalt
<1> QED BY <1>1, <1>3, <1>4, <1>5 DEF InitSchedule

(***************************************************************************)
(* Arming keeps the types: a latch becomes 1, a deadline stays a natural   *)
(* number.                                                                 *)
(***************************************************************************)
LEMMA ArmRequestsType ==
  ASSUME CoreTypeOK, ScheduleTypeOK, ArmRequests, tstates' \in Nat
  PROVE CoreTypeOK' /\ ScheduleTypeOK'
<1>1. nmi_pending' \in Bit
  BY DEF ArmNMI, CoreTypeOK
<1>2. irq_pending' \in Bit /\ irq_vector' \in Vectors
  <2>1. CASE UNCHANGED <<irq_pending, irq_vector>>
    BY <2>1 DEF CoreTypeOK
  <2>2. CASE \E t \in DOMAIN cfg.timers : irq_vector' = cfg.timers[t].vector /\ irq_pending' = 1
    BY <2>2, TimerFields
  <2>3. CASE \E i \in DOMAIN cfg.interrupts : irq_vector' = cfg.interrupts[i].vector /\ irq_pending' = 1
    BY <2>3, InterruptFields
  <2> QED BY <2>1, <2>2, <2>3 DEF ArmINT
<1>3. CoreTypeOK'
  BY <1>1, <1>2 DEF CoreTypeOK
<1>4. delivered' \subseteq DOMAIN cfg.interrupts
  BY DEF DueInterrupts
<1>5. nextFire' \in [DOMAIN cfg.timers -> Nat]
  <2>1. ASSUME NEW t \in DOMAIN cfg.timers PROVE FireAfter(t) \in Nat
    BY TimerFields, NextDeadline DEF FireAfter
  <2> QED BY <2>1
<1> QED BY <1>3, <1>4, <1>5

(***************************************************************************)
(* A call with its clock keeps the types and counts one step.              *)
(***************************************************************************)
LEMMA CallExecutorType ==
  ASSUME CoreTypeOK, ScheduleTypeOK, CallExecutor
  PROVE CoreTypeOK' /\ ScheduleTypeOK' /\ step' = step + 1 /\ cfg' = cfg
<1>1. CoreTypeOK'
  BY CallType
<1>2. tstates' \in Nat
  <2>1. PICK t \in Tstates(last') : tstates' = tstates + t
    OBVIOUS
  <2>2. t \in Nat
    BY <1>1, <2>1, TstatesNat DEF CoreTypeOK
  <2> QED BY <2>1, <2>2
<1> QED BY <1>1, <1>2

(***************************************************************************)
(* The plugin's request keeps the types and the executor's invariant.      *)
(***************************************************************************)
LEMMA PluginType ==
  ASSUME CoreTypeOK, ArmPluginInterrupt PROVE CoreTypeOK'
BY VectorsAssumption DEF ArmPluginInterrupt, RaiseNMI, RaiseINT, CoreTypeOK, coreVars

(***************************************************************************)
(* Nor does the request the plugin hands over after a call disturb what    *)
(* holds of halted and the pending EI.                                     *)
(***************************************************************************)
LEMMA PluginCoreInv ==
  ASSUME CoreInv, ArmPluginInterrupt PROVE CoreInv'
BY DEF ArmPluginInterrupt, RaiseNMI, RaiseINT, coreVars,
       CoreInv, ShadowIsOneCall, HaltFlag, ResultIsHalt

(***************************************************************************)
(* Nor do the requests that timers and schedules raise.                    *)
(***************************************************************************)
LEMMA ArmRequestsCoreInv ==
  ASSUME CoreInv, ArmRequests PROVE CoreInv'
BY DEF CoreInv, ShadowIsOneCall, HaltFlag, ResultIsHalt

(***************************************************************************)
(* Arming and the plugin's request are requests of the contract; a call is *)
(* a step of its CPU (CallSimulated).                                      *)
(***************************************************************************)
LEMMA ArmSimulated ==
  ASSUME CoreTypeOK, ArmRequests PROVE Gate!Request
BY DEF ArmNMI, ArmINT, CoreTypeOK, Gate!Request, GateOf

(***************************************************************************)
(* The plugin's request is one more request to the gate.                   *)
(***************************************************************************)
LEMMA PluginSimulated ==
  ASSUME CoreTypeOK, ArmPluginInterrupt PROVE Gate!Request \/ UNCHANGED Gate!vars
<1>1. CASE UNCHANGED coreVars
  BY <1>1 DEF coreVars, Gate!vars, GateOf
<1>2. CASE RaiseNMI \/ \E v \in Vectors : RaiseINT(v)
  BY <1>2, RequestSimulated
<1> QED BY <1>1, <1>2 DEF ArmPluginInterrupt
=============================================================================
