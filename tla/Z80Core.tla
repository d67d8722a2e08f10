------------------------------ MODULE Z80Core ------------------------------
(***************************************************************************)
(* The executor of z80-trace (src/z80_exec.c): one call of EmulateZ80Op.   *)
(*                                                                         *)
(* All of the control of a call is here: the order in which the latches    *)
(* are looked at, the EI shadow, the halted state, the interrupt flip-     *)
(* flops, where the program counter and the stack pointer go, how often R  *)
(* is refreshed.  What the bytes of memory and the data registers hold is  *)
(* abstracted: an address read from memory is any address of Targets, and  *)
(* the data registers are one value of Regs that an instruction may change.*)
(* Flags of the C structure keep their C values 0 and 1.                   *)
(***************************************************************************)
EXTENDS Integers, FiniteSets

CONSTANTS
  AddrSpace,    \* 65536 in the code: addresses are UINT16
  RefreshMod,   \* 128 in the code: the low 7 bits of R count fetches
  Targets,      \* addresses that memory may hold: jump targets, table entries
  Prefixes,     \* how many DD/FD prefix bytes may precede an opcode
  Regs,         \* values of the data registers (A .. IY, the alternates, I)
  Vectors,      \* bytes a device may put on the bus when it is acknowledged
  Kinds,        \* the kinds of instruction the program uses
  OpForms,      \* <<bytes, of them fetched as opcodes>> of an "op"
  OpTstates,    \* the T-states an "op" may take: 4 .. 23 in the code
  JumpTstates   \* the T-states a "jump" may take: 4, 10, 12 or 13

Addr == 0 .. AddrSpace - 1

(***************************************************************************)
(* Instructions, told apart by what they do to the control state:          *)
(*   op      arithmetic, loads, exchanges, I/O, conditions not met         *)
(*   stack   PUSH, POP, LD SP and INC/DEC SP                               *)
(*   repeat  LDIR and its family when BC or B is not yet zero              *)
(*   retn    RETN;  ret is RET and RETI, which the code executes alike     *)
(*   ldr     LD R,A, the only instruction that sets R                      *)
(***************************************************************************)
InstrKinds == {"op", "stack", "jump", "call", "ret", "repeat", "halt",
               "ei", "di", "im", "retn", "ldr"}

Outcomes == InstrKinds \union {"reset", "nmi", "int", "intfail", "halted"}

ASSUME AddrSpaceAssumption == AddrSpace \in Nat \ {0}
ASSUME RefreshAssumption == RefreshMod \in Nat \ {0}
ASSUME TargetsAssumption == Targets \subseteq Addr
ASSUME PrefixesAssumption == Prefixes \subseteq Nat
ASSUME VectorsAssumption == Vectors \subseteq 0 .. 255 /\ 255 \in Vectors
ASSUME RegsAssumption == 0 \in Regs       \* the reset value
ASSUME OpTstatesAssumption == OpTstates \subseteq 4 .. 23
ASSUME JumpTstatesAssumption == JumpTstates \subseteq {4, 10, 12, 13}
ASSUME OpFormsAssumption == OpForms \subseteq {f \in (1 .. 4) \X (1 .. 2) : f[2] <= f[1]}
ASSUME KindsAssumption == Kinds \subseteq InstrKinds

VARIABLES
  pc, sp, r, im, iff1, iff2, ei_pending, nmi_pending, irq_pending,
  irq_vector, halted,
  regs,         \* the data registers
  last          \* how the last call ended: its Z80StepResult, and by what

latches == <<nmi_pending, irq_pending, irq_vector>>
coreVars == <<pc, sp, r, im, iff1, iff2, ei_pending, nmi_pending, irq_pending,
              irq_vector, halted, regs, last>>

Bit == {0, 1}

(***************************************************************************)
(* Every variable has its C type, at the width the constants give it.      *)
(***************************************************************************)
CoreTypeOK ==
  /\ pc \in Addr /\ sp \in Addr
  /\ r \in 0 .. RefreshMod - 1
  /\ im \in {0, 1, 2}
  /\ iff1 \in Bit /\ iff2 \in Bit /\ ei_pending \in Bit
  /\ nmi_pending \in Bit /\ irq_pending \in Bit /\ halted \in Bit
  /\ irq_vector \in Vectors
  /\ regs \in Regs
  /\ last \in Outcomes

Wrap(a) == a % AddrSpace

ResetZ80(entry, stack) ==
  /\ pc = entry /\ sp = stack
  /\ r = 0 /\ im = 0 /\ iff1 = 0 /\ iff2 = 0 /\ ei_pending = 0
  /\ nmi_pending = 0 /\ irq_pending = 0 /\ irq_vector = 255
  /\ halted = 0
  /\ regs = 0
  /\ last = "reset"

(***************************************************************************)
(* A caller latches requests between two calls.  There is one latch of each*)
(* kind and one vector: a second request merges into the first, and its    *)
(* vector replaces the first one's.                                        *)
(***************************************************************************)
RaiseNMI ==
  /\ nmi_pending' = 1
  /\ UNCHANGED <<pc, sp, r, im, iff1, iff2, ei_pending, irq_pending,
                 irq_vector, halted, regs, last>>

RaiseINT(v) ==
  /\ irq_pending' = 1
  /\ irq_vector' = v
  /\ UNCHANGED <<pc, sp, r, im, iff1, iff2, ei_pending, nmi_pending, halted,
                 regs, last>>

----------------------------------------------------------------------------
(***************************************************************************)
(* Interrupt acceptance                                                    *)
(***************************************************************************)
Push16_NoWrap == sp' = sp - 2                    \* mutant: not cut to 16 bits
Push16 == sp' = Wrap(sp - 2)
Pop16 == sp' = Wrap(sp + 2)

Wake_Asleep == UNCHANGED halted                  \* mutant: the halt is not left
Wake == halted' = 0

EndShadow_Kept == UNCHANGED ei_pending           \* mutant: the shadow stays
EndShadow == ei_pending' = 0

DisableInterrupts_Iff1Only == iff1' = 0 /\ UNCHANGED iff2      \* mutant
DisableInterrupts == iff1' = 0 /\ iff2' = 0

ServiceNMI ==
  /\ nmi_pending = 1
  /\ nmi_pending' = 0
  /\ Wake
  /\ iff2' = iff1
  /\ iff1' = 0
  /\ Push16
  /\ pc' = Wrap(102)
  /\ EndShadow
  /\ last' = "nmi"
  /\ UNCHANGED <<r, im, irq_pending, irq_vector, regs>>

INTAccepted == irq_pending = 1 /\ iff1 = 1 /\ ei_pending = 0

(***************************************************************************)
(* In mode 0 the byte on the bus must be RST n, 11nnn111; anything else is *)
(* an error, found after the request and both flip-flops were cleared.     *)
(***************************************************************************)
IsRst(v) == v \div 64 = 3 /\ v % 8 = 7
RstEntry(v) == Wrap(8 * ((v \div 8) % 8))

Vectored ==
  /\ im = 0 => IsRst(irq_vector)
  /\ last' = "int"
  /\ Push16
  /\ CASE im = 0 -> pc' = RstEntry(irq_vector)
       [] im = 1 -> pc' = Wrap(56)
       [] im = 2 -> pc' \in Targets

NotVectored ==
  /\ im = 0 /\ ~IsRst(irq_vector)
  /\ last' = "intfail"
  /\ UNCHANGED <<pc, sp>>

ServiceMaskableInterrupt ==
  /\ nmi_pending = 0 /\ INTAccepted
  /\ irq_pending' = 0
  /\ Wake
  /\ DisableInterrupts
  /\ EndShadow
  /\ Vectored \/ NotVectored
  /\ UNCHANGED <<r, im, nmi_pending, irq_vector, regs>>

(***************************************************************************)
(* A halted CPU fetches nothing and takes no time.                         *)
(***************************************************************************)
StayHalted ==
  /\ nmi_pending = 0 /\ ~INTAccepted /\ halted = 1
  /\ EndShadow
  /\ last' = "halted"
  /\ UNCHANGED <<pc, sp, r, im, iff1, iff2, halted, regs, latches>>

----------------------------------------------------------------------------
(***************************************************************************)
(* Instruction execution.  p counts the DD and FD bytes in front of the    *)
(* opcode; len counts the other bytes, of which fetched were fetched as    *)
(* opcodes, each of them refreshing R.                                     *)
(***************************************************************************)
EiPendingAfter_NoShadow(kind) == 0               \* mutant: EI acts at once
EiPendingAfter(kind) == IF kind = "ei" THEN 1 ELSE 0

Instr(kind) ==
  /\ kind \in Kinds
  /\ nmi_pending = 0 /\ ~INTAccepted /\ halted = 0
  /\ ei_pending' = EiPendingAfter(kind)
  /\ last' = kind
  /\ UNCHANGED latches

FetchOpcodes(n) == r' = (r + n) % RefreshMod
NextPc(n) == pc' = Wrap(pc + n)

Op(p) ==
  /\ Instr("op")
  /\ \E f \in OpForms : FetchOpcodes(p + f[2]) /\ NextPc(p + f[1])
  /\ regs' \in Regs
  /\ UNCHANGED <<sp, im, iff1, iff2, halted>>

Stack(p) ==
  /\ Instr("stack")
  /\ \E f \in {<<1, 1>>, <<3, 1>>, <<4, 2>>} :
       FetchOpcodes(p + f[2]) /\ NextPc(p + f[1])
  /\ sp' \in Targets \union {Wrap(sp + d) : d \in {-2, -1, 1, 2}}
  /\ regs' \in Regs
  /\ UNCHANGED <<im, iff1, iff2, halted>>

(***************************************************************************)
(* JR and DJNZ reach an address relative to their own, JP any address.     *)
(***************************************************************************)
Jump(p) ==
  /\ Instr("jump")
  /\ FetchOpcodes(p + 1)
  /\ pc' \in Targets \union {pc}
  /\ regs' \in Regs
  /\ UNCHANGED <<sp, im, iff1, iff2, halted>>

RstTargets == {Wrap(8 * n) : n \in 0 .. 7}

Call(p) ==
  /\ Instr("call")
  /\ FetchOpcodes(p + 1)
  /\ Push16
  /\ pc' \in Targets \union RstTargets
  /\ UNCHANGED <<im, iff1, iff2, halted, regs>>

Ret(p) ==
  /\ Instr("ret")
  /\ \E fetched \in 1 .. 2 : FetchOpcodes(p + fetched)
  /\ Pop16
  /\ pc' \in Targets
  /\ UNCHANGED <<im, iff1, iff2, halted, regs>>

RestoreIff1_Kept == UNCHANGED iff1               \* mutant: RETN executed as RETI
RestoreIff1 == iff1' = iff2

Retn(p) ==
  /\ Instr("retn")
  /\ FetchOpcodes(p + 2)
  /\ Pop16
  /\ pc' \in Targets
  /\ RestoreIff1
  /\ UNCHANGED <<im, iff2, halted, regs>>

(***************************************************************************)
(* The code moves pc back by 2, not by 2 + p: prefixes are not repeated.   *)
(***************************************************************************)
Repeat(p) ==
  /\ Instr("repeat")
  /\ FetchOpcodes(p + 2)
  /\ NextPc(p)
  /\ regs' \in Regs
  /\ UNCHANGED <<sp, im, iff1, iff2, halted>>

Halt(p) ==
  /\ Instr("halt")
  /\ FetchOpcodes(p + 1)
  /\ NextPc(p + 1)
  /\ halted' = 1
  /\ UNCHANGED <<sp, im, iff1, iff2, regs>>

Ei(p) ==
  /\ Instr("ei")
  /\ FetchOpcodes(p + 1)
  /\ NextPc(p + 1)
  /\ iff1' = 1 /\ iff2' = 1
  /\ UNCHANGED <<sp, im, halted, regs>>

Di(p) ==
  /\ Instr("di")
  /\ FetchOpcodes(p + 1)
  /\ NextPc(p + 1)
  /\ DisableInterrupts
  /\ UNCHANGED <<sp, im, halted, regs>>

Im(p) ==
  /\ Instr("im")
  /\ FetchOpcodes(p + 2)
  /\ NextPc(p + 2)
  /\ im' \in {0, 1, 2}
  /\ UNCHANGED <<sp, iff1, iff2, halted, regs>>

Ldr(p) ==
  /\ Instr("ldr")
  /\ NextPc(p + 2)
  /\ r' \in 0 .. RefreshMod - 1
  /\ UNCHANGED <<sp, im, iff1, iff2, halted, regs>>

Execute ==
  \E p \in Prefixes :
    \/ Op(p) \/ Stack(p) \/ Jump(p) \/ Call(p) \/ Ret(p) \/ Retn(p)
    \/ Repeat(p) \/ Halt(p) \/ Ei(p) \/ Di(p) \/ Im(p) \/ Ldr(p)

EmulateZ80Op ==
  ServiceNMI \/ ServiceMaskableInterrupt \/ StayHalted \/ Execute

(***************************************************************************)
(* The T-states a call may add to the statistics.                          *)
(***************************************************************************)
Tstates(outcome) ==
  CASE outcome = "nmi" -> {11}
    [] outcome = "int" -> {IF im = 2 THEN 19 ELSE 13}
    [] outcome \in {"intfail", "halted", "reset"} -> {0}
    [] outcome \in {"halt", "ei", "di"} -> {4}
    [] outcome = "im" -> {8}
    [] outcome = "ldr" -> {9}
    [] outcome = "retn" -> {14}
    [] outcome = "ret" -> {10, 11, 14}
    [] outcome = "call" -> {11, 17}
    [] outcome = "jump" -> JumpTstates
    [] outcome = "repeat" -> {21}
    [] outcome = "stack" -> {6, 10, 11, 14, 15, 20}
    [] outcome = "op" -> OpTstates

----------------------------------------------------------------------------
(***************************************************************************)
(* EI holds the maskable interrupt off until one more call has completed:  *)
(* the acceptance never follows EI directly, and the flag is never left    *)
(* standing by any other outcome (an NMI taken in the shadow, a halt).     *)
(***************************************************************************)
ShadowIsOneCall == ei_pending = 1 => last = "ei" /\ iff1 = 1 /\ halted = 0

(***************************************************************************)
(* The contract of InterruptGate, read off the registers and the latches.  *)
(***************************************************************************)
GateOf == IF iff1 = 0 THEN "closed" ELSE IF ei_pending = 1 THEN "shadow" ELSE "open"

Gate == INSTANCE InterruptGate WITH
  gate <- GateOf, resume <- iff2 = 1, nmi <- nmi_pending = 1,
  int <- irq_pending = 1, asleep <- halted = 1

(***************************************************************************)
(* Whoever calls the executor, and however long, sees only steps of the    *)
(* contract: the acceptance order of EmulateZ80Op, the EI shadow and the   *)
(* two flip-flops agree with it.                                           *)
(***************************************************************************)
GateSafety == Gate!SafeSpec
=============================================================================
