------------------------------ MODULE Schedule ------------------------------
(***************************************************************************)
(* What the trace loop and the debugger's loops of z80-trace share         *)
(* (src/main.cpp): the parsed command line, the step counter and the clock,*)
(* the arming of scheduled interrupts and of periodic timers before a call *)
(* of the executor, and the request a plugin may make after it.            *)
(***************************************************************************)
EXTENDS Z80Core, Sequences

CONSTANT Configs       \* the command lines considered

InterruptSpec == [nmi : BOOLEAN, step : Nat, vector : Vectors]
TimerSpec == [nmi : BOOLEAN, period : Nat \ {0}, start : Nat, vector : Vectors]

Config ==
  [entryAddr : Addr, spAddr : Addr, maxSteps : Nat, loopDetect : BOOLEAN,
   stopAddrs : SUBSET Addr, interrupts : Seq(InterruptSpec),
   timers : Seq(TimerSpec), tracepoints : SUBSET Addr, tracepointMax : Nat,
   tracepointStop : BOOLEAN, plugin : BOOLEAN]

ASSUME ConfigsAssumption == Configs \subseteq Config

VARIABLES
  cfg,         \* the parsed command line; it never changes
  step,        \* calls of EmulateZ80Op made
  tstates,     \* the clock
  delivered,   \* indices of cfg.interrupts that were armed
  nextFire     \* when each timer fires next

scheduleVars == <<cfg, step, tstates, delivered, nextFire>>

(***************************************************************************)
(* The schedule's variables have their types.                              *)
(***************************************************************************)
ScheduleTypeOK ==
  /\ cfg \in Configs
  /\ step \in Nat
  /\ tstates \in Nat
  /\ delivered \subseteq DOMAIN cfg.interrupts
  /\ nextFire \in [DOMAIN cfg.timers -> Nat]

InitSchedule ==
  /\ cfg \in Configs
  /\ step = 0 /\ tstates = 0
  /\ delivered = {}
  /\ nextFire = [t \in DOMAIN cfg.timers |-> cfg.timers[t].start]

----------------------------------------------------------------------------
(***************************************************************************)
(* Arming.  Interrupts are armed before timers and both in the order of    *)
(* the command line, into one latch of each kind: the vector that stays is *)
(* that of the last maskable request armed.                                *)
(***************************************************************************)
DueInterrupts_NextStep(isNmi) ==                 \* mutant: armed a step early
  {i \in DOMAIN cfg.interrupts \ delivered :
     cfg.interrupts[i].step = step + 1 /\ cfg.interrupts[i].nmi = isNmi}
DueInterrupts(isNmi) ==
  {i \in DOMAIN cfg.interrupts \ delivered :
     cfg.interrupts[i].step = step /\ cfg.interrupts[i].nmi = isNmi}

DueTimers(isNmi) ==
  {t \in DOMAIN cfg.timers : tstates >= nextFire[t] /\ cfg.timers[t].nmi = isNmi}

IsLast(i, S) == i \in S /\ \A j \in S : j <= i

ArmNMI_TimersOnly ==                             \* mutant: no scheduled NMI
  nmi_pending' = IF DueTimers(TRUE) # {} THEN 1 ELSE nmi_pending
ArmNMI ==
  nmi_pending' = IF DueInterrupts(TRUE) \union DueTimers(TRUE) # {}
                 THEN 1 ELSE nmi_pending

ArmINT ==
  \/ /\ DueInterrupts(FALSE) = {} /\ DueTimers(FALSE) = {}
     /\ UNCHANGED <<irq_pending, irq_vector>>
  \/ /\ irq_pending' = 1
     /\ \/ \E t \in DOMAIN cfg.timers :
             IsLast(t, DueTimers(FALSE)) /\ irq_vector' = cfg.timers[t].vector
        \/ /\ DueTimers(FALSE) = {}
           /\ \E i \in DOMAIN cfg.interrupts :
                /\ IsLast(i, DueInterrupts(FALSE))
                /\ irq_vector' = cfg.interrupts[i].vector

(***************************************************************************)
(* The code adds the period until the deadline is past the clock, so ticks *)
(* missed during one long step are one tick.                               *)
(***************************************************************************)
FireAfter_Once(t) ==                             \* mutant: "if", not "while"
  nextFire[t] + (IF tstates >= nextFire[t] THEN cfg.timers[t].period ELSE 0)
FireAfter(t) ==
  LET period == cfg.timers[t].period
  IN IF tstates >= nextFire[t]
     THEN nextFire[t] + period * ((tstates - nextFire[t]) \div period + 1)
     ELSE nextFire[t]

ArmRequests ==
  /\ ArmNMI /\ ArmINT
  /\ delivered' = delivered \union DueInterrupts(TRUE) \union DueInterrupts(FALSE)
  /\ nextFire' = [t \in DOMAIN cfg.timers |-> FireAfter(t)]
  /\ UNCHANGED <<pc, sp, r, im, iff1, iff2, ei_pending, halted, regs, last, cfg, step>>

HasFutureInterrupts_Later ==                     \* mutant: > for >=
  \E i \in DOMAIN cfg.interrupts \ delivered : cfg.interrupts[i].step > step
HasFutureInterrupts ==
  \E i \in DOMAIN cfg.interrupts \ delivered : cfg.interrupts[i].step >= step

HasActiveTimers == cfg.timers # <<>>

Pending == nmi_pending = 1 \/ irq_pending = 1

(***************************************************************************)
(* A halted CPU that only a timer can wake lets the clock run: the step is *)
(* not counted and the loop starts over.                                   *)
(***************************************************************************)
IdleClock_Stopped == 0                           \* mutant: the clock stands
IdleClock == 4

IdleWait == halted = 1 /\ ~Pending' /\ HasActiveTimers

----------------------------------------------------------------------------
(***************************************************************************)
(* One call of the executor, with the time it takes.                       *)
(***************************************************************************)
CallExecutor ==
  /\ EmulateZ80Op
  /\ \E t \in Tstates(last') : tstates' = tstates + t
  /\ step' = step + 1
  /\ UNCHANGED <<cfg, delivered, nextFire>>

(***************************************************************************)
(* After the call a plugin may ask for one interrupt of either kind.       *)
(***************************************************************************)
ArmPluginInterrupt ==
  \/ UNCHANGED coreVars
  \/ cfg.plugin /\ (RaiseNMI \/ \E v \in Vectors : RaiseINT(v))

ResultIsHalt == last \in {"halt", "halted"}
ResultIsUnimplemented == last = "intfail"
=============================================================================
