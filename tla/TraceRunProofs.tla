--------------------------- MODULE TraceRunProofs ---------------------------
(***************************************************************************)
(* The trace loop, for every command line, program and plugin: the types,  *)
(* the delivery of scheduled interrupts and timers, the meaning of "hlt"   *)
(* and the interrupt contract of the executor it drives.                   *)
(***************************************************************************)
EXTENDS TraceRun, ScheduleLemmas

USE DEF Bit, Wake, EndShadow, DisableInterrupts, RestoreIff1,
        ScheduleTypeOK, InitSchedule, ArmRequests, IdleWait, CallExecutor

----------------------------------------------------------------------------
(***************************************************************************)
(* Type correctness.  The bound on step needs that a call is only made     *)
(* with a step left; the reset value of everything else is in its type.    *)
(***************************************************************************)
CallHasStep == phase = "check" => step < cfg.maxSteps

TypeInv == TypeOK /\ CallHasStep

(***************************************************************************)
(* The state the loop is entered in is well typed.                         *)
(***************************************************************************)
LEMMA InitTypeInv == Init => TypeInv
<1> SUFFICES ASSUME Init PROVE TypeInv OBVIOUS
<1>1. cfg \in Configs /\ cfg.maxSteps \in Nat
  BY ConfigFields DEF Init
<1>2. CoreTypeOK /\ ScheduleTypeOK
  BY InitScheduleType DEF Init
<1> QED BY <1>1, <1>2 DEF Init, TypeInv, TypeOK, CallHasStep, HaltReasons

(***************************************************************************)
(* Arming and idling keep the types, and a call follows only if a step is  *)
(* left.                                                                   *)
(***************************************************************************)
LEMMA ArmType == ASSUME TypeInv, Arm PROVE TypeInv'
<1> USE DEF TypeInv, TypeOK, CallHasStep, StepsLeft
<1>1. tstates' \in Nat /\ phase' \in {"head", "check", "after", "done"}
  BY DEF Arm, IdleClock
<1>2. CoreTypeOK' /\ ScheduleTypeOK'
  BY <1>1, ArmRequestsType DEF Arm
<1> QED BY <1>1, <1>2 DEF Arm

(***************************************************************************)
(* The call keeps the types, and the step it counts was still left.        *)
(***************************************************************************)
LEMMA ExecType == ASSUME TypeInv, Exec PROVE TypeInv'
<1> USE DEF TypeInv, TypeOK, CallHasStep
<1>1. CoreTypeOK' /\ ScheduleTypeOK'
  BY CallExecutorType DEF Exec
<1>2. lastState' \in Snapshot \union {<<>>}
  BY DEF Exec, LoopState, Snapshot, CoreTypeOK
<1>3. hits' \in [cfg.tracepoints -> Nat] /\ totalHits' \in Nat
  BY DEF Exec, HitTracepoint
<1>4. step' \in 0 .. cfg.maxSteps
  BY ConfigFields DEF Exec
<1> QED BY <1>1, <1>2, <1>3, <1>4 DEF Exec, GoTo

(***************************************************************************)
(* The plugin's request and the verdict keep the types.                    *)
(***************************************************************************)
LEMMA AfterType == ASSUME TypeInv, After PROVE TypeInv'
<1> USE DEF TypeInv, TypeOK, CallHasStep
<1>1. CoreTypeOK'
  BY PluginType DEF After
<1>2. phase' \in {"head", "done"} /\ haltReason' \in HaltReasons
  BY DEF After, Verdict, GoTo, Finish, HaltReasons
<1> QED BY <1>1, <1>2 DEF After

(***************************************************************************)
(* The type invariant is inductive.                                        *)
(***************************************************************************)
LEMMA NextTypeInv == TypeInv /\ [Next]_vars => TypeInv'
<1> SUFFICES ASSUME TypeInv, [Next]_vars PROVE TypeInv' OBVIOUS
<1>1. CASE ReachMax \/ StopAt \/ LoopStop
  BY <1>1 DEF TypeInv, TypeOK, CallHasStep, ReachMax, StopAt, LoopStop, Finish,
              HaltReasons, CoreTypeOK, coreVars
<1>2. CASE Arm
  BY <1>2, ArmType
<1>3. CASE Exec
  BY <1>3, ExecType
<1>4. CASE After
  BY <1>4, AfterType
<1>5. CASE UNCHANGED vars
  BY <1>5 DEF TypeInv, TypeOK, CallHasStep, vars, loopVars, CoreTypeOK, coreVars
<1> QED BY <1>1, <1>2, <1>3, <1>4, <1>5 DEF Next, Done

(***************************************************************************)
(* The type invariant holds in every reachable state.                      *)
(***************************************************************************)
LEMMA TypeInvariant == Spec => []TypeInv
BY InitTypeInv, NextTypeInv, PTL DEF Spec

(***************************************************************************)
(* Every variable of the loop and of the executor keeps its type, and the  *)
(* step counter never passes --max-steps.                                  *)
(***************************************************************************)
THEOREM TypeCorrect == Spec => []TypeOK
BY TypeInvariant, PTL DEF TypeInv

----------------------------------------------------------------------------
(***************************************************************************)
(* Delivery of --irq.  At the head of the loop the requests of the current *)
(* step are armed (the loop came back from idling) or are not (it came     *)
(* from the step before); everywhere else it is known which.               *)
(***************************************************************************)
IrqInv ==
  /\ phase = "head" => delivered \in {NamedBefore(step), NamedBefore(step + 1)}
  /\ IrqDelivery

(***************************************************************************)
(* Arming completes the step: whatever names this step or an earlier one   *)
(* is delivered, whether the loop comes from the previous step or from     *)
(* idling.                                                                 *)
(***************************************************************************)
LEMMA ArmDelivers ==
  ASSUME TypeInv, IrqInv, Arm PROVE delivered' = NamedBefore(step + 1)
<1> USE DEF TypeInv, TypeOK
<1>1. delivered' = delivered \union
        {i \in DOMAIN cfg.interrupts \ delivered : cfg.interrupts[i].step = step}
  <2>1. ASSUME NEW i \in DOMAIN cfg.interrupts PROVE cfg.interrupts[i].nmi \in BOOLEAN
    BY InterruptFields
  <2> QED BY <2>1 DEF Arm, DueInterrupts
<1>2. ASSUME NEW i \in DOMAIN cfg.interrupts
      PROVE cfg.interrupts[i].step \in Nat
  BY InterruptFields
<1>3. step \in Nat
  BY ConfigFields
<1>4. delivered \in {NamedBefore(step), NamedBefore(step + 1)}
  BY DEF Arm, IrqInv
<1> QED BY <1>1, <1>2, <1>3, <1>4 DEF NamedBefore

(***************************************************************************)
(* The delivery invariant is inductive.                                    *)
(***************************************************************************)
LEMMA NextIrqInv == TypeInv /\ IrqInv /\ [Next]_vars => IrqInv'
<1> SUFFICES ASSUME TypeInv, IrqInv, [Next]_vars PROVE IrqInv' OBVIOUS
<1> USE DEF IrqInv, IrqDelivery
<1>1. CASE Arm
  <2>1. cfg' = cfg /\ step' = step /\ phase' \in {"head", "check"}
    BY <1>1 DEF Arm
  <2>2. delivered' = NamedBefore(step + 1)
    BY <1>1, ArmDelivers
  <2> QED BY <2>1, <2>2 DEF NamedBefore
<1>2. CASE Exec
  BY <1>2 DEF Exec, GoTo, NamedBefore
<1>3. CASE After
  BY <1>3 DEF After, Verdict, GoTo, Finish, NamedBefore
<1>4. CASE ReachMax \/ StopAt \/ LoopStop
  BY <1>4 DEF ReachMax, StopAt, LoopStop, Finish
<1>5. CASE UNCHANGED vars
  BY <1>5 DEF vars, loopVars, NamedBefore
<1> QED BY <1>1, <1>2, <1>3, <1>4, <1>5 DEF Next, Done

(***************************************************************************)
(* No --irq names a step before the first.                                 *)
(***************************************************************************)
LEMMA InitIrqInv == Init => IrqInv
<1> SUFFICES ASSUME Init PROVE IrqInv OBVIOUS
<1>1. ASSUME NEW i \in DOMAIN cfg.interrupts PROVE ~(cfg.interrupts[i].step < 0)
  BY InterruptFields DEF Init
<1> QED BY <1>1 DEF Init, IrqInv, IrqDelivery, NamedBefore

(***************************************************************************)
(* The delivery invariant holds in every reachable state.                  *)
(***************************************************************************)
LEMMA IrqInvariant == Spec => []IrqInv
BY InitIrqInv, NextIrqInv, TypeInvariant, PTL DEF Spec

(***************************************************************************)
(* An --irq is armed on its step, never earlier and never later.           *)
(***************************************************************************)
THEOREM IrqsArmedOnTheirStep == Spec => []IrqDelivery
BY IrqInvariant, PTL DEF IrqInv

----------------------------------------------------------------------------
(***************************************************************************)
(* A scheduled NMI.  From its arming to the call of its step it is latched.*)
(***************************************************************************)
NmiOf(i) == cfg.interrupts[i].nmi /\ cfg.interrupts[i].step = step

NmiInv ==
  /\ phase = "head" => \A i \in delivered : NmiOf(i) => nmi_pending = 1
  /\ phase = "check" => \A i \in DOMAIN cfg.interrupts : NmiOf(i) => nmi_pending = 1
  /\ NmiOnItsStep

(***************************************************************************)
(* A latched NMI is taken by the next call: every other branch of          *)
(* EmulateZ80Op is behind it.                                              *)
(***************************************************************************)
LEMMA LatchedNMITaken ==
  ASSUME EmulateZ80Op, nmi_pending = 1 PROVE last' = "nmi"
BY ExecuteEffect DEF EmulateZ80Op, ServiceNMI, ServiceMaskableInterrupt, StayHalted

(***************************************************************************)
(* The NMI invariant is inductive.  After the call of a step nothing       *)
(* delivered names the step the loop goes to.                              *)
(***************************************************************************)
LEMMA NextNmiInv == TypeInv /\ IrqInv /\ NmiInv /\ [Next]_vars => NmiInv'
<1> SUFFICES ASSUME TypeInv, IrqInv, NmiInv, [Next]_vars PROVE NmiInv' OBVIOUS
<1> USE DEF NmiInv, NmiOnItsStep, NmiOf
<1>1. CASE Arm
  <2>1. cfg' = cfg /\ step' = step /\ phase' \in {"head", "check"}
    BY <1>1 DEF Arm
  <2>2. ASSUME NEW i \in DOMAIN cfg.interrupts, NmiOf(i) PROVE nmi_pending' = 1
    <3>1. CASE i \in delivered
      BY <1>1, <2>2, <3>1 DEF Arm, ArmNMI
    <3>2. CASE i \notin delivered
      <4>1. i \in DueInterrupts(TRUE)
        BY <2>2, <3>2 DEF DueInterrupts
      <4> QED BY <1>1, <4>1 DEF Arm, ArmNMI
    <3> QED BY <3>1, <3>2
  <2>3. delivered' \subseteq DOMAIN cfg.interrupts
    BY <1>1, ArmType DEF TypeInv, TypeOK, Arm
  <2> QED BY <2>1, <2>2, <2>3
<1>2. CASE Exec
  <2>1. cfg' = cfg /\ phase' = "after" /\ step' = step + 1 /\ step \in Nat
    BY <1>2, ConfigFields DEF Exec, GoTo, TypeInv, TypeOK
  <2>2. ASSUME NEW i \in DOMAIN cfg.interrupts, NmiOf(i) PROVE last' = "nmi"
    BY <1>2, <2>2, LatchedNMITaken DEF Exec
  <2> QED BY <2>1, <2>2
<1>3. CASE After
  <2>1. cfg' = cfg /\ step' = step /\ delivered' = delivered /\ phase' \in {"head", "done"}
    BY <1>3 DEF After, Verdict, GoTo, Finish
  <2>2. ASSUME NEW i \in delivered PROVE cfg.interrupts[i].step # step
    <3>1. delivered = NamedBefore(step)
      BY <1>3 DEF After, IrqInv, IrqDelivery
    <3>2. i \in DOMAIN cfg.interrupts /\ cfg.interrupts[i].step < step
      BY <3>1 DEF NamedBefore
    <3>3. cfg.interrupts[i].step \in Nat /\ step \in Nat
      BY <3>2, InterruptFields, ConfigFields DEF TypeInv, TypeOK
    <3> QED BY <3>2, <3>3
  <2> QED BY <2>1, <2>2
<1>4. CASE ReachMax \/ StopAt \/ LoopStop
  BY <1>4 DEF ReachMax, StopAt, LoopStop, Finish
<1>5. CASE UNCHANGED vars
  BY <1>5 DEF vars, loopVars, coreVars
<1> QED BY <1>1, <1>2, <1>3, <1>4, <1>5 DEF Next, Done

(***************************************************************************)
(* An NMI scheduled for a step is what the step executes.                  *)
(***************************************************************************)
THEOREM NmiTakenOnItsStep == Spec => []NmiOnItsStep
<1>1. Init => NmiInv
  BY DEF Init, NmiInv, NmiOnItsStep
<1> QED BY <1>1, NextNmiInv, IrqInvariant, TypeInvariant, PTL DEF Spec, NmiInv

----------------------------------------------------------------------------
(***************************************************************************)
(* Timers.  A deadline is START plus a multiple of PERIOD; it was moved    *)
(* only when it was reached, and arming leaves it past the clock.          *)
(***************************************************************************)
TimerInv ==
  \A t \in DOMAIN cfg.timers :
    LET start == cfg.timers[t].start
        period == cfg.timers[t].period
    IN /\ phase = "check" => nextFire[t] > tstates
       /\ nextFire[t] # start => nextFire[t] - period <= tstates
       /\ \E k \in Nat : nextFire[t] = start + period * k

(***************************************************************************)
(* A multiple of the period is on the grid.                                *)
(***************************************************************************)
LEMMA MultipleOfPeriod ==
  ASSUME NEW period \in Nat \ {0}, NEW k \in Nat
  PROVE period * k >= 0 /\ (period * k) % period = 0
OBVIOUS

(***************************************************************************)
(* The inductive form, a witness k for the grid, gives TimerOnTime, which  *)
(* is stated with the remainder.                                           *)
(***************************************************************************)
LEMMA TimerInvOnTime == TypeInv /\ TimerInv => TimerOnTime
<1> SUFFICES ASSUME TypeInv, TimerInv, NEW t \in DOMAIN cfg.timers
             PROVE /\ phase = "check" => nextFire[t] > tstates
                   /\ nextFire[t] # cfg.timers[t].start
                        => nextFire[t] - cfg.timers[t].period <= tstates
                   /\ nextFire[t] >= cfg.timers[t].start
                   /\ (nextFire[t] - cfg.timers[t].start) % cfg.timers[t].period = 0
  BY DEF TimerOnTime
<1> DEFINE start == cfg.timers[t].start
           period == cfg.timers[t].period
<1>1. start \in Nat /\ period \in Nat \ {0} /\ nextFire[t] \in Nat
  BY TimerFields DEF TypeInv, TypeOK
<1>2. PICK k \in Nat : nextFire[t] = start + period * k
  BY DEF TimerInv
<1>3. period * k \in Nat /\ (period * k) % period = 0
  <2> HIDE DEF period
  <2> QED BY <1>1, MultipleOfPeriod
<1>4. nextFire[t] >= start /\ nextFire[t] - start = period * k
  <2> HIDE DEF period, start
  <2> QED BY <1>1, <1>2, <1>3
<1> QED BY <1>3, <1>4 DEF TimerInv

(***************************************************************************)
(* The timer invariant is inductive.  The clock moves in Arm (idling) and  *)
(* in Exec (the T-states of a call), the deadlines in Arm only.            *)
(***************************************************************************)
LEMMA NextTimerInv == TypeInv /\ TimerInv /\ [Next]_vars => TimerInv'
<1> SUFFICES ASSUME TypeInv, TimerInv, [Next]_vars PROVE TimerInv' OBVIOUS
<1>1. CASE Arm
  <2> SUFFICES ASSUME NEW t \in DOMAIN cfg.timers
               PROVE /\ phase' = "check" => nextFire'[t] > tstates'
                     /\ nextFire'[t] # cfg.timers[t].start
                          => nextFire'[t] - cfg.timers[t].period <= tstates'
                     /\ \E k \in Nat :
                          nextFire'[t] = cfg.timers[t].start + cfg.timers[t].period * k
    BY <1>1 DEF Arm, TimerInv
  <2> DEFINE start == cfg.timers[t].start
             period == cfg.timers[t].period
             fire == nextFire[t]
  <2>1. start \in Nat /\ period \in Nat \ {0} /\ fire \in Nat /\ tstates \in Nat
    BY TimerFields DEF TypeInv, TypeOK
  <2>2. nextFire'[t] = FireAfter(t)
    BY <1>1 DEF Arm
  <2>3. tstates' \in Nat /\ tstates' >= tstates /\ (phase' = "check" => tstates' = tstates)
    BY <1>1, <2>1 DEF Arm, IdleClock
  <2>4. PICK k \in Nat : fire = start + period * k
    BY DEF TimerInv
  <2>5. CASE tstates >= fire
    <3> DEFINE q == (tstates - fire) \div period
    <3>1. nextFire'[t] = fire + period * (q + 1)
      BY <2>2, <2>5 DEF FireAfter
    <3>2. /\ q \in Nat /\ fire + period * (q + 1) \in Nat
          /\ fire + period * (q + 1) > tstates
          /\ fire + period * (q + 1) - period <= tstates
      <4> HIDE DEF fire, period
      <4> QED BY <2>1, <2>5, NextDeadline
    <3>3. fire + period * (q + 1) = start + period * (k + q + 1) /\ k + q + 1 \in Nat
      <4> HIDE DEF fire, period, start, q
      <4>1. period * (k + q + 1) = period * k + period * (q + 1)
        BY <2>1, <3>2
      <4>2. period * k \in Nat /\ period * (q + 1) \in Nat
        BY <2>1, <3>2
      <4> QED BY <2>1, <2>4, <3>2, <4>1, <4>2
    <3> HIDE DEF q, fire
    <3>4. nextFire'[t] - period <= tstates'
      <4> HIDE DEF period
      <4> QED BY <2>1, <2>3, <3>1, <3>2
    <3>5. phase' = "check" => nextFire'[t] > tstates'
      <4> HIDE DEF period
      <4> QED BY <2>1, <2>3, <3>1, <3>2
    <3>6. \E j \in Nat : nextFire'[t] = start + period * j
      BY <3>1, <3>3
    <3> QED BY <3>4, <3>5, <3>6
  <2>6. CASE ~(tstates >= fire)
    <3>1. nextFire'[t] = fire
      BY <2>2, <2>6 DEF FireAfter
    <3>2. fire # start => fire - period <= tstates
      BY DEF TimerInv
    <3>3. nextFire'[t] # start => nextFire'[t] - period <= tstates'
      <4> HIDE DEF fire, period, start
      <4> QED BY <2>1, <2>3, <3>1, <3>2
    <3>4. phase' = "check" => nextFire'[t] > tstates'
      BY <2>1, <2>3, <2>6, <3>1
    <3> QED BY <2>4, <3>1, <3>3, <3>4
  <2> QED BY <2>5, <2>6
<1>2. CASE Exec
  <2>1. cfg' = cfg /\ nextFire' = nextFire /\ phase' = "after"
    BY <1>2 DEF Exec, GoTo
  <2>2. tstates \in Nat /\ tstates' \in Nat /\ tstates' >= tstates
    <3>1. PICK t \in Tstates(last') : tstates' = tstates + t
      BY <1>2 DEF Exec
    <3>2. last' \in Outcomes
      BY <1>2, CallType DEF Exec, TypeInv, TypeOK, CoreTypeOK
    <3> QED BY <3>1, <3>2, TstatesNat DEF TypeInv, TypeOK
  <2>3. ASSUME NEW t \in DOMAIN cfg.timers
        PROVE cfg.timers[t].period \in Nat /\ nextFire[t] \in Nat
    BY TimerFields DEF TypeInv, TypeOK
  <2> QED BY <2>1, <2>2, <2>3 DEF TimerInv
<1>3. CASE After
  BY <1>3 DEF After, Verdict, GoTo, Finish, TimerInv
<1>4. CASE ReachMax \/ StopAt \/ LoopStop
  BY <1>4 DEF ReachMax, StopAt, LoopStop, Finish, TimerInv
<1>5. CASE UNCHANGED vars
  BY <1>5 DEF vars, loopVars, TimerInv
<1> QED BY <1>1, <1>2, <1>3, <1>4, <1>5 DEF Next, Done

(***************************************************************************)
(* Timers fire at the first boundary at or after START, START + PERIOD and *)
(* so on, however long an instruction takes.                               *)
(***************************************************************************)
THEOREM TimersKeepTheirSchedule == Spec => []TimerOnTime
<1>1. Init => TimerInv
  <2> SUFFICES ASSUME Init, NEW t \in DOMAIN cfg.timers
               PROVE nextFire[t] = cfg.timers[t].start + cfg.timers[t].period * 0
    BY DEF Init, TimerInv
  <2>1. cfg.timers[t].start \in Nat /\ cfg.timers[t].period \in Nat
    BY TimerFields DEF Init
  <2> QED BY <2>1 DEF Init
<1> QED BY <1>1, NextTimerInv, TimerInvOnTime, TypeInvariant, PTL DEF Spec

----------------------------------------------------------------------------
(***************************************************************************)
(* The halt reason.  It is written once, by the action that ends the run.  *)
(***************************************************************************)
ReasonInv == phase # "done" => haltReason = "max"

(***************************************************************************)
(* So does every action of the loop, because no action but Exec writes the *)
(* flag, the shadow or the outcome.                                        *)
(***************************************************************************)
LEMMA NextCoreInv == TypeInv /\ CoreInv /\ [Next]_vars => CoreInv'
<1> SUFFICES ASSUME TypeInv, CoreInv, [Next]_vars PROVE CoreInv' OBVIOUS
<1>1. CASE Exec
  BY <1>1, CallCoreInv DEF Exec, TypeInv, TypeOK
<1>2. CASE Arm
  BY <1>2, ArmRequestsCoreInv DEF Arm
<1>3. CASE After
  BY <1>3, PluginCoreInv DEF After
<1>4. CASE ReachMax \/ StopAt \/ LoopStop \/ UNCHANGED vars
  BY <1>4 DEF ReachMax, StopAt, LoopStop, vars, coreVars,
              CoreInv, ShadowIsOneCall, HaltFlag, ResultIsHalt
<1> QED BY <1>1, <1>2, <1>3, <1>4 DEF Next, Done

(***************************************************************************)
(* The executor's part holds in every reachable state.                     *)
(***************************************************************************)
LEMMA CoreInvariant == Spec => []CoreInv
<1>1. Init => CoreInv
  BY InitScheduleType DEF Init
<1> QED BY <1>1, NextCoreInv, TypeInvariant, PTL DEF Spec

(***************************************************************************)
(* A run that is not over has the default reason.                          *)
(***************************************************************************)
LEMMA NextReasonInv == ReasonInv /\ [Next]_vars => ReasonInv'
BY DEF ReasonInv, Next, ReachMax, Arm, StopAt, LoopStop, Exec, After, Verdict,
       Done, Finish, GoTo, vars, loopVars

HltInv == ReasonInv /\ HltIsFinal

(***************************************************************************)
(* The verdict "hlt" is given with the flag set and nothing pending, and   *)
(* the loop is over then, so both stay.                                    *)
(***************************************************************************)
LEMMA NextHltInv ==
  TypeInv /\ IrqInv /\ CoreInv /\ HltInv /\ [Next]_vars => HltInv'
<1> SUFFICES ASSUME TypeInv, IrqInv, CoreInv, HltInv, [Next]_vars PROVE HltInv'
  OBVIOUS
<1>1. ReasonInv'
  BY NextReasonInv DEF HltInv
<1>2. CASE After
  <2>1. HltIsFinal'
    <3> SUFFICES ASSUME haltReason' = "hlt" PROVE HltIsFinal'
      BY DEF HltIsFinal
    <3>1. phase = "after" /\ haltReason = "max"
      BY <1>2 DEF After, HltInv, ReasonInv
    <3>2. /\ ResultIsHalt
          /\ ~(Pending' \/ HasFutureInterrupts \/ HasActiveTimers)
      BY <1>2, <3>1 DEF After, Verdict, Finish, GoTo
    <3>3. halted' = 1
      BY <1>2, <3>2 DEF CoreInv, HaltFlag, After, ArmPluginInterrupt, RaiseNMI, RaiseINT, coreVars
    <3>4. cfg' = cfg /\ step' = step
      BY <1>2 DEF After
    <3>5. ASSUME NEW i \in DOMAIN cfg.interrupts PROVE cfg.interrupts[i].step < step
      <4>1. CASE i \in delivered
        BY <3>1, <4>1 DEF IrqInv, IrqDelivery, NamedBefore
      <4>2. CASE i \notin delivered
        <5>1. cfg.interrupts[i].step \in Nat /\ step \in Nat
          BY InterruptFields, ConfigFields DEF TypeInv, TypeOK
        <5> QED BY <3>2, <4>2, <5>1 DEF HasFutureInterrupts
      <4> QED BY <4>1, <4>2
    <3>6. cfg.timers = <<>>
      BY <3>2 DEF HasActiveTimers
    <3> QED BY <3>2, <3>3, <3>4, <3>5, <3>6 DEF HltIsFinal
  <2> QED BY <1>1, <2>1 DEF HltInv
<1>3. CASE Arm \/ Exec \/ StopAt \/ LoopStop
  BY <1>1, <1>3 DEF HltInv, ReasonInv, HltIsFinal, Arm, Exec, StopAt, LoopStop, Finish, GoTo
<1>4. CASE ReachMax \/ UNCHANGED vars
  BY <1>1, <1>4 DEF HltInv, HltIsFinal, Pending, ReachMax, vars, loopVars, coreVars
<1> QED BY <1>2, <1>3, <1>4 DEF Next, Done

(***************************************************************************)
(* "hlt" is final: no request, no schedule and no timer was left.          *)
(***************************************************************************)
THEOREM HltMeansFinal == Spec => []HltIsFinal
<1>1. Init => HltInv
  BY DEF Init, HltInv, ReasonInv, HltIsFinal
<1> QED BY <1>1, NextHltInv, TypeInvariant, IrqInvariant, CoreInvariant, PTL DEF Spec, HltInv

----------------------------------------------------------------------------
(***************************************************************************)
(* The contract.  Arming and the plugin are requests, a call is a step of  *)
(* the CPU, and everything else in the loop leaves the executor alone.     *)
(***************************************************************************)
THEOREM ImplementsGate == Spec => GateSafety
<1>1. Init => Gate!Init
  BY DEF Init, ResetZ80, Gate!Init, GateOf
<1>2. TypeInv /\ CoreInv /\ [Next]_vars => [Gate!Next]_(Gate!vars)
  <2> SUFFICES ASSUME TypeInv, CoreInv, [Next]_vars PROVE [Gate!Next]_(Gate!vars)
    OBVIOUS
  <2> USE DEF TypeInv, TypeOK, CoreInv
  <2>1. CASE Arm
    BY <2>1, ArmSimulated DEF Arm, Gate!Next
  <2>2. CASE Exec
    BY <2>2, CallSimulated DEF Exec, Gate!Next
  <2>3. CASE After
    BY <2>3, PluginSimulated DEF After, Gate!Next
  <2>4. CASE ReachMax \/ StopAt \/ LoopStop \/ UNCHANGED vars
    BY <2>4 DEF ReachMax, StopAt, LoopStop, vars, coreVars, Gate!vars, GateOf
  <2> QED BY <2>1, <2>2, <2>3, <2>4 DEF Next, Done
<1> QED BY <1>1, <1>2, TypeInvariant, CoreInvariant, PTL DEF Spec, GateSafety, Gate!SafeSpec

----------------------------------------------------------------------------
(***************************************************************************)
(* The loop detector.  One assumption on the machine: an instruction, with *)
(* its prefixes, is shorter than the memory, and R does not come round in  *)
(* two fetches.  Both hold for 64K and 7 bits unless memory is all prefix. *)
(***************************************************************************)
ShortInstructions ==
  /\ AddrSpace > 4 /\ RefreshMod > 2
  /\ \A p \in Prefixes : p + 4 < AddrSpace

(***************************************************************************)
(* A step of less than one turn leaves the place it started from.          *)
(***************************************************************************)
LEMMA StepMoves ==
  ASSUME NEW m \in Nat \ {0}, NEW a \in 0 .. m - 1, NEW d \in Int, d # 0, -m < d, d < m
  PROVE (a + d) % m # a
<1>1. CASE 0 <= a + d /\ a + d < m
  <2>1. (a + d) % m = a + d
    BY <1>1
  <2> QED BY <2>1
<1>2. CASE a + d >= m
  <2>1. (a + d) % m = a + d - m
    BY <1>2
  <2> QED BY <2>1
<1>3. CASE a + d < 0
  <2>1. (a + d) % m = a + d + m
    BY <1>3
  <2> QED BY <2>1
<1> QED BY <1>1, <1>2, <1>3

(***************************************************************************)
(* A call that leaves every compared register as it was is a jump to itself*)
(* or finds the CPU halted with nothing it may take.                       *)
(***************************************************************************)
LEMMA SnapshotMoves ==
  ASSUME ShortInstructions, CoreTypeOK, EmulateZ80Op, LoopState' = LoopState
  PROVE IF halted = 1 THEN StayHalted ELSE last' = "jump"
<1>0. /\ pc' = pc /\ sp' = sp /\ r' = r /\ iff1' = iff1 /\ halted' = halted
      /\ regs' = regs
  BY DEF LoopState
<1> USE DEF ShortInstructions, CoreTypeOK, Addr
<1>1. Wrap(sp - 2) # sp /\ Wrap(sp + 2) # sp
  <2>1. (sp + (-2)) % AddrSpace # sp /\ (sp + 2) % AddrSpace # sp
    BY AddrSpaceAssumption, StepMoves
  <2>2. sp + (-2) = sp - 2
    OBVIOUS
  <2> QED BY <2>1, <2>2 DEF Wrap
<1>2. ASSUME NEW p \in Prefixes, NEW n \in 1 .. 4, NextPc(p + n) PROVE FALSE
  <2>1. p \in Nat /\ p + n \in 1 .. AddrSpace - 1
    BY PrefixesAssumption, AddrSpaceAssumption
  <2>2. (pc + (p + n)) % AddrSpace # pc
    BY <2>1, AddrSpaceAssumption, StepMoves
  <2> QED BY <1>0, <1>2, <2>2 DEF NextPc, Wrap
<1>3. ~ServiceNMI
  BY <1>0, <1>1 DEF ServiceNMI, Push16
<1>4. ~ServiceMaskableInterrupt
  BY <1>0 DEF ServiceMaskableInterrupt, INTAccepted
<1>5. CASE StayHalted
  BY <1>5 DEF StayHalted
<1>6. CASE Execute
  <2>1. halted = 0
    BY <1>6, ExecuteEffect
  <2>2. PICK p \in Prefixes :
          \/ Op(p) \/ Stack(p) \/ Jump(p) \/ Call(p) \/ Ret(p) \/ Retn(p)
          \/ Repeat(p) \/ Halt(p) \/ Ei(p) \/ Di(p) \/ Im(p) \/ Ldr(p)
    BY <1>6 DEF Execute
  <2>3. ~Op(p)
    <3> SUFFICES ASSUME Op(p) PROVE FALSE OBVIOUS
    <3>1. PICK f \in OpForms : NextPc(p + f[1])
      BY DEF Op
    <3>2. f[1] \in 1 .. 4
      BY OpFormsAssumption
    <3> QED BY <1>2, <3>1, <3>2
  <2>4. ~Stack(p)
    BY <1>2 DEF Stack
  <2>5. ~Halt(p) /\ ~Ei(p) /\ ~Di(p) /\ ~Im(p) /\ ~Ldr(p)
    BY <1>2 DEF Halt, Ei, Di, Im, Ldr
  <2>6. ~Call(p) /\ ~Ret(p) /\ ~Retn(p)
    BY <1>0, <1>1 DEF Call, Ret, Retn, Push16, Pop16
  <2>7. ~Repeat(p)
    <3> SUFFICES ASSUME Repeat(p) PROVE FALSE OBVIOUS
    <3>1. p \in Nat
      BY PrefixesAssumption
    <3>2. p = 0
      <4>1. (pc + p) % AddrSpace = pc
        BY <1>0 DEF Repeat, NextPc, Wrap
      <4> QED BY <3>1, <4>1, AddrSpaceAssumption, StepMoves
    <3>3. (r + 2) % RefreshMod = r
      BY <1>0, <3>2 DEF Repeat, FetchOpcodes
    <3> QED BY <3>3, RefreshAssumption, StepMoves
  <2>8. Jump(p)
    BY <2>2, <2>3, <2>4, <2>5, <2>6, <2>7
  <2> QED BY <2>1, <2>8 DEF Jump, Instr
<1> QED BY <1>3, <1>4, <1>5, <1>6 DEF EmulateZ80Op

(***************************************************************************)
(* What is known of the snapshot.  A halted CPU reaches the check only if  *)
(* something can still wake it (Asleep).  If its registers are those of    *)
(* the snapshot, a maskable request has been standing behind a cleared     *)
(* IFF1; if it runs, its last instruction was a jump (SnapshotMeaning).    *)
(***************************************************************************)
Asleep ==
  halted = 1 =>
    /\ phase = "head" => Pending \/ HasFutureInterrupts \/ HasActiveTimers
    /\ phase = "check" => Pending \/ HasFutureInterrupts

SnapshotMeaning ==
  lastState = LoopState =>
    IF halted = 1 THEN irq_pending = 1 /\ iff1 = 0 ELSE last = "jump"

LoopInv ==
  /\ Asleep
  /\ cfg.loopDetect = FALSE => lastState = <<>>
  /\ SnapshotMeaning
  /\ LoopStopIsStuck

(***************************************************************************)
(* Whatever --irq is due is latched by Arm, so what keeps the CPU from     *)
(* being given up is still there when the arming is done.                  *)
(***************************************************************************)
LEMMA ArmAsleep == ASSUME TypeInv, LoopInv, Arm PROVE Asleep'
<1> SUFFICES ASSUME halted' = 1 
             PROVE /\ phase' = "head" => HasActiveTimers'
                   /\ phase' = "check" => Pending' \/ HasFutureInterrupts'
  BY DEF Asleep
<1>1. halted = 1 /\ cfg' = cfg /\ step' = step /\ phase = "head"
  BY DEF Arm
<1>2. phase' = "head" => HasActiveTimers'
  BY <1>1 DEF Arm, HasActiveTimers
<1>3. ASSUME phase' = "check" PROVE Pending' \/ HasFutureInterrupts'
  <2>1. Pending' \/ ~HasActiveTimers
    BY <1>1, <1>3 DEF Arm
  <2>2. CASE Pending
    BY <2>2 DEF Arm, ArmNMI, ArmINT, Pending, TypeInv, TypeOK, CoreTypeOK
  <2>3. CASE HasFutureInterrupts
    <3>1. PICK i \in DOMAIN cfg.interrupts \ delivered : cfg.interrupts[i].step >= step
      BY <2>3 DEF HasFutureInterrupts
    <3>2. CASE cfg.interrupts[i].step = step
      <4>1. i \in DueInterrupts(TRUE) \union DueInterrupts(FALSE)
        BY <3>1, <3>2, InterruptFields DEF DueInterrupts, TypeInv, TypeOK
      <4> QED BY <4>1 DEF Arm, ArmNMI, ArmINT, Pending
    <3>3. CASE cfg.interrupts[i].step # step
      <4>1. i \notin delivered'
        BY <3>1, <3>3 DEF Arm, DueInterrupts
      <4> QED BY <1>1, <3>1, <4>1 DEF HasFutureInterrupts
    <3> QED BY <3>2, <3>3
  <2> QED BY <1>1, <2>1, <2>2, <2>3 DEF LoopInv, Asleep
<1> QED BY <1>2, <1>3

(***************************************************************************)
(* A call gives the snapshot its meaning: it is the register file before   *)
(* the call, unless the CPU sleeps towards a scheduled interrupt and the   *)
(* older snapshot stays.                                                   *)
(***************************************************************************)
LEMMA ExecSnapshot ==
  ASSUME ShortInstructions, TypeInv, CoreInv, LoopInv, Exec PROVE SnapshotMeaning'
<1> SUFFICES ASSUME lastState' = LoopState'
             PROVE IF halted' = 1 THEN irq_pending' = 1 /\ iff1' = 0 ELSE last' = "jump"
  BY DEF SnapshotMeaning
<1>1. EmulateZ80Op /\ CoreTypeOK /\ phase = "check" /\ cfg.loopDetect \in BOOLEAN
  BY ConfigsAssumption DEF Exec, TypeInv, TypeOK, Config
<1>2. LoopState' # <<>>
  BY DEF LoopState
<1>3. CASE DetectLoops
  <2>1. LoopState' = LoopState
    BY <1>3 DEF Exec
  <2>2. halted' = halted
    BY <2>1 DEF LoopState
  <2>3. CASE halted = 1
    <3>1. StayHalted
      BY <1>1, <2>1, <2>3, SnapshotMoves
    <3>2. Pending
      BY <1>1, <1>3, <2>3 DEF LoopInv, Asleep, DetectLoops, WaitingForScheduledInterrupt
    <3>3. ei_pending = 0
      BY <1>1, <2>3 DEF CoreInv, ShadowIsOneCall, CoreTypeOK
    <3>4. irq_pending = 1 /\ iff1 = 0
      BY <1>1, <3>1, <3>2, <3>3 DEF StayHalted, INTAccepted, Pending, CoreTypeOK
    <3> QED BY <3>1, <3>4 DEF StayHalted, latches
  <2>4. CASE halted # 1
    BY <1>1, <2>1, <2>2, <2>4, SnapshotMoves
  <2> QED BY <2>3, <2>4
<1>4. CASE WaitingForScheduledInterrupt
  <2>1. halted = 1 /\ irq_pending = 0 /\ nmi_pending = 0
    BY <1>1, <1>4 DEF WaitingForScheduledInterrupt, Pending, CoreTypeOK
  <2>2. StayHalted
    BY <1>1, <2>1, ExecuteEffect
       DEF EmulateZ80Op, ServiceNMI, ServiceMaskableInterrupt, INTAccepted
  <2>3. LoopState' = LoopState
    BY <2>2 DEF StayHalted, LoopState
  <2>4. lastState' = lastState
    BY <1>4 DEF Exec, DetectLoops
  <2> QED BY <2>1, <2>3, <2>4 DEF LoopInv, SnapshotMeaning
<1>5. CASE cfg.loopDetect = FALSE
  BY <1>2, <1>5 DEF LoopInv, Exec, DetectLoops
<1> QED BY <1>1, <1>3, <1>4, <1>5 DEF DetectLoops

(***************************************************************************)
(* The loop detector's invariant is inductive.                             *)
(***************************************************************************)
LEMMA NextLoopInv ==
  ASSUME ShortInstructions
  PROVE TypeInv /\ CoreInv /\ ReasonInv /\ LoopInv /\ [Next]_vars => LoopInv'
<1> SUFFICES ASSUME TypeInv, CoreInv, ReasonInv, LoopInv, [Next]_vars PROVE LoopInv'
  OBVIOUS
<1>1. ReasonInv'
  BY NextReasonInv
<1>2. CASE Arm
  <2>1. SnapshotMeaning'
    BY <1>2 DEF Arm, ArmINT, LoopInv, SnapshotMeaning, LoopState
  <2>2. LoopStopIsStuck' /\ (cfg.loopDetect = FALSE => lastState = <<>>)'
    BY <1>1, <1>2 DEF Arm, ReasonInv, LoopInv, LoopStopIsStuck
  <2> QED BY <1>2, <2>1, <2>2, ArmAsleep DEF LoopInv
<1>3. CASE Exec
  <2>1. SnapshotMeaning'
    BY <1>3, ExecSnapshot
  <2>2. Asleep' /\ LoopStopIsStuck'
    BY <1>1, <1>3 DEF Exec, GoTo, Asleep, ReasonInv, LoopStopIsStuck
  <2>3. (cfg.loopDetect = FALSE => lastState = <<>>)'
    BY <1>3 DEF Exec, LoopInv, DetectLoops
  <2> QED BY <2>1, <2>2, <2>3 DEF LoopInv
<1>4. CASE After
  <2>1. /\ UNCHANGED <<pc, sp, r, im, iff1, iff2, regs, halted, last>>
        /\ irq_pending = 1 => irq_pending' = 1
    BY <1>4 DEF After, ArmPluginInterrupt, RaiseNMI, RaiseINT, coreVars
  <2>2. SnapshotMeaning' /\ (cfg.loopDetect = FALSE => lastState = <<>>)'
    BY <1>4, <2>1 DEF After, LoopInv, SnapshotMeaning, LoopState
  <2>3. Asleep'
    <3> SUFFICES ASSUME halted' = 1, phase' # "done"
                 PROVE phase' = "head" /\ (Pending \/ HasFutureInterrupts \/ HasActiveTimers)'
      BY <1>4, <2>1 DEF Asleep
    <3>1. ResultIsHalt
      BY <2>1 DEF CoreInv, HaltFlag
    <3> QED BY <1>4, <3>1 DEF After, Verdict, GoTo, Finish, HasFutureInterrupts, HasActiveTimers
  <2>4. LoopStopIsStuck'
    BY <1>4 DEF After, Verdict, GoTo, Finish, ReasonInv, LoopStopIsStuck
  <2> QED BY <2>2, <2>3, <2>4 DEF LoopInv
<1>5. CASE LoopStop
  <2>1. LoopStopIsStuck'
    BY <1>5 DEF LoopStop, LoopDetected, LoopInv, SnapshotMeaning, LoopStopIsStuck,
                coreVars, TypeInv, TypeOK, CoreTypeOK
  <2> QED BY <1>5, <2>1 DEF LoopStop, Finish, LoopInv, Asleep, SnapshotMeaning, LoopState, coreVars
<1>6. CASE StopAt \/ ReachMax
  BY <1>6 DEF StopAt, ReachMax, Finish, ReasonInv, LoopInv, Asleep, SnapshotMeaning,
              LoopState, LoopStopIsStuck, coreVars
<1>7. CASE UNCHANGED vars
  BY <1>7 DEF vars, loopVars, coreVars, LoopInv, Asleep, SnapshotMeaning, LoopState,
              LoopStopIsStuck, Pending, HasFutureInterrupts, HasActiveTimers
<1> QED BY <1>2, <1>3, <1>4, <1>5, <1>6, <1>7 DEF Next, Done

(***************************************************************************)
(* "loop" means stuck: either halted behind a maskable request that IFF1   *)
(* refuses, or a jump to itself.                                           *)
(***************************************************************************)
THEOREM LoopMeansStuck == ASSUME ShortInstructions PROVE Spec => []LoopStopIsStuck
<1>1. Init => ReasonInv /\ LoopInv
  BY DEF Init, ResetZ80, ReasonInv, LoopInv, Asleep, SnapshotMeaning, LoopState, LoopStopIsStuck
<1>2. LoopInv => LoopStopIsStuck
  BY DEF LoopInv
<1>3. TypeInv /\ CoreInv /\ ReasonInv /\ LoopInv /\ [Next]_vars => LoopInv'
  BY NextLoopInv
<1> QED BY <1>1, <1>2, <1>3, NextReasonInv, TypeInvariant, CoreInvariant, PTL DEF Spec
=============================================================================
