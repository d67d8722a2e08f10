------------------------------ MODULE TraceRun ------------------------------
(***************************************************************************)
(* The trace loop of z80-trace (main, src/main.cpp) around the executor:   *)
(* scheduled interrupts, periodic timers, the interrupt a plugin may ask   *)
(* for after an instruction, stop addresses, loop detection, tracepoints   *)
(* and the reason the run ends with.                                       *)
(*                                                                         *)
(* One iteration of the loop is cut at the points where it may continue or *)
(* break: "head" (the while condition and the arming of requests), "check" *)
(* (what may stop the run before a call of EmulateZ80Op, and the call) and *)
(* "after" (the plugin, and what may stop the run after the call).         *)
(***************************************************************************)
EXTENDS Schedule

VARIABLES
  phase,
  lastState,   \* the registers at the previous check, <<>> before the first
  hits,        \* per tracepoint
  totalHits,
  haltReason

loopVars == <<phase, step, tstates, delivered, nextFire, lastState, hits,
              totalHits, haltReason>>
vars == <<coreVars, cfg, loopVars>>

HaltReasons == {"max", "stop", "loop", "hlt", "unimplemented",
                "tracepoint-max", "tracepoint-stop"}

Snapshot == Addr \X Addr \X Regs \X (0 .. RefreshMod - 1) \X {0, 1, 2} \X Bit \X Bit \X Bit

(***************************************************************************)
(* Every variable of the loop has its type, the executor's included.       *)
(***************************************************************************)
TypeOK ==
  /\ CoreTypeOK
  /\ ScheduleTypeOK
  /\ phase \in {"head", "check", "after", "done"}
  /\ step <= cfg.maxSteps
  /\ lastState \in Snapshot \union {<<>>}
  /\ hits \in [cfg.tracepoints -> Nat]
  /\ totalHits \in Nat
  /\ haltReason \in HaltReasons

Init ==
  /\ InitSchedule
  /\ ResetZ80(cfg.entryAddr, cfg.spAddr)
  /\ phase = "head"
  /\ lastState = <<>>
  /\ hits = [a \in cfg.tracepoints |-> 0]
  /\ totalHits = 0
  /\ haltReason = "max"

Finish(reason) == phase' = "done" /\ haltReason' = reason
GoTo(p) == phase' = p /\ UNCHANGED haltReason

----------------------------------------------------------------------------
StepsLeft_OneMore == step <= cfg.maxSteps        \* mutant: <= for <
StepsLeft == step < cfg.maxSteps

ReachMax ==
  /\ phase = "head" /\ ~StepsLeft
  /\ phase' = "done"
  /\ UNCHANGED <<coreVars, cfg, step, tstates, delivered, nextFire, lastState,
                 hits, totalHits, haltReason>>

Arm ==
  /\ phase = "head" /\ StepsLeft
  /\ ArmRequests
  /\ IF IdleWait
     THEN tstates' = tstates + IdleClock /\ phase' = "head"
     ELSE UNCHANGED tstates /\ phase' = "check"
  /\ UNCHANGED <<lastState, hits, totalHits, haltReason>>

----------------------------------------------------------------------------
(***************************************************************************)
(* What CaptureLoopState compares: every register and the refresh counter, *)
(* but neither memory nor the latches.                                     *)
(***************************************************************************)
LoopState == <<pc, sp, regs, r, im, iff1, iff2, halted>>

WaitingForScheduledInterrupt_Never == FALSE      \* mutant: waiting is a loop
WaitingForScheduledInterrupt == halted = 1 /\ ~Pending /\ HasFutureInterrupts

DetectLoops == cfg.loopDetect /\ ~WaitingForScheduledInterrupt
LoopDetected == DetectLoops /\ lastState = LoopState

StopAt ==
  /\ phase = "check" /\ pc \in cfg.stopAddrs
  /\ Finish("stop")
  /\ UNCHANGED <<coreVars, cfg, step, tstates, delivered, nextFire, lastState,
                 hits, totalHits>>

LoopStop ==
  /\ phase = "check" /\ pc \notin cfg.stopAddrs
  /\ LoopDetected
  /\ Finish("loop")
  /\ UNCHANGED <<coreVars, cfg, step, tstates, delivered, nextFire, lastState,
                 hits, totalHits>>

HitTracepoint ==
  IF pc \in cfg.tracepoints
  THEN hits' = [hits EXCEPT ![pc] = @ + 1] /\ totalHits' = totalHits + 1
  ELSE UNCHANGED <<hits, totalHits>>

Exec ==
  /\ phase = "check" /\ pc \notin cfg.stopAddrs /\ ~LoopDetected
  /\ lastState' = IF DetectLoops THEN LoopState ELSE lastState
  /\ CallExecutor
  /\ HitTracepoint
  /\ GoTo("after")

----------------------------------------------------------------------------
AllTracepointsHit ==
  cfg.tracepoints # {} /\ \A a \in cfg.tracepoints : hits[a] > 0

ReachedTracepointMax == cfg.tracepointMax > 0 /\ totalHits >= cfg.tracepointMax

Verdict ==
  CASE ResultIsHalt ->
         IF Pending' \/ HasFutureInterrupts \/ HasActiveTimers
         THEN GoTo("head") ELSE Finish("hlt")
    [] ResultIsUnimplemented -> Finish("unimplemented")
    [] OTHER ->
         IF ReachedTracepointMax THEN Finish("tracepoint-max")
         ELSE IF cfg.tracepointStop /\ AllTracepointsHit
              THEN Finish("tracepoint-stop") ELSE GoTo("head")

After ==
  /\ phase = "after"
  /\ ArmPluginInterrupt
  /\ Verdict
  /\ UNCHANGED <<cfg, step, tstates, delivered, nextFire, lastState, hits,
                 totalHits>>

Done == phase = "done" /\ UNCHANGED vars

Next == ReachMax \/ Arm \/ StopAt \/ LoopStop \/ Exec \/ After \/ Done

(***************************************************************************)
(* One thread runs the loop.                                               *)
(***************************************************************************)
Spec == Init /\ [][Next]_vars /\ WF_vars(Next)

----------------------------------------------------------------------------
(***************************************************************************)
(* An --irq is armed on exactly the step it names: before the call of that *)
(* step, not earlier, and also when the CPU sleeps through the step.       *)
(***************************************************************************)
NamedBefore(n) == {i \in DOMAIN cfg.interrupts : cfg.interrupts[i].step < n}

IrqDelivery ==
  /\ phase = "check" => delivered = NamedBefore(step + 1)
  /\ phase = "after" => delivered = NamedBefore(step)

(***************************************************************************)
(* An NMI scheduled for a step is what that step executes, whatever else   *)
(* is pending and whether or not the CPU is halted or in the EI shadow.    *)
(***************************************************************************)
NmiOnItsStep ==
  phase = "after" =>
    \A i \in DOMAIN cfg.interrupts :
      cfg.interrupts[i].nmi /\ cfg.interrupts[i].step = step - 1 => last = "nmi"

(***************************************************************************)
(* Timers fire at the first boundary at or after their deadline and keep   *)
(* to their schedule START, START + PERIOD, ...: when a call is made no    *)
(* deadline has passed, a deadline only moves once it was reached, by less *)
(* than one period beyond the clock, and never off the grid.               *)
(***************************************************************************)
TimerOnTime ==
  \A t \in DOMAIN cfg.timers :
    LET start == cfg.timers[t].start
        period == cfg.timers[t].period
    IN /\ phase = "check" => nextFire[t] > tstates
       /\ nextFire[t] # start => nextFire[t] - period <= tstates
       /\ nextFire[t] >= start /\ (nextFire[t] - start) % period = 0

(***************************************************************************)
(* "hlt" is reported only for a CPU that nothing the command line asked    *)
(* for could have woken.                                                   *)
(***************************************************************************)
HltIsFinal ==
  haltReason = "hlt" =>
    /\ halted = 1 /\ ~Pending
    /\ cfg.timers = <<>>
    /\ \A i \in DOMAIN cfg.interrupts : cfg.interrupts[i].step < step

(***************************************************************************)
(* The loop detector stops only two kinds of machine: one halted behind a  *)
(* request its flip-flop masks, and a jump to itself whose prefixes turned *)
(* R full circle.  A CPU asleep until a scheduled interrupt or a timer is  *)
(* never taken for one in a loop.                                          *)
(***************************************************************************)
LoopStopIsStuck ==
  haltReason = "loop" =>
    \/ halted = 1 /\ irq_pending = 1 /\ iff1 = 0
    \/ halted = 0 /\ last = "jump"

(***************************************************************************)
(* Every run ends: --max-steps bounds it even while timers keep a halted   *)
(* CPU waiting, because waiting advances the clock to the next deadline.   *)
(***************************************************************************)
Termination == <>(phase = "done")

(***************************************************************************)
(* What the options promise and the code does not keep.                    *)
(*                                                                         *)
(* --irq injects an NMI "on a chosen instruction step": the run is not     *)
(* given up for an infinite loop while the CPU is halted and such an NMI,  *)
(* which no flip-flop masks, is latched or still to come.                  *)
(***************************************************************************)
LoopStopLosesNoNMI ==
  haltReason = "loop" /\ halted = 1 =>
    /\ nmi_pending = 0
    /\ \A i \in DOMAIN cfg.interrupts \ delivered : ~cfg.interrupts[i].nmi

(***************************************************************************)
(* "Infinite loop detection" detects the shortest infinite loop there is:  *)
(* after a jump that changed no register but R, with nothing scheduled     *)
(* that could interrupt it, the same jump is not executed once more.       *)
(***************************************************************************)
ExceptR(s) == <<s[1], s[2], s[3], s[5], s[6], s[7], s[8]>>

NothingComes ==
  ~Pending /\ ~HasFutureInterrupts /\ ~HasActiveTimers /\ ~cfg.plugin

JumpAgain ==
  /\ Exec /\ DetectLoops /\ NothingComes /\ lastState # <<>>
  /\ last = "jump" /\ last' = "jump"

SelfJumpDetected ==
  [][JumpAgain => ExceptR(lastState) # ExceptR(LoopState)]_vars

(***************************************************************************)
(* --tracepoint-max=N: "Stop after N total tracepoint hits".               *)
(***************************************************************************)
TracepointMaxRespected ==
  cfg.tracepointMax > 0 => totalHits <= cfg.tracepointMax
=============================================================================
