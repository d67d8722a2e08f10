# z80-trace in TLA+

A verification project for z80-trace, a Z80 tracer written in C and C++: a CPU
executor (`src/src/z80_exec.c`), a disassembler, and a command-line program
(`src/src/main.cpp`) that runs a memory image, injects interrupts and timers,
stops for a list of reasons, and can be driven by gdb and by an I/O plugin.
All line numbers refer to the files under `src/`.

The modules are checked with TLC on small machines. The theorems about them are
checked with TLAPS for every machine size, program and command line.

## 1. The system

z80-trace is one process with one thread. Nothing in it runs concurrently; what
makes it hard is the *order* in which several independent sources of events
(the program, `--irq`, `--timer`, a plugin, a debugger) reach one executor
through single-entry latches, and the way one loop decides whether anything may
still happen.

| Component | State | Operations | Properties that make it correct |
|---|---|---|---|
| **Executor control**: `EmulateZ80Op`, `ServiceNMI`, `ServiceMaskableInterrupt` (`z80_exec.c`) | `pc sp r im iff1 iff2 ei_pending nmi_pending irq_pending irq_vector halted` in `Z80_STATE` | one call = accept NMI, accept INT, stay halted, or execute one instruction with its prefixes | an acceptance contract (section 3); flip-flops never enable what the program disabled; HALT freezes the CPU |
| **CPU state and reset** (`z80_state.c`, `z80_cpu.h`) | the same structure | init, reset, free | reset reaches a state the contract starts from |
| **Arithmetic and flags** (`z80_exec.c`) | A, F, pairs | one function per ALU operation | equals a reference definition for every operand |
| **Block instructions** (`z80_exec.c:928-1007`) | BC, DE, HL, pc | LDI/LDIR, CPI, INI, OUTI and reverses | interruptible between rounds, resumes where it was |
| **Decoders**: executor and `z80_disasm.c` | none | bytes to operation / text | both agree on length and operands |
| **Bus events** (`z80_exec.c:144-152`, `main.cpp:504-525`) | 32-entry array per step, cycle and write counts | record fetch, read, write, I/O; print them | the lines replay to the memory of the program |
| **Trace loop** (`main.cpp:1648-1742`) | step counter, clock, delivered flags, timer deadlines, last snapshot, tracepoint hits, halt reason | arm, idle, stop-at, loop detection, call, plugin, verdict | what the command line asks for happens on its step; the reported reason is true; the run ends |
| **GDB server** (`main.cpp:723-1333`) | sockets, packet buffers, breakpoints | packets, step, continue, Ctrl-C | every command gets its one answer; breakpoints, Ctrl-C and the step limit are honoured |
| **I/O plugin host** (`io_plugin.cpp`) | library handle, instance | load, create, reset, port access, interrupt poll, close | destroy exactly what was created |
| **Memory dumps** (`main.cpp:330-340`, `525-560`) | 16-bit start, length and offset | one dump per option at the end of the run | shows the range asked for, and ends |
| **Input files, option parsing, coverage, summary, trace output** (`main.cpp`) | the parsed `Config`, counters | text and files in, text and files out | (formatting) |

Interactions. The trace loop and the GDB server both call the executor and both
write `nmi_pending`, `irq_pending` and `irq_vector` between calls; the executor
clears the first two. Memory and port accesses go out through callbacks, which the
plugin host implements; a plugin can also ask for an interrupt after each
instruction. `halted` and the latches are read back by the trace loop, which
decides from them whether to wait, to idle the clock, or to end the run.

Hard behaviours. Order of simultaneous requests and the EI shadow; one saved
enable (IFF2) under nested NMIs; requests merging in one latch; a halted CPU
woken by something still to come; timers faster than an instruction; the early
`continue` of a HALT result; a loop detector that compares snapshots of
iterations that are not always adjacent; 16-bit and 64-bit wrap-around in dumps
and deadlines; byte-stream handling in the GDB server. `PROJECT.json` lists
them line by line under `hazards`.

There is no crash recovery, locking or message loss between parts of the
program, so nothing of that kind is modelled. The GDB socket is the only place
where two processes meet: TCP loses nothing, but a packet may be damaged in the
sense of its checksum, a reply may be refused, and the debugger may go away.

## 2. Modules

```
InterruptGate            what the executor promises about interrupts (abstract)
     ^ INSTANCE (refinement mapping in Z80Core: Gate)
Z80Core                  one call of EmulateZ80Op (variables, actions, constants)
     ^ EXTENDS                 ^ EXTENDS
Z80History               Schedule     what both callers share: requests, timers,
  any caller,              ^    ^     the idle clock, the call and its clock
  history variables        |    '-------------- GdbServer   server, debugger, streams
     ^                  TraceRun                    ^
     |                     ^    ^                MCGdbServer
MCZ80Core                  |   MCTraceRun

theorems:
ScheduleLemmas <- Z80CoreProofs
               <- TraceRunProofs
               <- GdbServerProofs

BusTrace       <- MCBusTrace        cycles of a step, bus trace, dumps
PortMemory     what a program sees of the ports (abstract)
     ^ INSTANCE (mapping Flat)
IoPluginHost   <- MCIoPluginHost    plugin host, its owner, the ports
BlockTransfer  <- MCBlockTransfer   LDIR and its family, with a handler
Z80Decode      <- MCZ80Isa          executor and disassembler, opcode by opcode
Z80Arithmetic  <- MCZ80Isa          arithmetic, flags, wide numbers
     BusTraceProofs, IoPluginHostProofs, BlockTransferProofs, Z80IsaProofs (theorems)
```

The upper half is about *when* things happen and has no data; the lower half is
about data, and each of its modules has only the control its data needs.

### Z80Core

The variables have the names of the C fields. `regs` stands for all data
registers as one value and `last` for how the previous call ended; its
`Z80StepResult` is read off `last` (`halt` and `halted` are `Z80_STEP_HALT`,
`intfail` is an unimplemented step, the rest is OK).

`EmulateZ80Op` is the disjunction of the four ways through the function:

| Action | Code |
|---|---|
| `ServiceNMI` | `z80_exec.c:702-710`: wake, IFF2 := IFF1, IFF1 := 0, push pc, pc := 0x66 |
| `ServiceMaskableInterrupt` | `712-740`: guard at 1039; `Vectored` for modes 1, 2 and an RST in mode 0, `NotVectored` for anything else in mode 0, where the request and the flip-flops are already gone when the error is found |
| `StayHalted` | `1047-1050` |
| `Execute` | `1052-1525`: the prefix loop, the instruction, and the end of the shadow at 1521 |

Instructions are classified by what they do to the control state, and every
kind is an action of its own (`Op`, `Stack`, `Jump`, `Call`, `Ret`, `Retn`,
`Repeat`, `Halt`, `Ei`, `Di`, `Im`, `Ldr`). Bytes of memory are abstracted: an
address read from memory is any member of `Targets`. So a program is "any
sequence of instructions", which includes every real program and its
self-modifying ones. T-states are `Tstates(outcome)`, the set of values the
code can add.

Constants give the sizes: `AddrSpace` is 65536 and `RefreshMod` 128 in the code.

### Z80History

The executor with a caller that may latch any request between any two calls,
and two history variables. `permitted` remembers that EI was executed after the
last DI and the last maskable acceptance; `frame` remembers the IFF1 that an
NMI handler found. They only observe.

### Schedule and TraceRun

`Schedule` is what `main` and the GDB server do in the same way around the
executor: `ArmRequests` (`ArmInterrupts`, then `ArmTimers`), the test whether a
halted CPU has only timers to wait for and the clock it then skips (`IdleWait`,
`IdleClock`), the call with its T-states and step (`CallExecutor`) and the
plugin's request (`ArmPluginInterrupt`). `ArmTimers`' `while (nextFire <=
tstates) nextFire += period` is written in closed form (`FireAfter`).
Interrupts before timers, each in command-line order; the last vector stays.

`TraceRun` is the loop of `main` (`main.cpp:1648-1742`). An iteration has three
atomic parts, cut where the code can `continue` or `break`:

| phase | Actions | Code |
|---|---|---|
| `head` | `ReachMax`, `Arm` | the `while` condition; arming and the idle clock (1649-1655) |
| `check` | `StopAt`, `LoopStop`, `Exec` | stop addresses (1670), loop detection (1675-1687), the call, its T-states, tracepoint hits and the step counter (1688-1711) |
| `after` | `After` | the plugin's request (1713) and the verdict on the result (1715-1741) |

The parsed command line is the variable `cfg`, chosen once from `Configs`.

### GdbServer

`RunGdbServer` with `ReadPacket`, its commands, `StepDebug`, `ContinueDebug` and
`PollCtrlC`, the debugger, and a queue of units in each direction. A unit is what
the code reads in one piece: a packet, good or damaged, an acknowledgement, the
byte 0x03, a reply. Commands are classes: `ask` (everything that only reads, and
memory writes), `bad` (does not parse), `noack`, `set`/`setbad` (P and G, whole
or broken off), `Z`, `z`, `s`, `c`, `D`, `k`. A resumed target goes through
`head`, `check` and `after` like the trace loop, and between any two of them the
debugger may send, acknowledge, refuse, disconnect or have its connection reset.
`seen` records only what the properties compare.

The debugger is external: it does what the protocol binds it to (one command at
a time, Ctrl-C only while it believes a continue runs, a packet refused with `-`
is sent again), and nothing more is assumed.

### BusTrace

A step is cut into bus cycles: prefixes, the opcode, and the cycles of the form of
the instruction: `Form` has one entry for every pattern of cycles in the executor,
CB and ED included, and `IndexedForm` those that a DD or FD prefix changes
(`CyclesOf`). Memory is real and programs overwrite themselves; a byte is a prefix
or a form, and a byte behind CB or ED is any byte, because the form has said
already what it does. `Jump` stands for everything that sets pc. An interrupt is
acknowledged with the cycles of its mode; an IM 0 vector that is no RST leaves its
acknowledge in the buffer and fails the step. `PrintTrace` is what the caller
makes of the buffer: the bus lines are a sequence, the I/O records a set told
apart by step and place. The second half is the dumps: `StoredLength` and
`NextOffset` keep the 16-bit types of the code.

### IoPluginHost and PortMemory

`Load` with a failure at each of its calls, `main` around it (attach, files,
reset, run, every exit), port accesses through the thunks, `AfterInstruction`,
and the destructor. The library is the environment: what it exports and how
`create` ends is a constant, what callbacks answer is any value. `calls` records
what it saw. `PortMemory` is the abstract view of a program: one byte per port.

### BlockTransfer

The sixteen block instructions on a memory of Base x Base bytes (Base is 256 in
the code), one action per round, with an interrupt between any two rounds whose
handler pushes pc and returns through what it then finds on the stack.

### Z80Decode

The two decoders, which share nothing in the code, each translated from its own
source: the executor by opcode fields, with the registers, the operand bytes, the
time its data takes on the bus and the T-states it adds; the disassembler by its
tables. RRD and RLD are given by the digits they move. `FetchPrefix` and
`EmulateZ80Op` are the prefix loop and the dispatch.

### Z80Arithmetic

`Add8`, `Sub8`, `Daa`, ... return a value and the documented flags. The machine is a
*program*: it adds, subtracts (in binary or decimal, in bytes or pairs),
compares, increments or shifts a number of several limbs with one instruction
per limb, through the carry, as Z80 programs do.

### InterruptGate

A gate (`closed`, `shadow`, `open`), one remembered `resume`, two latches and
`asleep`. It has no vectors, registers or opcodes. Under the mapping `Gate`,
`gate` is computed from IFF1 and `ei_pending`, and `resume` is IFF2.

## 3. Runs

| Run | Question | Result |
|---|---|---|
| `core` (MCZ80Core) | Does `EmulateZ80Op`, under every interleaving of requests and instructions, implement `InterruptGate` (safety and liveness) and keep the flip-flop, shadow and halt properties? | holds, 75 384 states |
| `trace` (MCTraceRun) | Does the loop deliver requests and timers when asked, report a true reason, end, and keep the executor's contract? | holds, 962 123 states |
| `gdb` (MCGdbServer) | Does every command get its one answer, whatever the debugger does meanwhile, and are breakpoints, Ctrl-C and the end of the connection honoured? | holds, 328 599 states |
| `bus` (MCBusTrace) | Can the bus trace be replayed, does every step end, do dumps show their range and end? | holds with the exceptions the properties name, 207 100 states |
| `plugin` (MCIoPluginHost) | Is a plugin's object used and destroyed only while it exists, on every way out, and are the ports a memory? | holds, 472 203 states |
| `block` (MCBlockTransfer) | Is a repeated block instruction the whole operation, whatever interrupts come between its rounds? | holds, 698 486 states |
| `isa` (MCZ80Isa) | Do executor and disassembler decode alike, are the clocks long enough, does the arithmetic chain? | holds with the exceptions named, 574 910 states |
| `loop_loses_nmi` | Is a halted CPU ever given up as an infinite loop while an NMI that would wake it is latched or scheduled? | it is (finding 1) |
| `self_jump` | Does the loop detector find a jump to itself? | it does not (finding 2) |
| `tracepoint_max` | Does `--tracepoint-max=N` stop at N hits? | not while halted (finding 3) |
| `mnemonic` | Does every documented instruction do what its name says? | not RRD and RLD (finding 4) |
| `tstates` | Do the documented uses of an index prefix take the time of their opcode fetches? | not LD IX,nn (finding 5) |

Properties of `core`:

- `GateContract`: every call is a contract step. NMI first, INT only when the gate
  is open and outside the shadow, instructions only when nothing can be taken,
  HALT left exactly by an acceptance; a request that can be taken is taken.
- `OnlyProgramEnables`: no sequence of NMI, RETN, RET sets a flip-flop that the
  program did not enable since the last DI or INT.
- `ShadowIsOneCall`: `ei_pending` stands only right after EI, IFF1 set, running.
- `NmiReturnRestores`: RETN from an undisturbed handler restores the enable.
- `HaltFreezes`: while halted no register moves, R included.

Properties of `trace`:

- `IrqDelivery`: when a step's call is made, exactly the requests naming this or
  an earlier step have been armed.
- `NmiOnItsStep`: a step named by an `--irq` NMI *is* the acceptance.
- `TimerOnTime`: no deadline is behind the clock at a call; deadlines move only
  when reached, by less than a period beyond the clock, and stay on the grid
  START + k·PERIOD.
- `HltIsFinal`: `"hlt"` is reported only if nothing that was asked for could
  still wake the CPU.
- `LoopStopIsStuck`: `"loop"` is reported only for a CPU halted behind a masked
  request or a jump to itself.
- `Termination`: every run ends.
- `GateSafety`: the executor as the loop uses it still obeys the contract.

Properties of `gdb`:

- `AnswersMatch`: at most one reply is under way, made for the command the
  debugger waits for. The one exception is in the property: a Ctrl-C that was
  unread when the target stopped is answered by a second stop.
- `AckModeAgreed`: the two sides end acknowledging at the same packet.
- `BreakpointHolds`: a continue executes nothing at a breakpoint but, once, the
  instruction it was told to continue from.
- `PromptInterrupt`: at most one instruction is executed after a Ctrl-C has
  reached the server. Once a Ctrl-C has come too late the two sides are a reply
  apart, and without acknowledgements the next continue may then lie in front of
  the next Ctrl-C, which the poll, looking at the first unit only, does not see.
- `Answered`: every command is answered, unless a reply was refused, which the
  server never sends again, or the debugger goes away.
- `SessionEnds`: no server is left behind by a debugger that has gone. A
  continue need not notice; its step limit ends it.
- `GateSafety`, as for the trace loop.

Properties of `bus`:

- `BusTraceReplays`: the WRITE lines applied to the loaded image give the
  program's memory after every step, cycles are numbered without a gap and the
  PASS line counts them, as long as no step had more cycles than the buffer.
- `StepEnds`: every step ends if one byte of memory is not a prefix.
- `DumpCovers`: a dump that ends has shown exactly its range, in order, except
  that all of memory shows nothing.
- `OutputEnds`: the output ends, if no hexadecimal dump is longer than memory less
  one line.

Properties of `plugin`:

- `ObjectLife`: callbacks only between create and destroy, of the right version,
  and nothing after dlclose; destroy alone also for an object that never was.
- `PortsRemember`: the ports refine `PortMemory`.
- `EndsClosed`: every run ends with the library closed and its object destroyed,
  with exit code 1 if it could not be loaded; a library that does not open kills
  the process (section 5).

Properties of `block`:

- `BlockResult`: a copy is the copy of the block (the pattern, when the ranges
  overlap), a search stops behind the first match and says so, input and output
  move one byte per value of B in order, nothing else in memory changes.
- `BlockEnds`: from any count, also if the instruction overwrites itself.

Properties of `isa`:

- `DisassemblyMatches`: what the trace prints is what was executed, over as many
  bytes as pc moved. The exceptions are named: RRD and RLD, LD from indexed
  memory to H or L, and undocumented forms behind DD CB. It compares two decoders,
  so a mistake both make (the stores of H and L, section 5) is beyond it.
- `ClockCoversBus`: T-states at least cover the bus cycles, without a prefix and
  behind one on indexed memory.
- `SequenceIsWide`: a chain of byte or pair instructions computes on the whole
  number, with carry, sign and overflow of the whole number.

Each of them fails for a plausible mutation of the code (`mutants` in
`PROJECT.json`; the mutated forms stand in the modules next to the original
definitions).

### Bounds, and why they are enough

- `core`: 4 addresses, R modulo 2, no or one prefix, all 12 instruction kinds,
  all three interrupt modes, one RST vector and one that is not. No property
  compares addresses except for "unchanged", and the acceptance
  logic does not branch on addresses at all, so more of them add states
  and no behaviour. There is no step bound: the run is complete for this machine.
- `trace`: 20 command lines, chosen so that every pair that shares a latch or a
  decision meets: two requests on one step in both orders, requests of both
  kinds, a request on the last step, timers faster and slower than an
  instruction, a timer due at reset, two timers due together, timer with NMI,
  tracepoints with and without limits, stop addresses at both interrupt
  entries, and a plugin that asks for anything after any step. `MaxSteps = 4`
  lets a program run EI, its shadow, HALT and a wake-up; it is the
  `--max-steps` of the run, so it is behaviour of the code and not a cut.
  Addresses are modulo 16 with R modulo 4: a jump behind three prefixes brings R
  round, as 127 prefixes do in the code, so the loop detector can fire on a
  running CPU. Instructions are limited to the six kinds the loop can tell
  apart (`MCKinds`); the others differ only in registers, which `core` covers.
- `gdb`: six sessions of up to seven commands that set, hit, continue from and
  remove breakpoints, write pc before a step and a continue, step past the limit,
  and end both ways in both acknowledgement modes; one Ctrl-C, one damaged packet
  and `--max-steps=3`, alone, with a scheduled NMI or with a timer. Any number of
  replies may be refused. A second Ctrl-C can matter only behind a late one, the
  case that `AnswersMatch` and `PromptInterrupt` except; the theorems hold for any
  number.
- `bus`: a buffer of 4 instead of 32 events, so that two prefixes overflow it,
  on 4 addresses with images that hold no, some and only prefixes in front of
  forms with and without an opcode byte, operands, ports and a displacement (the
  cycles of the other forms are of the same kinds, and the theorems take them all); dumps of
  every relation to the row of 2 bytes: within, across the end of memory,
  longer than memory less a row, all of memory.
- `plugin`: 2 ports, 2 values, every library that the code can tell apart.
- `block`: 16 addresses and bytes of 4 values; copies forwards, backwards,
  overlapping at both sides, over the end of memory, over the instruction and
  over the stack; counts 0, 1, some. Two interrupts: one between each pair of
  rounds in turn, and a second directly behind the first. More of them are more
  of the same, but without a bound an interrupt at every boundary would keep the
  instruction from ever ending, which is no fault of it.
- `isa`: all 252 opcodes and both pages of 256 behind no prefix, each of the two,
  and DD FD; conditions met and not. Arithmetic on two limbs at the boundaries of
  sign, half carry and carry; decimal digits 0, 1, 4, 5 and 9.
- The theorems of section 4 have none of these bounds.

### Fairness

- `Z80History`: `WF(Emulate)`. Every caller in the program is a loop around
  `EmulateZ80Op`; nothing is assumed about requests. It is used for the fairness
  part of `Gate!Spec`: a call always takes what can be taken, so one fair action
  is enough.
- `TraceRun`: `WF(Next)`, one thread that the operating system keeps running.
- `SafeSpec` of the contract has no fairness, because a trace run may stop
  with a request latched (`--max-steps`, a stop address).

- `GdbServer`: `WF(Server)`, one thread, and `WF(ClientReads)`, a debugger that
  reads what it is sent. Nothing makes it send, acknowledge favourably or leave.
- `BusTrace`: `WF(Next)`, one thread. `BlockTransfer`: `WF(Step)`, rounds and
  handlers go on; interrupts are not fair.
- `IoPluginHost`: loading and the steps of `main` are fair, and so is `EndRun`,
  because the trace loop ends (`Termination` of `trace`). Port accesses are not.

`Done` and its like stutter when a run is over, so TLC's deadlock check is on,
except in `isa`, where a machine stops after its one instruction or number.

## 4. Proofs

Every safety property of the runs is a theorem.

`ScheduleLemmas` holds what is true of any call of the executor, and of arming,
idling and calling for both callers. The theorems are in
`Z80CoreProofs` (an arbitrary caller), `TraceRunProofs`, `GdbServerProofs`,
`BusTraceProofs`, `IoPluginHostProofs`, `BlockTransferProofs` and `Z80IsaProofs`.
Assumptions are only those named in the modules that declare the constants (a
non-empty address space, T-states and vectors in their C ranges, `Configs` well
typed, periods not 0, which `ParseTimer` guarantees, bytes of two values at least,
a memory that is whole dump rows, numbers of 2 to 256 limbs, since the program counts
them in B, where 0 stands for 256), plus `ShortInstructions` for one theorem.

| Theorem | States | Argument |
|---|---|---|
| `Z80CoreProofs!TypeCorrect` | `[]TypeOK` | inductive as it stands; `CallType` covers one call |
| `EnabledByProgram`, `EiShadow` | `[]OnlyProgramEnables`, `[]ShadowIsOneCall` | one invariant, `InterruptInv` |
| `NmiReturn` | `NmiReturnRestores` | needs `FrameKeepsIff2`: while a frame is open and undisturbed IFF2 *is* the saved enable and IFF1 is 0. The action property says nothing about the steps between NMI and RETN, so it is not provable alone |
| `HaltSleeps` | `HaltFreezes` | a step property; `ExecuteEffect` shows that execution needs `halted = 0` |
| `ImplementsGate` | refinement of `Gate!SafeSpec` | `CallSimulated` maps each way through `EmulateZ80Op`. It needs `ShadowIsOneCall` twice: a halted CPU is never in the shadow (so `StayHalted` does not open the gate), and the shadow implies IFF1 (so an NMI in it saves "open") |
| `TraceRunProofs!TypeCorrect` | `[]TypeOK` | with `CallHasStep`, so that the counter stays at most `--max-steps`; `NextDeadline` bounds the timer arithmetic |
| `IrqsArmedOnTheirStep` | `[]IrqDelivery` | strengthened at `head`, where the delivered set is that of the previous step or, after idling, already that of the current one |
| `NmiTakenOnItsStep` | `[]NmiOnItsStep` | between arming and call the latch is set (`NmiInv`), and a latched NMI is always taken (`LatchedNMITaken`) |
| `TimersKeepTheirSchedule` | `[]TimerOnTime` | the grid is carried as a witness k, because remainders are not inductive for the solver |
| `HltMeansFinal` | `[]HltIsFinal` | needs that the halted flag is set exactly after a HALT result (`HaltFlag`) and `IrqInv`, by which nothing undelivered lies in the past |
| `LoopMeansStuck` | `[]LoopStopIsStuck` | see below |
| `TraceRunProofs!ImplementsGate` | `GateSafety` for the loop | arming and plugin are `Request`, a call is a CPU step, the rest stutters |
| `GdbServerProofs!GdbTypeCorrect` | `[]TypeOK` | with `ServingInv` (a resume is served exactly while the server is in a loop) and `AskedInv` (what is sent again is the command that is waited for), without which the types are not inductive |
| `DebuggedImplementsGate` | `GateSafety` for the debugger | `GdbCoreInv` as for the trace loop; P, G and c write pc and registers only, which the gate does not see |
| `BreakpointsHold` | `BreakpointHolds` | a step property, from `ServingInv`: only the first call of a resume may ignore a breakpoint |
| `AnswersAreMatched` | `[]AnswersMatch` | `StageInv`, see below |
| `AcksEndTogether` | `[]AckModeAgreed` | `AckInv`: five ways the acknowledgements on both streams can stand |
| `InterruptIsPrompt` | `[]PromptInterrupt` | `StreamInv` (behind an unread packet lie only Ctrl-C) and `OverrunInv` (a call made with a Ctrl-C unread is followed by a poll that finds it) |
| `BusTypeCorrect` | `[]TypeOK` | with `StepInv`; the buffer's bound comes from the guard of `TraceEvent` |
| `BusTraceIsMemory` | `[]BusTraceReplays` | `ReplayInv`, see below, and `LinesInv` for numbers and count |
| `DumpIsRange` | `[]DumpCovers` | `DumpInv`: the offset is a multiple of the line, so a length within a line of all memory is never reached, and any other is reached without wrapping |
| `ObjectsLive`, `LeavesNothing` | `[]ObjectLife`, closed at exit | `HostInv` says for every point of `Load` and `main` what the library has been called with; the history is then checked call by call (`LifeGoesOn`) |
| `PortsAreMemory` | refinement of `PortMemory` | a port access is one of the memory's, everything else leaves `ioSpace` alone |
| `BlockIsCorrect` | `[]BlockResult` | `BlockInv`, see below |
| `TraceMatches` | `[]DisassemblyMatches` | `DecodeInv`, see below; then opcode by opcode |
| `ClockCovers` | `[]ClockCoversBus` | `DecodeInv` too: what was executed, and how many opcode bytes were fetched for it, follow from the bytes |
| `WideSequences` | `[]SequenceIsWide` | `SumInv`, see below |

`LoopMeansStuck`: the snapshot may be several iterations old,
since waiting iterations do not take one. The invariant `LoopInv` says what an
equal snapshot *means* in every state (`SnapshotMeaning`), and that a halted
CPU reaches the check only with something left to wake it (`Asleep`). Its step
rests on `SnapshotMoves`: a call that changes no compared register is
`StayHalted` or a jump. That holds if an instruction with its prefixes is shorter than
the memory and two fetches do not bring R round (`ShortInstructions`), which is
false only for a memory that is all prefix bytes.

`AnswersAreMatched`: that one reply is under way says nothing of the packets still
to be answered, damaged ones, retransmissions or acknowledgements. `Stage` lists the
seven ways a command can stand (`Resting`, `Sent`, `Refused`, `Running`, `Replied`,
`Unheard`, `Leaving`), each with both streams; there is one lemma per stage that
says where every step of either side leads.

`BusTraceIsMemory`: the lines of a step appear only after it, while memory has
changed during it. `ReplayInv` is about one stream, the lines followed by the
buffer: the last write of an address in it, or the loaded image, is its byte, and
the buffer has missed nothing (`cycles = Len(events)`) unless a step overflowed.
`PrintTrace` moves the buffer into the lines and leaves the stream as it was.

`BlockIsCorrect`: for some n up to the count, the state is that after n rounds
(`Accessed`), and pc, or the return address on the stack, is the instruction
exactly if rounds are left (`Control`). The round of a copy reads what earlier
rounds may have overwritten: `SourceByte` shows it is the byte of the pattern, by
whether the round is within `Distance` of the first. The addresses are those of
any base, so the lemmas in front are about remainders of any size (`ModUnique`,
`ModSum`, `ModDiffers`).

`TraceMatches`: the executor keeps one index and replaces it at every prefix, the
disassembler looks at the last prefix. `DecodeInv` says that after `cursor` prefixes the index
is that of the last one fetched (`IndexAt`), and that what was executed is what the
bytes say under it. Neither bounds the number of prefixes. Both decoders are then evaluated
for the opcode: the fields `x`, `y`, `z` determine the byte (`Fields`), each row of the
disassembler's tables is shown to be what the executor does for the fields of its
opcodes, and the bytes that are in no table are the ones decoded by fields in
both.

`WideSequences`: `SequenceIsWide` speaks of programs that have stopped, and the number it
speaks of is a recursive function of limbs the program has not reached. `SumInv` speaks of
every state: the number made by the limbs done and those to come, and the carry that the next
limb is owed at its weight, is the wide result so far (`Upward`; `ShiftedRight` from the
other end; `Compared` for the limbs found equal). A limb keeps it because value plus
radix times carry out is what its instruction adds; one lemma says so for each of `Add8`,
`Sub8`, `Add16`, `Add16Carry`, `Sub16Carry`, `Inc8`, `RotateCB` and for `Daa` behind the
first two. S and PV are those of the highest limb (`TopFlags`), which is the sign and the
overflow of the whole number because the limbs below it weigh less than one. Facts about
`Weights` and `Partial` of any length are inductive; they are proved by minimality: of
the lengths at which a fact fails, the set of which is written out, there would be a
least (`WFMin`, `NatLessThanWellFounded`), and it is not 0 and not a successor.

What the proofs changed. `PromptInterrupt` used to have no condition, and its
proof failed for a second Ctrl-C; TLC, given two, found the continue that runs on
behind a late one. Some guards of `CASE` that overlapped are now disjoint, or an `IF`: TLA+ leaves
open which of two true guards is taken, TLC takes the first, and so the T-states of
DD CB instructions were left open in the model without any run noticing, until
`ClockCovers` could not be proved. `SelectSeq` has given way to sets, and functions
joined with `@@` to `CASE`, since the provers know nothing of them.

Model-checked only:

- liveness, since it and `ENABLED` are outside TLAPS here: `Termination`,
  `Answered`, `SessionEnds`, `StepEnds`, `OutputEnds`, `EndsClosed`, `BlockEnds`
  and the fairness part of `GateContract` (`ImplementsGate` and `LeavesNothing`
  prove the safety in two of them).

The five violated properties need no proof.

## 5. Findings

1. **A masked request turns waiting into a loop** (`main.cpp:1675`). A halted CPU
   counts as waiting only if *no* request is pending. With a masked INT latched,
   two equal snapshots end the run with `"loop"`, although a scheduled NMI
   (`--irq`, README.md:38) would wake the CPU. Run `loop_loses_nmi`.
2. **A jump to itself is not detected as a loop** (`main.cpp:645`). R is part of
   the snapshot and every fetch increments it. Run `self_jump`.
3. **`--tracepoint-max` is not looked at while halted** (`main.cpp:1718`). The
   HALT result continues the loop before the limit is tested, so hits on the
   waiting CPU pass N ("Stop after N total tracepoint hits", `main.cpp:135`).
   Run `tracepoint_max`.
4. **RRD and RLD are exchanged** (`z80_exec.c:910`, `919`). ED 67 rotates the
   three digits to the left and ED 6F to the right; the disassembler names them
   as the opcode map does. Run `mnemonic`. The same comparison shows LD H,(IX+d)
   and LD L,(IX+d) writing a half of IX (`z80_exec.c:1327`), which the trace
   prints as H or L. It cannot show the stores: LD (IX+d),H and LD (IX+d),L (DD 74,
   DD 75) store a half of IX by the same line, and the disassembler prints
   that half (`z80_disasm.c:658`), so the two agree with each other and not
   with the Z80.
5. **T-states behind an index prefix** (`z80_exec.c:1084`). LD IX,nn counts 10, as
   LD HL,nn does, though its four bytes take at least 14; JP (IX) counts 4
   (`1295`). README.md:36 calls the totals instruction-accurate. Run `tstates`.

Met while modelling and held by a property rather than a run of its own:

- More than 32 bus cycles in a step are dropped without a word, writes included
  (`BusTraceReplays` names it).
- A dump of 0x10000 bytes shows nothing, one of more than 0xFFF0 never ends
  (`DumpCovers`, `OutputEnds`).
- A plugin that cannot be opened kills the process: `dlerror()` is asked twice
  (`io_plugin.cpp:17`) and the second answer is null (`EndsClosed`).
- A Ctrl-C that crosses a stop on its way is answered with a stop reply that
  the debugger will take for the answer to its next command (`AnswersMatch`).

## 6. Not modelled, and the plan

Not modelled: formatting of records, coverage and summaries; option and file
parsing (its result is `Configs`); the text of packets, whose numbers are parsed
in 64 bits without a bound; allocation; real time; the 64-bit width of the clock,
which needs a run of 2^64 T-states to matter. Of the arithmetic: AND, OR, XOR,
BIT, the rotations of A, SCF, CCF, NEG, and flag bits 3 and 5. `Z80Core` and the
modules on top of it have no memory contents and no data registers: that is where
`BusTrace`, `BlockTransfer`, `Z80Decode` and `Z80Arithmetic` stand beside them.

Done: all modules of section 2 with their runs, and the theorems of section 4. Nothing of
the plan is left but the liveness that section 4 names.
