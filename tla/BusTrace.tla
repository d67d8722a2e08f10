------------------------------ MODULE BusTrace ------------------------------
(***************************************************************************)
(* What z80-trace writes about the bus: the cycles of a step recorded by   *)
(* the executor in a buffer of bounded size (TraceEvent and its callers,   *)
(* src/z80_exec.c), the BUS and WRITE lines and I/O records made from the  *)
(* buffer after the step, and the memory dumps at the end (src/main.cpp).  *)
(*                                                                         *)
(* A step is cut into bus cycles.  Memory is real here, its bytes are      *)
(* classes: a DD or FD prefix, or the form of an instruction, which is the *)
(* list of cycles that follow the opcode.  Where data is read from and     *)
(* written to, which port is used and where a jump goes to is any address  *)
(* of Targets.                                                             *)
(***************************************************************************)
EXTENDS Integers, Sequences, FiniteSets

CONSTANTS
  AddrSpace,   \* 65536 in the code
  MaxEvents,   \* Z80_MAX_STEP_EVENTS, 32
  RowLength,   \* 16 bytes in a line of the hexadecimal dump
  Bytes,       \* the bytes memory may hold
  Images,      \* the memory images considered
  Targets,     \* the addresses of data, of ports and of jumps
  WriteData,   \* the bytes an instruction may write
  Configs,     \* the command lines considered
  MaxSteps     \* --max-steps

Addr == 0 .. AddrSpace - 1

(***************************************************************************)
(* The cycles behind the opcode: a further opcode byte, an operand at pc,  *)
(* a read, a write, a port.  There is one class for every list of cycles   *)
(* an instruction makes; the classes that a DD or FD prefix changes, those *)
(* of (HL) and of CB, are apart: behind a prefix they read a displacement, *)
(* and DDCB its last byte as an operand.  A condition that fails is the    *)
(* class of the cycles that remain.                                        *)
(***************************************************************************)
Form ==
  [nop            |-> <<>>,                        \* registers, RET cc not taken
   halt           |-> <<>>,
   immediate      |-> <<"operand">>,               \* n, JR, DJNZ
   immediateWord  |-> <<"operand", "operand">>,    \* nn, JP, CALL cc not taken
   load           |-> <<"read">>,                  \* LD A,(BC) and (DE)
   store          |-> <<"write">>,
   loadHL         |-> <<"read">>,                  \* LD r,(HL), ADD A,(HL), ...
   storeHL        |-> <<"write">>,
   storeImmediate |-> <<"operand", "write">>,      \* LD (HL),n
   increment      |-> <<"read", "write">>,         \* INC (HL), DEC (HL)
   loadByte       |-> <<"operand", "operand", "read">>,
   storeByte      |-> <<"operand", "operand", "write">>,
   loadWord       |-> <<"operand", "operand", "read", "read">>,
   storeWord      |-> <<"operand", "operand", "write", "write">>,   \* and CALL
   push           |-> <<"write", "write">>,        \* and RST
   pop            |-> <<"read", "read">>,          \* and RET
   exchangeStack  |-> <<"read", "read", "write", "write">>,
   input          |-> <<"operand", "io-read">>,
   output         |-> <<"operand", "io-write">>,
   bitRegister    |-> <<"opcode">>,                \* CB on a register
   bitTest        |-> <<"opcode", "read">>,        \* BIT b,(HL)
   bitUpdate      |-> <<"opcode", "read", "write">>,
   extended       |-> <<"opcode">>,                \* ED on registers
   extendedIn     |-> <<"opcode", "io-read">>,
   extendedOut    |-> <<"opcode", "io-write">>,
   extendedLoad   |-> <<"opcode", "operand", "operand", "read", "read">>,
   extendedStore  |-> <<"opcode", "operand", "operand", "write", "write">>,
   extendedReturn |-> <<"opcode", "read", "read">>,
   blockMove      |-> <<"opcode", "read", "write">>,    \* LDI, ..., RRD, RLD
   blockCompare   |-> <<"opcode", "read">>,
   blockInput     |-> <<"opcode", "io-read", "write">>,
   blockOutput    |-> <<"opcode", "read", "io-write">>]

IndexedForm ==
  [loadHL         |-> <<"operand", "read">>,
   storeHL        |-> <<"operand", "write">>,
   storeImmediate |-> <<"operand", "operand", "write">>,
   increment      |-> <<"operand", "read", "write">>,
   bitRegister    |-> <<"operand", "operand">>,
   bitTest        |-> <<"operand", "operand", "read">>,
   bitUpdate      |-> <<"operand", "operand", "read", "write">>]

CyclesOf(byte, indexed) ==
  IF indexed /\ byte \in DOMAIN IndexedForm THEN IndexedForm[byte] ELSE Form[byte]

Prefix == "prefix"
AllBytes == DOMAIN Form \union {Prefix}

Config == [busTrace : BOOLEAN, ioTrace : BOOLEAN,
           dumps : Seq([start : Addr, length : 1 .. AddrSpace])]

ASSUME SizesAssumption ==
  /\ AddrSpace \in Nat \ {0} /\ MaxEvents \in Nat /\ MaxSteps \in Nat
  /\ RowLength \in Nat \ {0} /\ AddrSpace % RowLength = 0
ASSUME BytesAssumption == Bytes \subseteq AllBytes /\ WriteData \subseteq Bytes
ASSUME ImagesAssumption == Images \subseteq [Addr -> Bytes] /\ Targets \subseteq Addr
ASSUME ConfigsAssumption == Configs \subseteq Config

VARIABLES
  cfg, memory, pc, step,
  phase,       \* "begin", "fetch", "indexed" (behind a prefix), "cycles",
               \* "print", "dump" or "done"
  todo,        \* the cycles the instruction still makes
  result,      \* of the step: "ok", "halt" or "unimplemented"
  events,      \* the buffer
  busCycle, totalBusWrites, out,              \* what was written: lines, and
  io,          \* I/O records, told apart by their step and place in it
  dump, offset, dumped,        \* the dump being written, from which byte on
  loaded, cycles, overflowed   \* history: the memory loaded, the number of
                               \* cycles of the step, did any step exceed
                               \* the buffer

outputVars == <<busCycle, totalBusWrites, out, io>>
dumpVars == <<dump, offset, dumped>>
vars == <<cfg, memory, pc, step, phase, todo, result, events, outputVars, dumpVars,
          loaded, cycles, overflowed>>

Kinds == {"fetch", "read", "write", "io-read", "io-write", "intack"}
Event == [kind : Kinds, addr : Addr, data : Bytes]

(***************************************************************************)
(* The buffer never holds more than MaxEvents, what was printed are events *)
(* and the offset of a dump stays 16 bits wide.                            *)
(***************************************************************************)
TypeOK ==
  /\ cfg \in Configs
  /\ memory \in [Addr -> Bytes] /\ loaded \in [Addr -> Bytes]
  /\ pc \in Addr /\ step \in 0 .. MaxSteps
  /\ phase \in {"begin", "fetch", "indexed", "cycles", "print", "dump", "done"}
  /\ todo \in Seq({"opcode", "operand", "read", "write", "io-read", "io-write", "intack"})
  /\ result \in {"ok", "halt", "unimplemented"}
  /\ events \in Seq(Event) /\ Len(events) <= MaxEvents /\ cycles \in 0 .. MaxEvents + 1
  /\ busCycle \in Nat /\ totalBusWrites \in Nat
  /\ out \in Seq([cycle : Nat, event : Event]) /\ io \subseteq [step : Nat, at : Nat, event : Event]
  /\ dump \in 1 .. Len(cfg.dumps) + 1 /\ offset \in Addr /\ dumped \in Seq(Addr)
  /\ overflowed \in BOOLEAN

Init ==
  /\ cfg \in Configs
  /\ memory \in Images /\ loaded = memory
  /\ pc = 0 /\ step = 0
  /\ phase = "begin" /\ todo = <<>> /\ result = "ok"
  /\ events = <<>> /\ cycles = 0 /\ overflowed = FALSE
  /\ busCycle = 0 /\ totalBusWrites = 0 /\ out = <<>> /\ io = {}
  /\ dump = 1 /\ offset = 0 /\ dumped = <<>>

----------------------------------------------------------------------------
(***************************************************************************)
(* Recording.  Without --bus-trace and --io-trace the caller passes no     *)
(* buffer; a full one takes no more.                                       *)
(***************************************************************************)
Traced == cfg.busTrace \/ cfg.ioTrace

TraceEvent_OffByOne(e) ==                        \* mutant: count > 32
  /\ events' = IF Traced /\ Len(events) <= MaxEvents THEN Append(events, e) ELSE events
  /\ cycles' = IF cycles > MaxEvents THEN cycles ELSE cycles + 1
  /\ overflowed' = (overflowed \/ cycles >= MaxEvents)
TraceEvent(e) ==
  /\ events' = IF Traced /\ Len(events) < MaxEvents THEN Append(events, e) ELSE events
  /\ cycles' = IF cycles > MaxEvents THEN cycles ELSE cycles + 1   \* bound: one too many
  /\ overflowed' = (overflowed \/ cycles >= MaxEvents)

ClearEvents_Kept == UNCHANGED events             \* mutant: the count is not reset
ClearEvents == events' = <<>>

(***************************************************************************)
(* A step accepts an interrupt, fetches an instruction or, behind a HALT,  *)
(* does nothing on the bus.  An IM 0 vector that is no RST is acknowledged *)
(* and fails the step, which ends the trace loop.                          *)
(***************************************************************************)
AcceptInterrupt ==
  /\ phase' = "cycles"
  /\ \/ /\ todo' \in {<<"write", "write">>, <<"intack", "write", "write">>,
                      <<"intack", "write", "write", "read", "read">>}
        /\ result' = "ok"
     \/ todo' = <<"intack">> /\ result' = "unimplemented"

BeginStep ==
  /\ phase = "begin" /\ step < MaxSteps /\ result # "unimplemented"
  /\ ClearEvents /\ cycles' = 0
  /\ \/ AcceptInterrupt
     \/ result = "ok" /\ phase' = "fetch" /\ UNCHANGED <<todo, result>>
     \/ result = "halt" /\ phase' = "cycles" /\ UNCHANGED <<todo, result>>
  /\ UNCHANGED <<cfg, memory, pc, step, outputVars, dumpVars, loaded, overflowed>>

Advance_Stuck(p) == p                            \* mutant: pc stays
Advance(p) == (p + 1) % AddrSpace

FetchOpcodeByte ==
  /\ TraceEvent([kind |-> "fetch", addr |-> pc, data |-> memory[pc]])
  /\ pc' = Advance(pc)

(***************************************************************************)
(* while (op == 0xDD || op == 0xFD): as many prefixes as there are.        *)
(***************************************************************************)
Fetching == phase \in {"fetch", "indexed"}

FetchPrefix ==
  /\ Fetching /\ memory[pc] = Prefix
  /\ FetchOpcodeByte
  /\ phase' = "indexed"
  /\ UNCHANGED <<cfg, memory, step, todo, result, outputVars, dumpVars, loaded>>

FetchOpcode ==
  /\ Fetching /\ memory[pc] # Prefix
  /\ FetchOpcodeByte
  /\ phase' = "cycles"
  /\ todo' = CyclesOf(memory[pc], phase = "indexed")
  /\ result' = IF memory[pc] = "halt" THEN "halt" ELSE "ok"
  /\ UNCHANGED <<cfg, memory, step, outputVars, dumpVars, loaded>>

NextCycle(kind) == phase = "cycles" /\ todo # <<>> /\ Head(todo) = kind /\ todo' = Tail(todo)

FetchMore ==
  /\ NextCycle("opcode")
  /\ FetchOpcodeByte
  /\ UNCHANGED <<cfg, memory, step, phase, result, outputVars, dumpVars, loaded>>

ReadImmediate8 ==
  /\ NextCycle("operand")
  /\ TraceEvent([kind |-> "read", addr |-> pc, data |-> memory[pc]])
  /\ pc' = Advance(pc)
  /\ UNCHANGED <<cfg, memory, step, phase, result, outputVars, dumpVars, loaded>>

ReadMemory ==
  /\ NextCycle("read")
  /\ \E a \in Targets : TraceEvent([kind |-> "read", addr |-> a, data |-> memory[a]])
  /\ UNCHANGED <<cfg, memory, pc, step, phase, result, outputVars, dumpVars, loaded>>

WriteMemory ==
  /\ NextCycle("write")
  /\ \E a \in Targets, b \in WriteData :
       /\ memory' = [memory EXCEPT ![a] = b]
       /\ TraceEvent([kind |-> "write", addr |-> a, data |-> b])
  /\ UNCHANGED <<cfg, pc, step, phase, result, outputVars, dumpVars, loaded>>

PortOrAcknowledge ==
  /\ \E kind \in {"io-read", "io-write", "intack"}, b \in WriteData :
       /\ NextCycle(kind)
       /\ \E a \in IF kind = "intack" THEN {pc} ELSE Targets :
            TraceEvent([kind |-> kind, addr |-> a, data |-> b])
  /\ UNCHANGED <<cfg, memory, pc, step, phase, result, outputVars, dumpVars, loaded>>

(***************************************************************************)
(* A jump, a call, a return, the repeat of a block instruction and an      *)
(* interrupt leave pc anywhere.                                            *)
(***************************************************************************)
Jump == pc' \in IF result = "ok" THEN Targets \union {pc} ELSE {pc}

EndStep ==
  /\ phase = "cycles" /\ todo = <<>>
  /\ phase' = "print"
  /\ Jump
  /\ UNCHANGED <<cfg, memory, step, todo, result, events, outputVars, dumpVars,
                 loaded, cycles, overflowed>>

----------------------------------------------------------------------------
(***************************************************************************)
(* OutputBusStep and OutputIoTrace, after the call of the executor.        *)
(***************************************************************************)
IsWrite(e) == e.kind = "write"
IsPort(e) == e.kind \in {"io-read", "io-write"}

WriteEvents == {i \in DOMAIN events : IsWrite(events[i])}
PortEvents == {i \in DOMAIN events : IsPort(events[i])}

Lines == [i \in DOMAIN events |-> [cycle |-> busCycle + i - 1, event |-> events[i]]]

PrintTrace ==
  /\ phase = "print"
  /\ IF cfg.busTrace
     THEN /\ out' = out \o Lines
          /\ busCycle' = busCycle + Len(events)
          /\ totalBusWrites' = totalBusWrites + Cardinality(WriteEvents)
     ELSE UNCHANGED <<out, busCycle, totalBusWrites>>
  /\ io' = IF cfg.ioTrace
           THEN io \union {[step |-> step, at |-> i, event |-> events[i]] : i \in PortEvents}
           ELSE io
  /\ step' = step + 1
  /\ phase' = "begin"
  /\ UNCHANGED <<cfg, memory, pc, todo, result, events, dumpVars, loaded, cycles, overflowed>>

(***************************************************************************)
(* The trace loop has many reasons to end.                                 *)
(***************************************************************************)
EndRun ==
  /\ phase = "begin"
  /\ phase' = "dump"
  /\ UNCHANGED <<cfg, memory, pc, step, todo, result, events, outputVars, dumpVars, loaded,
                 cycles, overflowed>>

----------------------------------------------------------------------------
(***************************************************************************)
(* Dumps.  A length of 0x10000 is accepted and kept in 16 bits; the offset *)
(* is 16 bits wide too, and steps by a line or, in bus mode, by a byte.    *)
(***************************************************************************)
StoredLength(d) == d.length % AddrSpace
LineLength == IF cfg.busTrace THEN 1 ELSE RowLength

MaxDumped == 2 * AddrSpace       \* bound: a dump that wraps is followed so far

LineAddresses_Past(d) ==                         \* mutant: every line is full
  [i \in 1 .. LineLength |-> (d.start + offset + i - 1) % AddrSpace]
LineAddresses(d) ==
  LET left == StoredLength(d) - offset
  IN [i \in 1 .. (IF left < LineLength THEN left ELSE LineLength) |->
        (d.start + offset + i - 1) % AddrSpace]

NextOffset_Same == offset                        \* mutant: no offset += 16
NextOffset == (offset + LineLength) % AddrSpace

DumpLine ==
  /\ phase = "dump" /\ dump <= Len(cfg.dumps)
  /\ offset < StoredLength(cfg.dumps[dump])
  /\ dumped' = IF Len(dumped) < MaxDumped
               THEN dumped \o LineAddresses(cfg.dumps[dump]) ELSE dumped
  /\ offset' = NextOffset
  /\ UNCHANGED <<cfg, memory, pc, step, phase, todo, result, events, outputVars, dump,
                 loaded, cycles, overflowed>>

EndDump ==
  /\ phase = "dump" /\ dump <= Len(cfg.dumps)
  /\ offset >= StoredLength(cfg.dumps[dump])
  /\ dump' = dump + 1 /\ offset' = 0 /\ dumped' = <<>>
  /\ UNCHANGED <<cfg, memory, pc, step, phase, todo, result, events, outputVars, loaded,
                 cycles, overflowed>>

EndOutput ==
  /\ phase = "dump" /\ dump > Len(cfg.dumps)
  /\ phase' = "done"
  /\ UNCHANGED <<cfg, memory, pc, step, todo, result, events, outputVars, dumpVars, loaded,
                 cycles, overflowed>>

Done == phase = "done" /\ UNCHANGED vars

Next ==
  \/ BeginStep \/ FetchPrefix \/ FetchOpcode \/ FetchMore \/ ReadImmediate8 \/ ReadMemory
  \/ WriteMemory \/ PortOrAcknowledge \/ EndStep \/ PrintTrace \/ EndRun
  \/ DumpLine \/ EndDump \/ EndOutput \/ Done

Spec == Init /\ [][Next]_vars /\ WF_vars(Next)

----------------------------------------------------------------------------
(***************************************************************************)
(* A harness that applies the WRITE lines of --bus-trace to the memory     *)
(* image it loaded has the memory of the program after every step, and the *)
(* PASS line counts the lines: as long as no step had more cycles than the *)
(* buffer holds.                                                           *)
(***************************************************************************)
WriteLines == {i \in DOMAIN out : IsWrite(out[i].event)}
WritesTo(a) == {i \in WriteLines : out[i].event.addr = a}
Last(lines) == CHOOSE i \in lines : \A j \in lines : j <= i

Replayed(a) ==
  IF WritesTo(a) = {} THEN loaded[a] ELSE out[Last(WritesTo(a))].event.data

ReplayIsMemory == \A a \in Addr : Replayed(a) = memory[a]

BusTraceReplays ==
  cfg.busTrace /\ phase = "begin" /\ ~overflowed =>
    /\ ReplayIsMemory
    /\ totalBusWrites = Cardinality(WriteLines)
    /\ \A i \in DOMAIN out : out[i].cycle = i - 1

(***************************************************************************)
(* Every step ends, if one byte of memory is not a prefix: nothing but the *)
(* bytes themselves bounds the prefix loop.                                *)
(***************************************************************************)
StepEnds ==
  Fetching /\ (\E a \in Addr : memory[a] # Prefix) ~> phase = "print"

(***************************************************************************)
(* A dump that ends has shown START .. START+LEN-1, in order and each byte *)
(* once, unless LEN was all of memory, which shows nothing.                *)
(***************************************************************************)
DumpCovers ==
  phase = "dump" /\ dump <= Len(cfg.dumps) =>
    LET d == cfg.dumps[dump]
        shown == IF d.length = AddrSpace THEN 0 ELSE d.length
    IN offset >= shown => dumped = [i \in 1 .. shown |-> (d.start + i - 1) % AddrSpace]

(***************************************************************************)
(* The output ends, unless a hexadecimal dump is longer than memory less   *)
(* one line: then the offset wraps before it reaches the length.           *)
(***************************************************************************)
DumpsFit ==
  \A i \in DOMAIN cfg.dumps : cfg.busTrace \/ StoredLength(cfg.dumps[i]) <= AddrSpace - RowLength

OutputEnds == phase = "dump" /\ DumpsFit ~> phase = "done"
=============================================================================
