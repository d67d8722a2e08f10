--------------------------- MODULE BusTraceProofs ---------------------------
(***************************************************************************)
(* The bus trace and the memory dumps, for every memory image, every       *)
(* program in it and every size of memory, buffer and dump line: the       *)
(* types, the replay of the WRITE lines, and what a dump covers.           *)
(***************************************************************************)
EXTENDS BusTrace, SequenceTheorems, FiniteSetTheorems, TLAPS

----------------------------------------------------------------------------
(***************************************************************************)
(* Types.  What is added to an address stays one.                          *)
(***************************************************************************)
LEMMA AddrRange ==
  ASSUME NEW n \in Int PROVE n % AddrSpace \in Addr
BY SizesAssumption DEF Addr

(***************************************************************************)
(* The dumps a command line asks for.                                      *)
(***************************************************************************)
LEMMA ConfigDumps ==
  ASSUME NEW c \in Configs
  PROVE /\ Len(c.dumps) \in Nat
        /\ \A i \in 1 .. Len(c.dumps) :
             c.dumps[i].start \in Addr /\ c.dumps[i].length \in 1 .. AddrSpace
<1> DEFINE D == [start : Addr, length : 1 .. AddrSpace]
<1>1. c \in [busTrace : BOOLEAN, ioTrace : BOOLEAN, dumps : Seq(D)]
  BY ConfigsAssumption DEF Config
<1>2. \A x \in D : x.start \in Addr /\ x.length \in 1 .. AddrSpace
  OBVIOUS
<1> HIDE DEF D
<1>3. c.dumps \in Seq(D)
  BY <1>1
<1>4. Len(c.dumps) \in Nat /\ \A i \in 1 .. Len(c.dumps) : c.dumps[i] \in D
  BY <1>3
<1> QED BY <1>2, <1>4

Cycles == {"opcode", "operand", "read", "write", "io-read", "io-write", "intack"}

(***************************************************************************)
(* The cycles behind an opcode are of the kinds the executor knows.        *)
(***************************************************************************)
LEMMA FormCycles ==
  ASSUME NEW x \in DOMAIN Form PROVE Form[x] \in Seq(Cycles)
<1>1. x \in {"nop", "halt", "immediate", "immediateWord", "load", "store", "loadHL", "storeHL",
            "storeImmediate", "increment", "loadByte", "storeByte", "loadWord", "storeWord",
            "push", "pop", "exchangeStack", "input", "output", "bitRegister", "bitTest",
            "bitUpdate", "extended", "extendedIn", "extendedOut", "extendedLoad",
            "extendedStore", "extendedReturn", "blockMove", "blockCompare", "blockInput",
            "blockOutput"}
  BY DEF Form
<1>2. CASE x \in {"nop", "halt"}
  <2> DEFINE S == {<<>>}
  <2>1. Form[x] \in S
    BY <1>2 DEF Form
  <2>2. <<>> \in Seq(Cycles)
    BY DEF Cycles
  <2> QED BY <2>1, <2>2
<1>3. CASE x \in {"immediate", "load", "store", "loadHL", "storeHL", "bitRegister", "extended"}
  <2> DEFINE S == {<<"opcode">>, <<"operand">>, <<"read">>, <<"write">>}
  <2>1. Form[x] \in S
    BY <1>3 DEF Form
  <2>2. /\ <<"opcode">> \in Seq(Cycles)
        /\ <<"operand">> \in Seq(Cycles)
        /\ <<"read">> \in Seq(Cycles)
        /\ <<"write">> \in Seq(Cycles)
    BY DEF Cycles
  <2> QED BY <2>1, <2>2
<1>4. CASE x \in {"immediateWord", "storeImmediate", "increment", "push", "pop", "input",
                  "output", "bitTest", "extendedIn", "extendedOut", "blockCompare"}
  <2> DEFINE S == {<<"opcode", "io-read">>, <<"opcode", "io-write">>, <<"opcode", "read">>,
                   <<"operand", "io-read">>, <<"operand", "io-write">>,
                   <<"operand", "operand">>, <<"operand", "write">>, <<"read", "read">>,
                   <<"read", "write">>, <<"write", "write">>}
  <2>1. Form[x] \in S
    BY <1>4 DEF Form
  <2>2. /\ <<"opcode", "io-read">> \in Seq(Cycles)
        /\ <<"opcode", "io-write">> \in Seq(Cycles)
        /\ <<"opcode", "read">> \in Seq(Cycles)
        /\ <<"operand", "io-read">> \in Seq(Cycles)
        /\ <<"operand", "io-write">> \in Seq(Cycles)
        /\ <<"operand", "operand">> \in Seq(Cycles)
        /\ <<"operand", "write">> \in Seq(Cycles)
        /\ <<"read", "read">> \in Seq(Cycles)
        /\ <<"read", "write">> \in Seq(Cycles)
        /\ <<"write", "write">> \in Seq(Cycles)
    BY DEF Cycles
  <2> QED BY <2>1, <2>2
<1>5. CASE x \in {"loadByte", "storeByte", "bitUpdate", "extendedReturn", "blockMove",
                  "blockInput", "blockOutput"}
  <2> DEFINE S == {<<"opcode", "io-read", "write">>, <<"opcode", "read", "io-write">>,
                   <<"opcode", "read", "read">>, <<"opcode", "read", "write">>,
                   <<"operand", "operand", "read">>, <<"operand", "operand", "write">>}
  <2>1. Form[x] \in S
    BY <1>5 DEF Form
  <2>2. /\ <<"opcode", "io-read", "write">> \in Seq(Cycles)
        /\ <<"opcode", "read", "io-write">> \in Seq(Cycles)
        /\ <<"opcode", "read", "read">> \in Seq(Cycles)
        /\ <<"opcode", "read", "write">> \in Seq(Cycles)
        /\ <<"operand", "operand", "read">> \in Seq(Cycles)
        /\ <<"operand", "operand", "write">> \in Seq(Cycles)
    BY DEF Cycles
  <2> QED BY <2>1, <2>2
<1>6. CASE x \in {"loadWord", "storeWord", "exchangeStack"}
  <2> DEFINE S == {<<"operand", "operand", "read", "read">>,
                   <<"operand", "operand", "write", "write">>,
                   <<"read", "read", "write", "write">>}
  <2>1. Form[x] \in S
    BY <1>6 DEF Form
  <2>2. /\ <<"operand", "operand", "read", "read">> \in Seq(Cycles)
        /\ <<"operand", "operand", "write", "write">> \in Seq(Cycles)
        /\ <<"read", "read", "write", "write">> \in Seq(Cycles)
    BY DEF Cycles
  <2> QED BY <2>1, <2>2
<1>7. CASE x \in {"extendedLoad", "extendedStore"}
  <2> DEFINE S == {<<"opcode", "operand", "operand", "read", "read">>,
                   <<"opcode", "operand", "operand", "write", "write">>}
  <2>1. Form[x] \in S
    BY <1>7 DEF Form
  <2>2. /\ <<"opcode", "operand", "operand", "read", "read">> \in Seq(Cycles)
        /\ <<"opcode", "operand", "operand", "write", "write">> \in Seq(Cycles)
    BY DEF Cycles
  <2> QED BY <2>1, <2>2
<1> QED BY <1>1, <1>2, <1>3, <1>4, <1>5, <1>6, <1>7

(***************************************************************************)
(* So are those behind a prefix and an opcode.                             *)
(***************************************************************************)
LEMMA IndexedFormCycles ==
  ASSUME NEW x \in DOMAIN IndexedForm PROVE IndexedForm[x] \in Seq(Cycles)
<1>1. x \in {"loadHL", "storeHL", "storeImmediate", "increment", "bitRegister", "bitTest",
            "bitUpdate"}
  BY DEF IndexedForm
<1>2. CASE x \in {"loadHL", "storeHL", "bitRegister"}
  <2> DEFINE S == {<<"operand", "operand">>, <<"operand", "read">>,
                   <<"operand", "write">>}
  <2>1. IndexedForm[x] \in S
    BY <1>2 DEF IndexedForm
  <2>2. /\ <<"operand", "operand">> \in Seq(Cycles)
        /\ <<"operand", "read">> \in Seq(Cycles)
        /\ <<"operand", "write">> \in Seq(Cycles)
    BY DEF Cycles
  <2> QED BY <2>1, <2>2
<1>3. CASE x \in {"storeImmediate", "increment", "bitTest"}
  <2> DEFINE S == {<<"operand", "operand", "read">>, <<"operand", "operand", "write">>,
                   <<"operand", "read", "write">>}
  <2>1. IndexedForm[x] \in S
    BY <1>3 DEF IndexedForm
  <2>2. /\ <<"operand", "operand", "read">> \in Seq(Cycles)
        /\ <<"operand", "operand", "write">> \in Seq(Cycles)
        /\ <<"operand", "read", "write">> \in Seq(Cycles)
    BY DEF Cycles
  <2> QED BY <2>1, <2>2
<1>4. CASE x \in {"bitUpdate"}
  <2> DEFINE S == {<<"operand", "operand", "read", "write">>}
  <2>1. IndexedForm[x] \in S
    BY <1>4 DEF IndexedForm
  <2>2. <<"operand", "operand", "read", "write">> \in Seq(Cycles)
    BY DEF Cycles
  <2> QED BY <2>1, <2>2
<1> QED BY <1>1, <1>2, <1>3, <1>4

(***************************************************************************)
(* Whatever byte is fetched and whatever was in front of it.               *)
(***************************************************************************)
LEMMA CyclesOfType ==
  ASSUME NEW b \in Bytes, b # Prefix, NEW indexed \in BOOLEAN
  PROVE CyclesOf(b, indexed) \in Seq(Cycles)
<1>1. b \in DOMAIN Form
  BY BytesAssumption DEF AllBytes
<1> QED BY <1>1, FormCycles, IndexedFormCycles DEF CyclesOf

(***************************************************************************)
(* A cycle on the bus leaves at most MaxEvents events in the buffer.       *)
(***************************************************************************)
LEMMA TraceEventType ==
  ASSUME TypeOK, NEW e \in Event, TraceEvent(e)
  PROVE /\ events' \in Seq(Event) /\ Len(events') <= MaxEvents
        /\ cycles' \in 0 .. MaxEvents + 1 /\ overflowed' \in BOOLEAN
<1>1. events \in Seq(Event) /\ Len(events) \in Nat /\ Len(events) <= MaxEvents /\ MaxEvents \in Nat
      /\ cycles \in 0 .. MaxEvents + 1 /\ overflowed \in BOOLEAN
  BY SizesAssumption DEF TypeOK
<1>2. /\ Append(events, e) \in Seq(Event) /\ Len(Append(events, e)) = Len(events) + 1
  BY <1>1
<1>3. events' \in Seq(Event) /\ Len(events') <= MaxEvents
  BY <1>1, <1>2 DEF TraceEvent
<1>4. cycles' \in 0 .. MaxEvents + 1 /\ overflowed' \in BOOLEAN
  BY <1>1 DEF TraceEvent
<1> QED BY <1>3, <1>4

(***************************************************************************)
(* The events the cycles record.                                           *)
(***************************************************************************)
LEMMA EventTypes ==
  ASSUME TypeOK
  PROVE /\ \A kind \in {"fetch", "read"}, a \in Addr :
             [kind |-> kind, addr |-> a, data |-> memory[a]] \in Event
        /\ \A kind \in Kinds, a \in Addr, b \in WriteData :
             [kind |-> kind, addr |-> a, data |-> b] \in Event
BY BytesAssumption DEF TypeOK, Event, Kinds

(***************************************************************************)
(* The lines of a step, behind those before, and its I/O records.          *)
(***************************************************************************)
LEMMA LinesType ==
  ASSUME TypeOK
  PROVE /\ Lines \in Seq([cycle : Nat, event : Event]) /\ Len(Lines) = Len(events)
        /\ \A i \in 1 .. Len(events) : Lines[i] = [cycle |-> busCycle + i - 1, event |-> events[i]]
        /\ WriteEvents \subseteq 1 .. Len(events)
        /\ \A i \in PortEvents : i \in Nat /\ events[i] \in Event
<1>1. /\ events \in Seq(Event) /\ DOMAIN events = 1 .. Len(events) /\ Len(events) \in Nat
      /\ busCycle \in Nat
  BY DEF TypeOK
<1>2. ASSUME NEW i \in 1 .. Len(events)
      PROVE [cycle |-> busCycle + i - 1, event |-> events[i]] \in [cycle : Nat, event : Event]
  <2>1. events[i] \in Event /\ busCycle + i - 1 \in Nat
    BY <1>1
  <2> QED BY <2>1
<1>3. Lines \in [1 .. Len(events) -> [cycle : Nat, event : Event]]
  BY <1>1, <1>2 DEF Lines
<1>4. Lines \in Seq([cycle : Nat, event : Event]) /\ Len(Lines) = Len(events)
  <2> PICK n \in Nat : n = Len(events)
    BY <1>1
  <2> DEFINE S == [cycle : Nat, event : Event]
  <2> HIDE DEF S
  <2>1. Lines \in [1 .. n -> S]
    BY <1>3 DEF S
  <2>2. Lines \in Seq(S)
    BY <2>1
  <2>3. DOMAIN Lines = 1 .. n
    BY <2>1
  <2>4. Len(Lines) = n
    BY <2>2, <2>3
  <2> QED BY <2>2, <2>4 DEF S
<1>5. \A i \in 1 .. Len(events) : Lines[i] = [cycle |-> busCycle + i - 1, event |-> events[i]]
  BY <1>1 DEF Lines
<1>6. WriteEvents \subseteq 1 .. Len(events) /\ \A i \in PortEvents : i \in Nat /\ events[i] \in Event
  BY <1>1 DEF WriteEvents, PortEvents
<1> QED BY <1>4, <1>5, <1>6

(***************************************************************************)
(* Every cycle of a step offers one event to the buffer, and only a write  *)
(* changes memory, as the event says.                                      *)
(***************************************************************************)
Cycle ==
  \/ FetchPrefix \/ FetchOpcode \/ FetchMore \/ ReadImmediate8 \/ ReadMemory \/ WriteMemory
  \/ PortOrAcknowledge

Records(e) ==
  /\ TraceEvent(e)
  /\ memory' = IF e.kind = "write" THEN [memory EXCEPT ![e.addr] = e.data] ELSE memory
  /\ phase \in {"fetch", "indexed", "cycles"} /\ phase' \in {"fetch", "indexed", "cycles"}
  /\ UNCHANGED <<cfg, step, outputVars, dumpVars, loaded>>

(***************************************************************************)
(* Every cycle of a step records an event that fits what it does to memory.*)
(***************************************************************************)
LEMMA CycleRecords ==
  ASSUME TypeOK, Cycle PROVE \E e \in Event : Records(e)
<1> USE DEF Records
<1>1. pc \in Addr
  BY DEF TypeOK
<1>2. CASE FetchPrefix \/ FetchOpcode \/ FetchMore
  <2> DEFINE e == [kind |-> "fetch", addr |-> pc, data |-> memory[pc]]
  <2>1. e \in Event /\ e.kind # "write"
    BY <1>1, EventTypes
  <2>2. Records(e)
    BY <1>2, <2>1 DEF FetchPrefix, FetchOpcode, FetchMore, FetchOpcodeByte, NextCycle, Fetching
  <2> QED BY <2>1, <2>2
<1>3. CASE ReadImmediate8
  <2> DEFINE e == [kind |-> "read", addr |-> pc, data |-> memory[pc]]
  <2>1. e \in Event /\ e.kind # "write"
    BY <1>1, EventTypes
  <2>2. Records(e)
    BY <1>3, <2>1 DEF ReadImmediate8, NextCycle
  <2> QED BY <2>1, <2>2
<1>4. CASE ReadMemory
  <2>1. PICK a \in Targets : TraceEvent([kind |-> "read", addr |-> a, data |-> memory[a]])
    BY <1>4 DEF ReadMemory
  <2> DEFINE e == [kind |-> "read", addr |-> a, data |-> memory[a]]
  <2>2. e \in Event /\ e.kind # "write"
    BY ImagesAssumption, EventTypes
  <2>3. Records(e)
    BY <1>4, <2>1, <2>2 DEF ReadMemory, NextCycle
  <2> QED BY <2>2, <2>3
<1>5. CASE WriteMemory
  <2>1. PICK a \in Targets, b \in WriteData :
          /\ memory' = [memory EXCEPT ![a] = b]
          /\ TraceEvent([kind |-> "write", addr |-> a, data |-> b])
    BY <1>5 DEF WriteMemory
  <2> DEFINE e == [kind |-> "write", addr |-> a, data |-> b]
  <2>2. "write" \in Kinds
    BY DEF Kinds
  <2>3. e \in Event /\ e.kind = "write" /\ e.addr = a /\ e.data = b
    BY <2>2, ImagesAssumption, EventTypes
  <2>4. Records(e)
    BY <1>5, <2>1, <2>3 DEF WriteMemory, NextCycle
  <2> QED BY <2>3, <2>4
<1>6. CASE PortOrAcknowledge
  <2>1. PICK kind \in {"io-read", "io-write", "intack"}, b \in WriteData :
          /\ NextCycle(kind)
          /\ \E a \in IF kind = "intack" THEN {pc} ELSE Targets :
               TraceEvent([kind |-> kind, addr |-> a, data |-> b])
    BY <1>6 DEF PortOrAcknowledge
  <2>2. PICK a \in Targets \union {pc} : TraceEvent([kind |-> kind, addr |-> a, data |-> b])
    BY <2>1
  <2> DEFINE e == [kind |-> kind, addr |-> a, data |-> b]
  <2>3. kind \in Kinds /\ kind # "write" /\ a \in Addr
    BY <1>1, ImagesAssumption DEF Kinds
  <2>4. e \in Event /\ e.kind # "write"
    BY <1>1, <2>3, EventTypes
  <2>5. Records(e)
    BY <1>6, <2>1, <2>2, <2>4 DEF PortOrAcknowledge, NextCycle
  <2> QED BY <2>4, <2>5
<1> QED BY <1>2, <1>3, <1>4, <1>5, <1>6 DEF Cycle

(***************************************************************************)
(* The control of a step stays typed too.                                  *)
(***************************************************************************)
LEMMA CycleType ==
  ASSUME TypeOK, Cycle PROVE TypeOK'
<1>1. PICK e \in Event : Records(e)
  BY CycleRecords
<1>2. memory' \in [Addr -> Bytes]
  BY <1>1 DEF TypeOK, Records, Event
<1>3. /\ events' \in Seq(Event) /\ Len(events') <= MaxEvents
      /\ cycles' \in 0 .. MaxEvents + 1 /\ overflowed' \in BOOLEAN
  BY <1>1, TraceEventType DEF Records
<1>4. pc' \in Addr
  <2>1. pc \in Addr /\ pc + 1 \in Int
    BY DEF TypeOK, Addr
  <2> QED BY <2>1, AddrRange DEF Cycle, FetchPrefix, FetchOpcode, FetchMore, ReadImmediate8,
             ReadMemory, WriteMemory, PortOrAcknowledge, FetchOpcodeByte, Advance
<1>5. todo' \in Seq(Cycles) /\ result' \in {"ok", "halt", "unimplemented"}
  <2>1. /\ todo \in Seq(Cycles) /\ result \in {"ok", "halt", "unimplemented"}
        /\ memory \in [Addr -> Bytes] /\ pc \in Addr
    BY DEF TypeOK, Cycles
  <2>2. CASE FetchOpcode
    BY <2>1, <2>2, CyclesOfType DEF FetchOpcode
  <2>3. CASE UNCHANGED <<todo, result>>
    BY <2>1, <2>3
  <2>4. CASE todo # <<>> /\ todo' = Tail(todo) /\ UNCHANGED result
    BY <2>1, <2>4
  <2> QED BY <2>2, <2>3, <2>4 DEF Cycle, FetchPrefix, FetchMore, ReadImmediate8, ReadMemory,
          WriteMemory, PortOrAcknowledge, NextCycle
<1> QED BY <1>1, <1>2, <1>3, <1>4, <1>5 DEF Records, TypeOK, Cycles, outputVars, dumpVars

(***************************************************************************)
(* A line of a dump is a list of addresses, no longer than what is left.   *)
(***************************************************************************)
LEMMA LineType ==
  ASSUME TypeOK, dump <= Len(cfg.dumps), offset < StoredLength(cfg.dumps[dump])
  PROVE /\ cfg.dumps[dump].start \in Addr /\ cfg.dumps[dump].length \in 1 .. AddrSpace
        /\ StoredLength(cfg.dumps[dump]) \in Addr /\ LineLength \in Nat \ {0}
        /\ \E n \in Nat : LineAddresses(cfg.dumps[dump]) \in [1 .. n -> Addr]
<1> DEFINE d == cfg.dumps[dump]
<1>1. cfg \in Configs /\ dump \in 1 .. Len(cfg.dumps)
  <2>1. cfg \in Configs /\ dump \in 1 .. Len(cfg.dumps) + 1
    BY DEF TypeOK
  <2> QED BY <2>1, ConfigDumps
<1>2. LineLength \in Nat \ {0} /\ offset \in Addr
  BY SizesAssumption DEF LineLength, TypeOK
<1>3. d.start \in Addr /\ d.length \in 1 .. AddrSpace
  BY <1>1, ConfigDumps
<1> HIDE DEF d
<1>4. StoredLength(d) \in Addr
  BY <1>3, AddrRange DEF StoredLength
<1>5. offset < StoredLength(d)
  BY DEF d
<1> DEFINE left == StoredLength(d) - offset
           n == IF left < LineLength THEN left ELSE LineLength
<1>6. n \in Nat
  BY <1>2, <1>4, <1>5 DEF Addr
<1>7. ASSUME NEW i \in 1 .. n PROVE (d.start + offset + i - 1) % AddrSpace \in Addr
  <2>1. d.start + offset + i - 1 \in Int
    BY <1>2, <1>3, <1>6 DEF Addr
  <2> QED BY <2>1, AddrRange
<1>8. LineAddresses(d) = [i \in 1 .. n |-> (d.start + offset + i - 1) % AddrSpace]
  BY DEF LineAddresses
<1> HIDE DEF n
<1>9. LineAddresses(d) \in [1 .. n -> Addr]
  BY <1>7, <1>8
<1> QED BY <1>2, <1>3, <1>4, <1>6, <1>9 DEF d

(***************************************************************************)
(* A step is begun only below the step limit.                              *)
(***************************************************************************)
InStep == phase \in {"fetch", "indexed", "cycles", "print"}

StepInv == InStep => step < MaxSteps

(***************************************************************************)
(* What is written after a step, and the dumps.                            *)
(***************************************************************************)
LEMMA OutputType ==
  ASSUME TypeOK, StepInv, PrintTrace \/ DumpLine \/ EndDump \/ EndOutput PROVE TypeOK'
<1>1. CASE PrintTrace
  <2>1. out' \in Seq([cycle : Nat, event : Event]) /\ busCycle' \in Nat
    <3> DEFINE S == [cycle : Nat, event : Event]
    <3>1. Lines \in Seq(S) /\ out \in Seq(S) /\ busCycle \in Nat /\ Len(events) \in Nat
      BY LinesType DEF TypeOK
    <3> HIDE DEF S
    <3>2. out \o Lines \in Seq(S)
      BY <3>1
    <3>3. out' \in Seq(S)
      BY <1>1, <3>1, <3>2 DEF PrintTrace
    <3>4. busCycle' \in Nat
      BY <1>1, <3>1 DEF PrintTrace
    <3> QED BY <3>3, <3>4 DEF S
  <2>2. totalBusWrites' \in Nat
    <3>1. Len(events) \in Nat /\ IsFiniteSet(1 .. Len(events)) /\ totalBusWrites \in Nat
      BY FS_Interval DEF TypeOK
    <3>2. IsFiniteSet(WriteEvents)
      BY <3>1, LinesType, FS_Subset
    <3>3. Cardinality(WriteEvents) \in Nat
      BY <3>2, FS_CardinalityType
    <3> QED BY <1>1, <3>1, <3>3 DEF PrintTrace
  <2>3. io' \subseteq [step : Nat, at : Nat, event : Event]
    <3>1. io \subseteq [step : Nat, at : Nat, event : Event] /\ step \in Nat
      BY SizesAssumption DEF TypeOK
    <3>2. \A i \in PortEvents :
            [step |-> step, at |-> i, event |-> events[i]] \in [step : Nat, at : Nat, event : Event]
      BY <3>1, LinesType
    <3> QED BY <1>1, <3>1, <3>2 DEF PrintTrace
  <2>4. step' \in 0 .. MaxSteps
    BY <1>1, SizesAssumption DEF PrintTrace, TypeOK, StepInv, InStep
  <2> QED BY <1>1, <2>1, <2>2, <2>3, <2>4 DEF PrintTrace, TypeOK, dumpVars
<1>2. CASE DumpLine
  <2>1. dumped' \in Seq(Addr)
    <3>1. PICK n \in Nat : LineAddresses(cfg.dumps[dump]) \in [1 .. n -> Addr]
      BY <1>2, LineType DEF DumpLine
    <3>2. LineAddresses(cfg.dumps[dump]) \in Seq(Addr) /\ dumped \in Seq(Addr)
      BY <3>1 DEF TypeOK
    <3> QED BY <1>2, <3>2 DEF DumpLine
  <2>2. offset' \in Addr
    <3>1. LineLength \in Nat /\ offset + LineLength \in Int
      BY SizesAssumption DEF LineLength, TypeOK, Addr
    <3> QED BY <1>2, <3>1, AddrRange DEF DumpLine, NextOffset
  <2> QED BY <1>2, <2>1, <2>2 DEF DumpLine, TypeOK, outputVars
<1>3. CASE EndDump
  <2>1. Len(cfg.dumps) \in Nat
    BY ConfigDumps DEF TypeOK
  <2>2. dump + 1 \in 1 .. Len(cfg.dumps) + 1
    BY <1>3, <2>1 DEF EndDump, TypeOK
  <2>3. 0 \in Addr
    BY SizesAssumption DEF Addr
  <2> QED BY <1>3, <2>2, <2>3 DEF EndDump, TypeOK, outputVars
<1>4. CASE EndOutput
  BY <1>4 DEF EndOutput, TypeOK, outputVars, dumpVars
<1> QED BY <1>1, <1>2, <1>3, <1>4

(***************************************************************************)
(* Every step keeps the types.                                             *)
(***************************************************************************)
LEMMA BusTypes == Spec => [](TypeOK /\ StepInv)
<1>1. Init => TypeOK /\ StepInv
  <2> SUFFICES ASSUME Init PROVE TypeOK
    BY DEF Init, StepInv, InStep
  <2>1. cfg \in Configs /\ Len(cfg.dumps) \in Nat
    BY ConfigDumps DEF Init
  <2>2. memory \in [Addr -> Bytes] /\ 0 \in Addr
    BY ImagesAssumption, SizesAssumption DEF Init, Addr
  <2>3. 1 \in 1 .. Len(cfg.dumps) + 1 /\ 0 \in 0 .. MaxSteps /\ 0 \in 0 .. MaxEvents + 1
    BY <2>1, SizesAssumption
  <2>4. \A S : <<>> \in Seq(S)
    OBVIOUS
  <2> QED BY <2>1, <2>2, <2>3, <2>4, SizesAssumption DEF Init, TypeOK
<1>2. TypeOK /\ StepInv /\ [Next]_vars => TypeOK'
  <2> SUFFICES ASSUME TypeOK, StepInv, [Next]_vars PROVE TypeOK'
    OBVIOUS
  <2>1. CASE BeginStep
    <3>1. todo' \in Seq(Cycles)
      <4>1. /\ <<"write", "write">> \in Seq(Cycles) /\ <<"intack", "write", "write">> \in Seq(Cycles)
            /\ <<"intack", "write", "write", "read", "read">> \in Seq(Cycles)
            /\ <<"intack">> \in Seq(Cycles) /\ todo \in Seq(Cycles)
        BY DEF Cycles, TypeOK
      <4> QED BY <2>1, <4>1 DEF BeginStep, AcceptInterrupt
    <3>2. events' \in Seq(Event) /\ Len(events') <= MaxEvents /\ cycles' \in 0 .. MaxEvents + 1
      BY <2>1, SizesAssumption DEF BeginStep, ClearEvents
    <3>3. phase' \in {"fetch", "cycles"} /\ result' \in {"ok", "halt", "unimplemented"}
      BY <2>1 DEF BeginStep, AcceptInterrupt, TypeOK
    <3> QED BY <2>1, <3>1, <3>2, <3>3 DEF BeginStep, TypeOK, outputVars, dumpVars, Cycles
  <2>2. CASE EndStep \/ EndRun
    <3>1. Targets \subseteq Addr /\ pc \in Addr
      BY ImagesAssumption DEF TypeOK
    <3> QED BY <2>2, <3>1 DEF EndStep, Jump, EndRun, TypeOK, outputVars, dumpVars
  <2>3. CASE UNCHANGED vars
    BY <2>3 DEF vars, TypeOK, outputVars, dumpVars
  <2> QED BY <2>1, <2>2, <2>3, CycleType, OutputType DEF Next, Cycle, Done
<1>3. StepInv /\ [Next]_vars => StepInv'
  BY DEF StepInv, InStep, Fetching, Next, BeginStep, AcceptInterrupt, FetchPrefix, FetchOpcode,
         FetchMore, ReadImmediate8, ReadMemory, WriteMemory, PortOrAcknowledge, NextCycle, EndStep,
         PrintTrace, EndRun, DumpLine, EndDump, EndOutput, Done, vars
<1> QED BY <1>1, <1>2, <1>3, PTL DEF Spec

(***************************************************************************)
(* Whatever the bytes in memory are, the buffer stays in its bounds,       *)
(* addresses and offsets stay addresses, and every line printed is an      *)
(* event.                                                                  *)
(***************************************************************************)
THEOREM BusTypeCorrect == Spec => []TypeOK
BY BusTypes, PTL

----------------------------------------------------------------------------
(***************************************************************************)
(* What was written and what the step has still to write, in one stream.   *)
(***************************************************************************)
EventsOf(lines) == [i \in 1 .. Len(lines) |-> lines[i].event]
Stream == IF InStep THEN EventsOf(out) \o events ELSE EventsOf(out)

Writes(e, a) == e.kind = "write" /\ e.addr = a
Untouched(s, a) == \A i \in 1 .. Len(s) : ~Writes(s[i], a)
LastWrite(s, a, i) ==
  /\ i \in 1 .. Len(s) /\ Writes(s[i], a)
  /\ \A j \in 1 .. Len(s) : j > i => ~Writes(s[j], a)

(***************************************************************************)
(* The byte a stream leaves at an address.                                 *)
(***************************************************************************)
Leaves(s, a, b) ==
  \/ \E i \in 1 .. Len(s) : LastWrite(s, a, i) /\ s[i].data = b
  \/ Untouched(s, a) /\ loaded[a] = b

ReplayInv ==
  cfg.busTrace /\ ~overflowed =>
    /\ InStep => cycles = Len(events)
    /\ \A a \in Addr : Leaves(Stream, a, memory[a])

LinesInv ==
  /\ busCycle = Len(out)
  /\ totalBusWrites = Cardinality(WriteLines)
  /\ \A i \in 1 .. Len(out) : out[i].cycle = i - 1

(***************************************************************************)
(* Lines that are kept, and those that are added.                          *)
(***************************************************************************)
LEMMA LinesGrow ==
  ASSUME TypeOK, out' = out \o Lines
  PROVE /\ Len(out') = Len(out) + Len(events) /\ Len(out) \in Nat /\ Len(events) \in Nat
        /\ \A i \in 1 .. Len(out) : out'[i] = out[i]
        /\ \A j \in 1 .. Len(events) :
             out'[Len(out) + j] = [cycle |-> busCycle + j - 1, event |-> events[j]]
        /\ \A i \in 1 .. Len(out') :
             i \in 1 .. Len(out) \/ \E j \in 1 .. Len(events) : i = Len(out) + j
<1> DEFINE S == [cycle : Nat, event : Event]
<1>1. /\ out \in Seq(S) /\ Lines \in Seq(S) /\ Len(Lines) = Len(events) /\ events \in Seq(Event)
      /\ \A j \in 1 .. Len(events) : Lines[j] = [cycle |-> busCycle + j - 1, event |-> events[j]]
  BY LinesType DEF TypeOK
<1> HIDE DEF S
<1> PICK n \in Nat, m \in Nat : n = Len(out) /\ m = Len(events)
  BY <1>1
<1>2. /\ Len(out \o Lines) = n + m
      /\ \A i \in 1 .. n + m : (out \o Lines)[i] = IF i <= n THEN out[i] ELSE Lines[i - n]
  <2>1. /\ Len(out \o Lines) = Len(out) + Len(Lines)
        /\ \A i \in 1 .. Len(out) + Len(Lines) :
             (out \o Lines)[i] = IF i <= Len(out) THEN out[i] ELSE Lines[i - Len(out)]
    BY <1>1, ConcatProperties
  <2> QED BY <1>1, <2>1
<1>3. \A i \in 1 .. n : i \in 1 .. n + m /\ i <= n
  OBVIOUS
<1>4. \A j \in 1 .. m : n + j \in 1 .. n + m /\ ~(n + j <= n) /\ (n + j) - n = j
  OBVIOUS
<1>5. \A i \in 1 .. n + m : i \in 1 .. n \/ (i - n \in 1 .. m /\ i = n + (i - n))
  OBVIOUS
<1>6. \A i \in 1 .. n + m : i \in 1 .. n \/ \E j \in 1 .. m : i = n + j
  BY <1>5
<1>7. Len(out') = n + m /\ \A i \in 1 .. n : out'[i] = out[i]
  BY <1>2, <1>3
<1>8. ASSUME NEW j \in 1 .. m PROVE out'[n + j] = [cycle |-> busCycle + j - 1, event |-> events[j]]
  <2>1. (out \o Lines)[n + j] = Lines[j]
    BY <1>2, <1>4
  <2> QED BY <1>1, <2>1
<1> QED BY <1>6, <1>7, <1>8

(***************************************************************************)
(* The lines are numbered through, and the writes among them counted.      *)
(***************************************************************************)
LEMMA LinesStep ==
  ASSUME TypeOK, LinesInv, [Next]_vars PROVE LinesInv'
<1>1. CASE UNCHANGED outputVars
  BY <1>1 DEF LinesInv, WriteLines, outputVars
<1>2. CASE PrintTrace /\ cfg.busTrace
  <2> PICK n \in Nat, m \in Nat : n = Len(out) /\ m = Len(events)
    BY DEF TypeOK
  <2>1. /\ out' = out \o Lines /\ busCycle' = n + m
        /\ totalBusWrites' = totalBusWrites + Cardinality(WriteEvents)
    BY <1>2 DEF PrintTrace, LinesInv
  <2>2. /\ Len(out') = n + m /\ DOMAIN out' = 1 .. n + m /\ DOMAIN out = 1 .. n
        /\ \A i \in 1 .. n : out'[i] = out[i]
        /\ \A j \in 1 .. m : out'[n + j] = [cycle |-> n + j - 1, event |-> events[j]]
        /\ \A i \in 1 .. n + m : i \in 1 .. n \/ \E j \in 1 .. m : i = n + j
    <3>1. out \o Lines \in Seq([cycle : Nat, event : Event]) /\ out \in Seq([cycle : Nat, event : Event])
      BY LinesType DEF TypeOK
    <3>2. Len(out') = n + m /\ out' \in Seq([cycle : Nat, event : Event]) /\ busCycle = n
      BY <2>1, <3>1, LinesGrow DEF LinesInv
    <3>3. DOMAIN out' = 1 .. n + m /\ DOMAIN out = 1 .. n
      BY <3>1, <3>2
    <3>4. /\ \A i \in 1 .. n : out'[i] = out[i]
          /\ \A j \in 1 .. m : out'[n + j] = [cycle |-> busCycle + j - 1, event |-> events[j]]
          /\ \A i \in 1 .. n + m : i \in 1 .. n \/ \E j \in 1 .. m : i = n + j
      BY <2>1, <3>2, LinesGrow
    <3> QED BY <3>2, <3>3, <3>4
  <2>3. \A i \in 1 .. Len(out') : out'[i].cycle = i - 1
    <3> SUFFICES ASSUME NEW i \in 1 .. n + m PROVE out'[i].cycle = i - 1
      BY <2>2
    <3>1. CASE i \in 1 .. n
      BY <2>2, <3>1 DEF LinesInv
    <3>2. ASSUME NEW j \in 1 .. m, i = n + j PROVE out'[i].cycle = i - 1
      <4>1. out'[n + j] = [cycle |-> n + j - 1, event |-> events[j]]
        BY <2>2
      <4> QED BY <3>2, <4>1
    <3> QED BY <2>2, <3>1, <3>2
  <2> DEFINE New == {n + j : j \in WriteEvents}
  <2>4. WriteEvents \subseteq 1 .. m /\ WriteLines \subseteq 1 .. n
        /\ \A j \in 1 .. m : j \in WriteEvents <=> IsWrite(events[j])
    BY <2>2, LinesType DEF WriteLines, WriteEvents, TypeOK
  <2>5. WriteLines' = WriteLines \union New
    <3>1. \A i \in 1 .. n : i \in WriteLines' <=> i \in WriteLines
      BY <2>2 DEF WriteLines
    <3>2. \A j \in 1 .. m : n + j \in WriteLines' <=> j \in WriteEvents
      <4> SUFFICES ASSUME NEW j \in 1 .. m PROVE n + j \in WriteLines' <=> j \in WriteEvents
        OBVIOUS
      <4>1. out'[n + j] = [cycle |-> n + j - 1, event |-> events[j]]
        BY <2>2
      <4>2. n + j \in 1 .. n + m
        OBVIOUS
      <4> QED BY <2>2, <2>4, <4>1, <4>2 DEF WriteLines
    <3>3. WriteLines' \subseteq 1 .. n + m
      BY <2>2 DEF WriteLines
    <3>4. ASSUME NEW x \in WriteLines' PROVE x \in WriteLines \union New
      BY <2>2, <2>4, <3>1, <3>2, <3>3
    <3>5. ASSUME NEW x \in WriteLines PROVE x \in WriteLines'
      BY <2>4, <3>1
    <3>6. ASSUME NEW x \in New PROVE x \in WriteLines'
      BY <2>4, <3>2
    <3> QED BY <3>4, <3>5, <3>6
  <2>6. IsFiniteSet(WriteLines) /\ IsFiniteSet(WriteEvents)
    <3>1. IsFiniteSet(1 .. n) /\ IsFiniteSet(1 .. m)
      BY FS_Interval
    <3> QED BY <2>4, <3>1, FS_Subset
  <2>7. IsFiniteSet(New) /\ Cardinality(New) = Cardinality(WriteEvents)
    <3> DEFINE f == [j \in WriteEvents |-> n + j]
    <3>1. f \in Bijection(WriteEvents, New)
      <4>1. f \in [WriteEvents -> New]
        OBVIOUS
      <4>2. \A i, j \in WriteEvents : f[i] = f[j] => i = j
        BY <2>4
      <4>3. \A x \in New : \E j \in WriteEvents : f[j] = x
        OBVIOUS
      <4> HIDE DEF f, New
      <4> QED BY <4>1, <4>2, <4>3 DEF Bijection, Injection, Surjection, IsInjective
    <3>2. ExistsBijection(WriteEvents, New)
      BY <3>1 DEF ExistsBijection
    <3> QED BY <2>6, <3>2, FS_Bijection
  <2>8. WriteLines \cap New = {}
    <3>1. ASSUME NEW x \in New PROVE x \notin 1 .. n
      <4>1. PICK j \in WriteEvents : x = n + j
        OBVIOUS
      <4>2. j \in Nat /\ j >= 1
        BY <2>4
      <4> QED BY <4>1, <4>2
    <3> HIDE DEF New
    <3> QED BY <2>4, <3>1
  <2> HIDE DEF New
  <2>9. Cardinality(WriteLines') = Cardinality(WriteLines) + Cardinality(WriteEvents)
    <3>1. /\ Cardinality(WriteLines) \in Nat /\ Cardinality(New) \in Nat
          /\ Cardinality(WriteLines \cap New) = 0
      BY <2>6, <2>7, <2>8, FS_CardinalityType, FS_EmptySet
    <3>2. Cardinality(WriteLines \union New)
            = Cardinality(WriteLines) + Cardinality(New) - Cardinality(WriteLines \cap New)
      BY <2>6, <2>7, FS_Union
    <3> QED BY <2>5, <2>7, <3>1, <3>2
  <2> QED BY <2>1, <2>2, <2>3, <2>9 DEF LinesInv
<1>3. CASE PrintTrace /\ ~cfg.busTrace
  BY <1>3 DEF PrintTrace, LinesInv, WriteLines
<1> QED BY <1>1, <1>2, <1>3 DEF Next, BeginStep, FetchPrefix, FetchOpcode, FetchMore,
           ReadImmediate8, ReadMemory, WriteMemory, PortOrAcknowledge, EndStep, EndRun, DumpLine,
           EndDump, EndOutput, Done, vars

----------------------------------------------------------------------------
(***************************************************************************)
(* One more event leaves every address what it was, or what the event      *)
(* writes there.                                                           *)
(***************************************************************************)
LEMMA LeavesAppend ==
  ASSUME NEW s \in Seq(Event), NEW e \in Event, NEW a, NEW b, Leaves(s, a, b)
  PROVE Leaves(Append(s, e), a, IF Writes(e, a) THEN e.data ELSE b)
<1> PICK n \in Nat : n = Len(s)
  OBVIOUS
<1> DEFINE t == Append(s, e)
<1>1. /\ Len(t) = n + 1 /\ t[n + 1] = e
      /\ \A i \in 1 .. n : t[i] = s[i] /\ i \in 1 .. n + 1
  OBVIOUS
<1>2. \A i \in 1 .. n + 1 : i \in 1 .. n \/ i = n + 1
  OBVIOUS
<1> HIDE DEF t
<1>3. CASE Writes(e, a)
  <2>1. LastWrite(t, a, n + 1) /\ n + 1 \in 1 .. Len(t)
    BY <1>1, <1>3 DEF LastWrite
  <2> QED BY <1>1, <1>3, <2>1 DEF Leaves, t
<1>4. CASE ~Writes(e, a)
  <2>1. ASSUME NEW i \in 1 .. n, LastWrite(s, a, i) PROVE LastWrite(t, a, i) /\ i \in 1 .. Len(t)
    BY <1>1, <1>2, <1>4, <2>1 DEF LastWrite
  <2>2. Untouched(s, a) => Untouched(t, a)
    BY <1>1, <1>2, <1>4 DEF Untouched
  <2>3. Leaves(t, a, b)
    BY <1>1, <2>1, <2>2 DEF Leaves
  <2> QED BY <1>4, <2>3 DEF t
<1> QED BY <1>3, <1>4

(***************************************************************************)
(* The stream is one of events, as long as the lines and the buffer.       *)
(***************************************************************************)
LEMMA StreamType ==
  ASSUME TypeOK
  PROVE /\ EventsOf(out) \in Seq(Event) /\ events \in Seq(Event) /\ Stream \in Seq(Event)
        /\ Len(EventsOf(out)) = Len(out) /\ Len(out) \in Nat /\ Len(events) \in Nat
<1> DEFINE S == [cycle : Nat, event : Event]
<1>1. out \in Seq(S) /\ events \in Seq(Event) /\ \A x \in S : x.event \in Event
  BY DEF TypeOK
<1> HIDE DEF S
<1> PICK n \in Nat : n = Len(out)
  BY <1>1
<1>2. EventsOf(out) \in [1 .. n -> Event]
  BY <1>1 DEF EventsOf
<1>3. EventsOf(out) \in Seq(Event)
  BY <1>2
<1>4. Len(EventsOf(out)) = n
  BY <1>2, <1>3
<1>5. Stream \in Seq(Event)
  BY <1>1, <1>3 DEF Stream
<1> QED BY <1>1, <1>3, <1>4, <1>5

(***************************************************************************)
(* The events of the lines after a step are those before it, and the       *)
(* buffer.                                                                 *)
(***************************************************************************)
LEMMA PrintedStream ==
  ASSUME TypeOK, out' = out \o Lines
  PROVE EventsOf(out') = EventsOf(out) \o events
<1> PICK n \in Nat, m \in Nat : n = Len(out) /\ m = Len(events)
  BY StreamType
<1> DEFINE s == EventsOf(out)
           t == EventsOf(out')
<1>1. /\ s \in Seq(Event) /\ Len(s) = n /\ events \in Seq(Event)
      /\ \A i \in 1 .. n : s[i] = out[i].event
  BY StreamType DEF EventsOf
<1>2. /\ Len(out') = n + m
      /\ \A i \in 1 .. n : out'[i] = out[i]
      /\ \A j \in 1 .. m : out'[n + j] = [cycle |-> busCycle + j - 1, event |-> events[j]]
      /\ \A i \in 1 .. n + m : i \in 1 .. n \/ \E j \in 1 .. m : i = n + j
  BY LinesGrow
<1>3. \A i \in 1 .. n + m : t[i] = out'[i].event
  BY <1>2 DEF EventsOf
<1>4. /\ \A i \in 1 .. n : i \in 1 .. n + m
      /\ \A j \in 1 .. m : n + j \in 1 .. n + m
  OBVIOUS
<1>5. \A i \in 1 .. n : t[i] = s[i]
  BY <1>1, <1>2, <1>3, <1>4
<1>6. ASSUME NEW j \in 1 .. m PROVE t[n + j] = events[j]
  <2>1. out'[n + j] = [cycle |-> busCycle + j - 1, event |-> events[j]]
    BY <1>2
  <2>2. out'[n + j].event = events[j]
    BY <2>1
  <2>3. n + j \in 1 .. n + m
    BY <1>4
  <2> HIDE DEF t
  <2> QED BY <1>3, <2>2, <2>3
<1>7. ASSUME NEW i \in 1 .. n + m PROVE t[i] \in Event
  <2>1. CASE i \in 1 .. n
    BY <1>1, <1>5, <2>1
  <2>2. ASSUME NEW j \in 1 .. m, i = n + j PROVE t[i] \in Event
    BY <1>1, <1>6, <2>2
  <2> QED BY <1>2, <2>1, <2>2
<1>8. t \in Seq(Event) /\ Len(t) = n + m
  <2>1. t = [i \in 1 .. n + m |-> out'[i].event]
    BY <1>2 DEF EventsOf
  <2>2. \A i \in 1 .. n + m : out'[i].event \in Event
    BY <1>3, <1>7
  <2> HIDE DEF t
  <2>3. t \in [1 .. n + m -> Event]
    BY <2>1, <2>2
  <2>4. t \in Seq(Event) /\ DOMAIN t = 1 .. n + m /\ n + m \in Nat
    BY <2>3
  <2>5. DOMAIN t = 1 .. Len(t) /\ Len(t) \in Nat
    BY <2>4
  <2>6. Len(t) = n + m
    BY <2>4, <2>5
  <2> QED BY <2>4, <2>6
<1> HIDE DEF s, t
<1>9. /\ s \o events \in Seq(Event) /\ Len(s \o events) = n + m
      /\ \A i \in 1 .. n + m : (s \o events)[i] = IF i <= n THEN s[i] ELSE events[i - n]
  <2>1. /\ s \o events \in Seq(Event) /\ Len(s \o events) = Len(s) + Len(events)
        /\ \A i \in 1 .. Len(s) + Len(events) :
             (s \o events)[i] = IF i <= Len(s) THEN s[i] ELSE events[i - Len(s)]
    BY <1>1, ConcatProperties
  <2> QED BY <1>1, <2>1
<1>10. ASSUME NEW i \in 1 .. n + m PROVE t[i] = (s \o events)[i]
  <2>1. CASE i \in 1 .. n
    BY <1>5, <1>9, <2>1
  <2>2. ASSUME NEW j \in 1 .. m, i = n + j PROVE t[i] = (s \o events)[i]
    <3>1. ~(i <= n) /\ i - n = j
      BY <2>2
    <3> QED BY <1>6, <1>9, <2>2, <3>1
  <2> QED BY <1>2, <2>1, <2>2
<1>11. t = s \o events
  BY <1>8, <1>9, <1>10, SeqEqual
<1> QED BY <1>11 DEF s, t

(***************************************************************************)
(* A cycle of a step that has not had too many is recorded: it is the last *)
(* event of the stream.                                                    *)
(***************************************************************************)
LEMMA StreamGrows ==
  ASSUME TypeOK, NEW e \in Event, Records(e), cfg.busTrace, ~overflowed',
         InStep => cycles = Len(events)
  PROVE /\ cycles' = Len(events')
        /\ Stream' = Append(Stream, e)
<1>1. events \in Seq(Event) /\ EventsOf(out) \in Seq(Event) /\ Len(events) \in Nat
  BY StreamType
<1>2. InStep /\ InStep' /\ out' = out
  BY DEF Records, InStep, outputVars
<1>3. /\ ~overflowed /\ ~(cycles >= MaxEvents) /\ cycles = Len(events)
      /\ cycles' = IF cycles > MaxEvents THEN cycles ELSE cycles + 1
      /\ events' = IF Traced /\ Len(events) < MaxEvents THEN Append(events, e) ELSE events
  BY <1>2 DEF Records, TraceEvent
<1>4. Traced
  BY DEF Traced
<1>5. events' = Append(events, e) /\ cycles' = Len(events) + 1
  BY <1>1, <1>3, <1>4, SizesAssumption
<1>6. cycles' = Len(events')
  BY <1>1, <1>5
<1>7. EventsOf(out) \o Append(events, e) = Append(EventsOf(out) \o events, e)
  <2> DEFINE s == EventsOf(out)
  <2> HIDE DEF s
  <2>1. s \in Seq(Event)
    BY <1>1 DEF s
  <2>2. s \o Append(events, e) = Append(s \o events, e)
    <3>1. <<e>> \in Seq(Event) /\ s \o events \in Seq(Event)
      BY <1>1, <2>1
    <3>2. Append(events, e) = events \o <<e>>
      BY <1>1, AppendIsConcat
    <3>3. Append(s \o events, e) = (s \o events) \o <<e>>
      BY <3>1, AppendIsConcat
    <3>4. (s \o events) \o <<e>> = s \o (events \o <<e>>)
      BY <1>1, <2>1, <3>1, ConcatAssociative
    <3> QED BY <3>2, <3>3, <3>4
  <2> QED BY <2>2 DEF s
<1>8. Stream' = EventsOf(out) \o events' /\ Stream = EventsOf(out) \o events
  BY <1>2 DEF Stream, EventsOf
<1> QED BY <1>3, <1>5, <1>6, <1>7, <1>8

(***************************************************************************)
(* Steps that change neither memory nor the stream.                        *)
(***************************************************************************)
LEMMA StreamKept ==
  ASSUME ReplayInv, UNCHANGED <<cfg, memory, loaded, overflowed>>, Stream' = Stream,
         InStep' => cycles' = Len(events')
  PROVE ReplayInv'
<1> SUFFICES ASSUME cfg.busTrace, ~overflowed, NEW a \in Addr
             PROVE Leaves(Stream, a, memory[a])'
  BY DEF ReplayInv
<1>1. Leaves(Stream, a, memory[a])
  BY DEF ReplayInv
<1> QED BY <1>1 DEF Leaves

(***************************************************************************)
(* Every step keeps the stream and memory together.                        *)
(***************************************************************************)
LEMMA ReplayStep ==
  ASSUME TypeOK, ReplayInv, [Next]_vars PROVE ReplayInv'
<1>1. CASE Cycle
  <2> SUFFICES ASSUME cfg.busTrace, ~overflowed'
               PROVE (InStep => cycles = Len(events))' /\ \A a \in Addr : Leaves(Stream, a, memory[a])'
    <3>1. cfg' = cfg
      BY <1>1, CycleRecords DEF Records
    <3> QED BY <3>1 DEF ReplayInv
  <2> PICK e \in Event : Records(e)
    BY <1>1, CycleRecords
  <2>1. ~overflowed
    BY DEF Records, TraceEvent
  <2>2. /\ InStep => cycles = Len(events)
        /\ \A a \in Addr : Leaves(Stream, a, memory[a])
    BY <2>1 DEF ReplayInv
  <2>3. InStep' => cycles' = Len(events')
    BY <2>2, StreamGrows
  <2>4. Stream' = Append(Stream, e)
    BY <2>2, StreamGrows
  <2>5. ASSUME NEW a \in Addr PROVE Leaves(Stream, a, memory[a])'
    <3>1. Stream \in Seq(Event)
      BY StreamType
    <3>2. Leaves(Append(Stream, e), a, IF Writes(e, a) THEN e.data ELSE memory[a])
      <4> DEFINE b == memory[a]
      <4>1. Leaves(Stream, a, b)
        BY <2>2
      <4> HIDE DEF b
      <4>2. Leaves(Append(Stream, e), a, IF Writes(e, a) THEN e.data ELSE b)
        BY <3>1, <4>1, LeavesAppend
      <4> QED BY <4>2 DEF b
    <3>3. memory'[a] = IF Writes(e, a) THEN e.data ELSE memory[a]
      BY DEF Records, Writes, TypeOK
    <3>4. loaded' = loaded
      BY DEF Records
    <3> DEFINE c == IF Writes(e, a) THEN e.data ELSE memory[a]
    <3> HIDE DEF c
    <3>5. Leaves(Stream', a, c)
      BY <2>4, <3>2 DEF c
    <3>6. memory'[a] = c
      BY <3>3 DEF c
    <3> QED BY <3>4, <3>5, <3>6 DEF Leaves
  <2> QED BY <2>3, <2>5
<1>2. CASE BeginStep
  <2>1. UNCHANGED <<cfg, memory, loaded, overflowed, out>> /\ events' = <<>> /\ cycles' = 0
        /\ InStep' /\ ~InStep
    BY <1>2 DEF BeginStep, ClearEvents, AcceptInterrupt, InStep, outputVars
  <2>2. EventsOf(out) \in Seq(Event)
    BY StreamType
  <2>3. EventsOf(out) \o <<>> = EventsOf(out)
    BY <2>2, ConcatEmptySeq
  <2>4. Stream' = EventsOf(out) \o <<>> /\ Stream = EventsOf(out)
    BY <2>1 DEF Stream, EventsOf
  <2>5. cycles' = Len(events')
    BY <2>1
  <2> QED BY <2>1, <2>3, <2>4, <2>5, StreamKept
<1>3. CASE EndStep \/ UNCHANGED vars
  <2>1. /\ UNCHANGED <<cfg, memory, loaded, overflowed, out, events, cycles>>
        /\ InStep' = InStep
    BY <1>3 DEF EndStep, vars, outputVars, InStep
  <2>2. Stream' = Stream
    BY <2>1 DEF Stream, EventsOf
  <2>3. CASE cfg.busTrace /\ ~overflowed
    BY <2>1, <2>2, <2>3, StreamKept DEF ReplayInv
  <2>4. CASE ~(cfg.busTrace /\ ~overflowed)
    BY <2>1, <2>4 DEF ReplayInv
  <2> QED BY <2>3, <2>4
<1>4. CASE PrintTrace
  <2>1. UNCHANGED <<cfg, memory, loaded, overflowed>> /\ InStep /\ ~InStep'
    BY <1>4 DEF PrintTrace, InStep
  <2>2. CASE cfg.busTrace
    <3>1. out' = out \o Lines
      BY <1>4, <2>2 DEF PrintTrace
    <3>2. EventsOf(out') = EventsOf(out) \o events
      BY <3>1, PrintedStream
    <3>3. Stream' = EventsOf(out') /\ Stream = EventsOf(out) \o events
      BY <2>1 DEF Stream, EventsOf
    <3> QED BY <2>1, <3>2, <3>3, StreamKept
  <2>3. CASE ~cfg.busTrace
    BY <2>1, <2>3 DEF ReplayInv
  <2> QED BY <2>2, <2>3
<1>5. CASE EndRun \/ DumpLine \/ EndDump \/ EndOutput
  <2>1. UNCHANGED <<cfg, memory, loaded, overflowed, out>> /\ ~InStep /\ ~InStep'
    BY <1>5 DEF EndRun, DumpLine, EndDump, EndOutput, outputVars, InStep
  <2>2. Stream' = Stream
    BY <2>1 DEF Stream, EventsOf
  <2> QED BY <2>1, <2>2, StreamKept
<1> QED BY <1>1, <1>2, <1>3, <1>4, <1>5 DEF Next, Cycle, Done

(***************************************************************************)
(* Between two steps the stream is what was printed: the last WRITE line   *)
(* of an address tells its byte.                                           *)
(***************************************************************************)
LEMMA LastLine ==
  ASSUME TypeOK, NEW a \in Addr, NEW b, Leaves(EventsOf(out), a, b)
  PROVE Replayed(a) = b
<1> DEFINE s == EventsOf(out)
<1> PICK n \in Nat : n = Len(out)
  BY StreamType
<1>1. Len(s) = n /\ DOMAIN out = 1 .. n /\ \A i \in 1 .. n : s[i] = out[i].event
  BY StreamType DEF EventsOf, TypeOK
<1> HIDE DEF s
<1>2. WritesTo(a) = {i \in 1 .. n : Writes(s[i], a)}
  BY <1>1 DEF WritesTo, WriteLines, IsWrite, Writes
<1>3. (\E i \in 1 .. n : LastWrite(s, a, i) /\ s[i].data = b) \/ (Untouched(s, a) /\ loaded[a] = b)
  BY <1>1 DEF Leaves, s
<1>4. ASSUME NEW i \in 1 .. n, LastWrite(s, a, i), s[i].data = b PROVE Replayed(a) = b
  <2>1. i \in WritesTo(a)
    BY <1>2, <1>4 DEF LastWrite
  <2>2. \A j \in WritesTo(a) : j <= i /\ j \in Int
    BY <1>1, <1>2, <1>4 DEF LastWrite
  <2>3. ASSUME NEW k \in WritesTo(a), \A j \in WritesTo(a) : j <= k PROVE k = i
    BY <2>1, <2>2, <2>3
  <2>4. Last(WritesTo(a)) = i
    BY <2>1, <2>2, <2>3 DEF Last
  <2> QED BY <1>1, <1>4, <2>1, <2>4 DEF Replayed
<1>5. ASSUME Untouched(s, a), loaded[a] = b PROVE Replayed(a) = b
  BY <1>1, <1>2, <1>5 DEF Untouched, Replayed
<1> QED BY <1>3, <1>4, <1>5

(***************************************************************************)
(* Applying the WRITE lines of --bus-trace to the image that was loaded    *)
(* gives the memory of the program after every step, and the PASS line     *)
(* counts them, for every program and image, as long as no step had more   *)
(* cycles than the buffer of TraceEvent holds.                             *)
(***************************************************************************)
THEOREM BusTraceIsMemory == Spec => []BusTraceReplays
<1>1. Init => ReplayInv /\ LinesInv
  <2> SUFFICES ASSUME Init PROVE ReplayInv /\ LinesInv
    OBVIOUS
  <2>1. out = <<>> /\ Len(out) = 0 /\ ~InStep /\ loaded = memory /\ 1 .. 0 = {}
    BY DEF Init, InStep
  <2>2. WriteLines = {}
    BY <2>1 DEF WriteLines
  <2>3. LinesInv
    BY <2>1, <2>2, FS_EmptySet DEF Init, LinesInv
  <2>4. EventsOf(out) = <<>>
    BY <2>1 DEF EventsOf
  <2>5. \A a \in Addr : Leaves(Stream, a, memory[a])
    BY <2>1, <2>4 DEF Stream, Leaves, Untouched
  <2> QED BY <2>1, <2>3, <2>5 DEF ReplayInv
<1>2. TypeOK /\ ReplayInv /\ LinesInv => BusTraceReplays
  <2> SUFFICES ASSUME TypeOK, ReplayInv, LinesInv, cfg.busTrace, phase = "begin", ~overflowed
               PROVE /\ ReplayIsMemory
                     /\ totalBusWrites = Cardinality(WriteLines)
                     /\ \A i \in DOMAIN out : out[i].cycle = i - 1
    BY DEF BusTraceReplays
  <2>1. ASSUME NEW a \in Addr PROVE Replayed(a) = memory[a]
    <3>1. Leaves(EventsOf(out), a, memory[a])
      BY DEF ReplayInv, Stream, InStep
    <3> QED BY <3>1, LastLine
  <2>2. DOMAIN out = 1 .. Len(out)
    BY DEF TypeOK
  <2> QED BY <2>1, <2>2 DEF ReplayIsMemory, LinesInv
<1>3. TypeOK /\ ReplayInv /\ LinesInv /\ [Next]_vars => (ReplayInv /\ LinesInv)'
  BY ReplayStep, LinesStep
<1> QED BY <1>1, <1>2, <1>3, BusTypeCorrect, PTL DEF Spec

----------------------------------------------------------------------------
(***************************************************************************)
(* A dump that does not wrap has shown the bytes up to its offset; one     *)
(* that does never reaches its length.                                     *)
(***************************************************************************)
Shown(d, n) == [i \in 1 .. n |-> (d.start + i - 1) % AddrSpace]
Wraps(d) == StoredLength(d) > AddrSpace - LineLength

DumpInv ==
  /\ \E k \in Nat : offset = k * LineLength
  /\ dump <= Len(cfg.dumps) =>
       LET d == cfg.dumps[dump]
           stored == StoredLength(d)
       IN \/ Wraps(d)
          \/ dumped = Shown(d, IF offset < stored THEN offset ELSE stored)

(***************************************************************************)
(* A multiple below another is below it by a whole line.                   *)
(***************************************************************************)
LEMMA NextMultiple ==
  ASSUME NEW l \in Nat \ {0}, NEW k \in Nat, NEW m \in Nat, k * l < m * l
  PROVE k * l + l <= m * l
<1>1. CASE k + 1 <= m
  <2> PICK r \in Nat : m = (k + 1) + r
    BY <1>1
  <2>1. m * l = (k * l + l) + r * l /\ r * l \in Nat /\ k * l \in Nat
    OBVIOUS
  <2> QED BY <2>1
<1>2. CASE m <= k
  <2> PICK r \in Nat : k = m + r
    BY <1>2
  <2>1. k * l = m * l + r * l /\ r * l \in Nat /\ m * l \in Nat
    OBVIOUS
  <2> QED BY <2>1
<1> QED BY <1>1, <1>2

(***************************************************************************)
(* Lines fill memory: an offset that is one of theirs leaves room for a    *)
(* whole line.                                                             *)
(***************************************************************************)
LEMMA LinesFit ==
  ASSUME NEW k \in Nat, k * LineLength < AddrSpace
  PROVE /\ LineLength \in Nat \ {0}
        /\ k * LineLength + LineLength <= AddrSpace
<1>1. LineLength \in Nat \ {0}
  BY SizesAssumption DEF LineLength
<1>2. \E m \in Nat : AddrSpace = m * LineLength
  <2>1. CASE LineLength = 1
    BY <2>1, SizesAssumption
  <2>2. CASE LineLength = RowLength
    <3>1. AddrSpace \in Nat /\ RowLength \in Nat \ {0} /\ AddrSpace % RowLength = 0
      BY SizesAssumption
    <3>2. AddrSpace = (AddrSpace \div RowLength) * RowLength /\ AddrSpace \div RowLength \in Nat
      BY <3>1
    <3> QED BY <2>2, <3>2
  <2> QED BY <2>1, <2>2 DEF LineLength
<1> QED BY <1>1, <1>2, NextMultiple

(***************************************************************************)
(* What the 16 bits of a length keep.                                      *)
(***************************************************************************)
LEMMA StoredRange ==
  ASSUME TypeOK, dump <= Len(cfg.dumps)
  PROVE LET d == cfg.dumps[dump]
        IN /\ d.start \in Addr /\ d.length \in 1 .. AddrSpace
           /\ StoredLength(d) \in Addr
           /\ StoredLength(d) = IF d.length = AddrSpace THEN 0 ELSE d.length
<1> DEFINE d == cfg.dumps[dump]
<1>1. d.start \in Addr /\ d.length \in 1 .. AddrSpace
  BY ConfigDumps DEF TypeOK
<1>2. StoredLength(d) \in Addr
  BY <1>1, AddrRange DEF StoredLength
<1>3. d.length < AddrSpace => d.length % AddrSpace = d.length
  BY <1>1, SizesAssumption
<1>4. AddrSpace % AddrSpace = 0
  BY SizesAssumption
<1> QED BY <1>1, <1>2, <1>3, <1>4, SizesAssumption DEF StoredLength

(***************************************************************************)
(* A line more is shown.                                                   *)
(***************************************************************************)
LEMMA ShownLine ==
  ASSUME NEW d, d.start \in Addr, NEW n \in Nat, NEW w \in Nat
  PROVE /\ Len(Shown(d, n)) = n
        /\ Shown(d, n) \o [i \in 1 .. w |-> (d.start + n + i - 1) % AddrSpace] = Shown(d, n + w)
<1> PICK b \in Nat : b = d.start
  BY DEF Addr
<1> DEFINE s == Shown(d, n)
           l == [i \in 1 .. w |-> (b + n + i - 1) % AddrSpace]
           t == Shown(d, n + w)
<1>1. /\ \A i \in 1 .. n : s[i] = (b + i - 1) % AddrSpace
      /\ \A i \in 1 .. w : l[i] = (b + n + i - 1) % AddrSpace
      /\ \A i \in 1 .. n + w : t[i] = (b + i - 1) % AddrSpace
  BY DEF Shown
<1>2. /\ s \in [1 .. n -> Addr] /\ l \in [1 .. w -> Addr] /\ t \in [1 .. n + w -> Addr]
  BY AddrRange DEF Shown
<1> HIDE DEF s, l, t
<1>3. /\ s \in Seq(Addr) /\ Len(s) = n
  BY <1>2
<1>4. l \in Seq(Addr) /\ Len(l) = w
  BY <1>2
<1>5. n + w \in Nat /\ t \in Seq(Addr) /\ Len(t) = n + w
  BY <1>2
<1>6. /\ s \o l \in Seq(Addr) /\ Len(s \o l) = n + w
      /\ \A i \in 1 .. n + w : (s \o l)[i] = IF i <= n THEN s[i] ELSE l[i - n]
  <2>1. /\ s \o l \in Seq(Addr) /\ Len(s \o l) = Len(s) + Len(l)
        /\ \A i \in 1 .. Len(s) + Len(l) :
             (s \o l)[i] = IF i <= Len(s) THEN s[i] ELSE l[i - Len(s)]
    BY <1>3, <1>4, ConcatProperties
  <2> QED BY <1>3, <1>4, <2>1
<1>7. ASSUME NEW i \in 1 .. n + w PROVE (s \o l)[i] = t[i]
  <2>1. CASE i <= n
    BY <1>1, <1>6, <2>1
  <2>2. CASE ~(i <= n)
    <3>1. i - n \in 1 .. w /\ b + n + (i - n) - 1 = b + i - 1
      BY <2>2
    <3> QED BY <1>1, <1>6, <2>2, <3>1
  <2> QED BY <2>1, <2>2
<1>8. s \o l = t
  BY <1>5, <1>6, <1>7, SeqEqual
<1> QED BY <1>3, <1>8 DEF s, l, t

(***************************************************************************)
(* Every step keeps it.                                                    *)
(***************************************************************************)
LEMMA DumpStep ==
  ASSUME TypeOK, DumpInv, [Next]_vars PROVE DumpInv'
<1>1. CASE DumpLine
  <2> DEFINE d == cfg.dumps[dump]
             stored == StoredLength(d)
             L == LineLength
  <2>1. /\ dump <= Len(cfg.dumps) /\ offset < stored /\ offset \in Nat /\ AddrSpace \in Nat \ {0}
        /\ offset < AddrSpace /\ offset' = (offset + L) % AddrSpace
        /\ UNCHANGED <<cfg, dump>>
    BY <1>1, SizesAssumption DEF DumpLine, NextOffset, TypeOK, Addr
  <2> PICK k \in Nat : offset = k * L
    BY DEF DumpInv
  <2>2. L \in Nat \ {0} /\ k * L + L <= AddrSpace
    BY <2>1, LinesFit
  <2>3. LineLength' = L /\ \A x : StoredLength(x)' = StoredLength(x)
    BY <2>1 DEF LineLength, StoredLength
  <2>4. d.start \in Addr /\ stored \in Nat /\ stored < AddrSpace
    BY <2>1, StoredRange DEF Addr
  <2> HIDE DEF L
  <2>5. \E j \in Nat : offset' = j * L
    <3>1. CASE k * L + L < AddrSpace
      <4>1. offset' = k * L + L
        BY <2>1, <2>2, <3>1
      <4>2. k * L + L = (k + 1) * L
        BY <2>2
      <4> QED BY <4>1, <4>2
    <3>2. CASE k * L + L = AddrSpace
      <4>1. offset' = 0
        BY <2>1, <3>2
      <4>2. 0 = 0 * L
        BY <2>2
      <4> QED BY <4>1, <4>2
    <3>3. k * L \in Nat
      BY <2>2
    <3> QED BY <2>1, <2>2, <3>1, <3>2, <3>3
  <2>6. CASE Wraps(d)
    BY <2>1, <2>3, <2>5, <2>6 DEF DumpInv, Wraps, L, StoredLength
  <2>7. CASE ~Wraps(d)
    <3> DEFINE w == IF stored - offset < L THEN stored - offset ELSE L
    <3>1. stored <= AddrSpace - L
      BY <2>1, <2>2, <2>4, <2>7 DEF Wraps, L
    <3>2. offset + L < AddrSpace
      BY <2>1, <2>2, <2>4, <3>1
    <3>3. offset' = offset + L
      BY <2>1, <2>2, <3>2
    <3>4. dumped = Shown(d, offset)
      BY <2>1, <2>7 DEF DumpInv
    <3>5. w \in Nat /\ offset + w = IF offset + L < stored THEN offset + L ELSE stored
      <4>1. offset \in Nat /\ stored \in Nat /\ L \in Nat /\ offset < stored
        BY <2>1, <2>2, <2>4
      <4> HIDE DEF stored
      <4> QED BY <4>1
    <3>6. Len(dumped) = offset
      BY <2>1, <2>4, <3>4, ShownLine
    <3>7. Len(dumped) < MaxDumped
      BY <2>1, <3>6 DEF MaxDumped
    <3>8. dumped' = dumped \o LineAddresses(d)
      BY <1>1, <3>7 DEF DumpLine
    <3>9. LineAddresses(d) = [i \in 1 .. w |-> (d.start + offset + i - 1) % AddrSpace]
      BY DEF LineAddresses, L
    <3> HIDE DEF w
    <3>10. dumped' = Shown(d, offset + w)
      <4>1. /\ d.start \in Addr /\ offset \in Nat /\ w \in Nat
        BY <2>1, <2>4, <3>5
      <4> HIDE DEF d, stored
      <4>2. Shown(d, offset) \o [i \in 1 .. w |-> (d.start + offset + i - 1) % AddrSpace]
              = Shown(d, offset + w)
        BY <4>1, ShownLine
      <4> QED BY <3>4, <3>8, <3>9, <4>2
    <3>11. dumped' = Shown(d, IF offset' < stored THEN offset' ELSE stored)
      BY <3>3, <3>5, <3>10
    <3> QED BY <2>1, <2>3, <2>5, <3>11 DEF DumpInv, Shown, L, StoredLength
  <2> QED BY <2>6, <2>7
<1>2. CASE EndDump
  <2>1. offset' = 0 /\ dumped' = <<>> /\ cfg' = cfg /\ dump' \in Nat /\ Len(cfg.dumps) \in Nat
    BY <1>2, ConfigDumps DEF EndDump, TypeOK
  <2>2. \A d, n : n = 0 => Shown(d, n) = <<>>
    BY DEF Shown
  <2>3. LineLength' \in Nat
    BY <2>1, SizesAssumption DEF LineLength
  <2>4. 0 * LineLength' = 0
    <3>1. \A x \in Nat : 0 * x = 0
      OBVIOUS
    <3> QED BY <2>3, <3>1
  <2>5. dump' <= Len(cfg.dumps) => StoredLength(cfg.dumps[dump']) \in Nat
    <3> SUFFICES ASSUME dump' <= Len(cfg.dumps) PROVE StoredLength(cfg.dumps[dump']) \in Nat
      OBVIOUS
    <3>1. dump' \in 1 .. Len(cfg.dumps)
      BY <1>2, <2>1 DEF EndDump, TypeOK
    <3>2. cfg.dumps[dump'].length \in 1 .. AddrSpace
      BY <3>1, ConfigDumps DEF TypeOK
    <3>3. StoredLength(cfg.dumps[dump']) \in Addr
      BY <3>2, AddrRange DEF StoredLength
    <3> QED BY <3>3 DEF Addr
  <2> DEFINE stored == StoredLength(cfg.dumps[dump'])
  <2>6. dump' <= Len(cfg.dumps) => (IF 0 < stored THEN 0 ELSE stored) = 0
    BY <2>5
  <2>7. dump' <= Len(cfg.dumps)
          => dumped' = Shown(cfg.dumps[dump'], IF offset' < stored THEN offset' ELSE stored)
    BY <2>1, <2>2, <2>6
  <2>8. \E k \in Nat : offset' = k * LineLength'
    BY <2>1, <2>4
  <2> QED BY <2>1, <2>7, <2>8 DEF DumpInv, Shown, StoredLength
<1>3. CASE UNCHANGED <<cfg, dumpVars>>
  BY <1>3 DEF DumpInv, Shown, Wraps, StoredLength, LineLength, dumpVars
<1> QED BY <1>1, <1>2, <1>3 DEF Next, BeginStep, FetchPrefix, FetchOpcode, FetchMore,
           ReadImmediate8, ReadMemory, WriteMemory, PortOrAcknowledge, EndStep, PrintTrace,
           EndRun, EndOutput, Done, vars

(***************************************************************************)
(* For every memory size, every length of a line that divides it and every *)
(* range asked for: a dump that ends has shown the range, in order, each   *)
(* byte once, across the end of memory too; and nothing if it was all of   *)
(* memory, because the length is kept in 16 bits.                          *)
(***************************************************************************)
THEOREM DumpIsRange == Spec => []DumpCovers
<1>1. Init => DumpInv
  <2> SUFFICES ASSUME Init PROVE DumpInv
    OBVIOUS
  <2>1. /\ offset = 0 /\ dumped = <<>> /\ dump = 1 /\ cfg \in Configs
    BY DEF Init
  <2>2. LineLength \in Nat /\ 0 * LineLength = 0
    BY SizesAssumption DEF LineLength
  <2>3. \A d, n : n = 0 => Shown(d, n) = <<>>
    BY DEF Shown
  <2> DEFINE stored == StoredLength(cfg.dumps[dump])
  <2>4. dump <= Len(cfg.dumps) => stored \in Nat
    <3> SUFFICES ASSUME 1 <= Len(cfg.dumps) PROVE StoredLength(cfg.dumps[1]) \in Nat
      BY <2>1
    <3>1. 1 \in 1 .. Len(cfg.dumps)
      BY <2>1, ConfigDumps
    <3>2. cfg.dumps[1].length \in 1 .. AddrSpace
      BY <2>1, <3>1, ConfigDumps
    <3>3. StoredLength(cfg.dumps[1]) \in Addr
      BY <3>2, AddrRange DEF StoredLength
    <3> QED BY <3>3 DEF Addr
  <2>5. dump <= Len(cfg.dumps)
          => dumped = Shown(cfg.dumps[dump], IF offset < stored THEN offset ELSE stored)
    <3>1. dump <= Len(cfg.dumps) => (IF 0 < stored THEN 0 ELSE stored) = 0
      BY <2>4
    <3> QED BY <2>1, <2>3, <3>1
  <2>6. \E k \in Nat : offset = k * LineLength
    BY <2>1, <2>2
  <2> QED BY <2>5, <2>6 DEF DumpInv
<1>2. TypeOK /\ DumpInv => DumpCovers
  <2> DEFINE d == cfg.dumps[dump]
             shown == IF d.length = AddrSpace THEN 0 ELSE d.length
  <2> SUFFICES ASSUME TypeOK, DumpInv, dump <= Len(cfg.dumps), offset >= shown
               PROVE dumped = Shown(d, shown)
    BY DEF DumpCovers, Shown
  <2>1. StoredLength(d) = shown /\ shown \in Nat /\ shown < AddrSpace
    BY StoredRange, SizesAssumption DEF Addr
  <2>2. offset \in Nat /\ offset < AddrSpace
    BY SizesAssumption DEF TypeOK, Addr
  <2>3. ~Wraps(d)
    <3> PICK k \in Nat : offset = k * LineLength
      BY DEF DumpInv
    <3>1. LineLength \in Nat /\ k * LineLength + LineLength <= AddrSpace /\ AddrSpace \in Nat
      BY <2>2, LinesFit, SizesAssumption
    <3> DEFINE stored == StoredLength(d)
               L == LineLength
    <3>2. stored \in Nat /\ stored <= offset /\ offset + L <= AddrSpace
      BY <2>1, <3>1
    <3>3. L \in Nat /\ AddrSpace \in Nat
      BY <3>1
    <3> HIDE DEF stored, L
    <3>4. ~(stored > AddrSpace - L)
      BY <2>2, <3>2, <3>3
    <3> QED BY <3>4 DEF Wraps, stored, L
  <2>4. dumped = Shown(d, IF offset < StoredLength(d) THEN offset ELSE StoredLength(d))
    BY <2>3 DEF DumpInv
  <2> HIDE DEF d, shown
  <2> QED BY <2>1, <2>2, <2>4
<1>3. TypeOK /\ DumpInv /\ [Next]_vars => DumpInv'
  BY DumpStep
<1> QED BY <1>1, <1>2, <1>3, BusTypeCorrect, PTL DEF Spec
=============================================================================
