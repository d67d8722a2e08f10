---------------------------- MODULE IoPluginHost ----------------------------
(***************************************************************************)
(* The host of a runtime I/O plugin (src/io_plugin.cpp), the program that  *)
(* owns it (main, src/main.cpp) and the ports of the executor that call it *)
(* (ReadPort and WritePort, src/z80_exec.c).                               *)
(*                                                                         *)
(* The shared library is the environment: what it exports and how its      *)
(* create call ends is any element of Libraries; what its callbacks answer *)
(* is any byte or request.                                                 *)
(***************************************************************************)
EXTENDS Naturals, Sequences

CONSTANTS
  Ports, Byte,    \* 65536 ports of 256 values
  Libraries,      \* the libraries considered
  MaxSteps,       \* --max-steps
  MaxCalls        \* bound: port accesses stop when so many calls are on record

Callbacks == {"create", "destroy", "reset", "read_port", "write_port", "after_instruction"}

(***************************************************************************)
(* given is --io-plugin; creates is what create returns: an object,        *)
(* nothing, or nothing and a text in its error buffer.                     *)
(***************************************************************************)
Library ==
  [given : BOOLEAN, opens : BOOLEAN, exports : BOOLEAN,
   api : {"null", "mismatch", "match"}, has : SUBSET Callbacks,
   creates : {"object", "nothing", "error"}]

ASSUME PortsAssumption == 0 \in Ports /\ 0 \in Byte
ASSUME BoundsAssumption == MaxSteps \in Nat /\ MaxCalls \in Nat
ASSUME LibrariesAssumption == Libraries \subseteq Library

VARIABLES
  library,
  phase,             \* where main stands
  handle, api, opaque,          \* fields of the host: set or not
  attached,          \* state->io_read and io_write are the thunks
  ioSpace, access,   \* state->io_space; history: the last access
  step, request,     \* the step; what AfterInstruction returned
  exit,              \* the exit code
  calls              \* history: what the library saw

hostVars == <<handle, api, opaque>>
portVars == <<attached, ioSpace, access>>
vars == <<library, phase, hostVars, portVars, step, request, exit, calls>>

NoAccess == [kind |-> "none", port |-> 0, data |-> 0]

Init ==
  /\ library \in Libraries
  /\ phase = IF library.given THEN "open" ELSE "attached"
  /\ handle = FALSE /\ api = FALSE /\ opaque = FALSE
  /\ attached = FALSE
  /\ ioSpace = [p \in Ports |-> 0] /\ access = NoAccess
  /\ step = 0 /\ request = "none" /\ exit = 0
  /\ calls = <<>>

Exports(callback) == api /\ callback \in library.has

(***************************************************************************)
(* What a call of Close makes the library see, before the fields are       *)
(* cleared.                                                                *)
(***************************************************************************)
CloseCalls_Unmapped ==                           \* mutant: dlclose first
  (IF handle THEN <<"dlclose">> ELSE <<>>) \o
  (IF Exports("destroy") THEN <<"destroy">> ELSE <<>>)
CloseCalls ==
  (IF Exports("destroy") THEN <<"destroy">> ELSE <<>>) \o
  (IF handle THEN <<"dlclose">> ELSE <<>>)

ClearFields == handle' = FALSE /\ api' = FALSE /\ opaque' = FALSE

----------------------------------------------------------------------------
(***************************************************************************)
(* Load.  Its first call of Close finds nothing loaded.  When dlopen fails *)
(* the text is asked for twice, the second answer is a null pointer, and   *)
(* the string is assigned from it: the process dies.                       *)
(***************************************************************************)
OpenFails ==
  /\ phase = "open" /\ ~library.opens
  /\ phase' = "crashed"
  /\ UNCHANGED <<library, hostVars, portVars, step, request, exit, calls>>

Open ==
  /\ phase = "open" /\ library.opens
  /\ handle' = TRUE
  /\ phase' = "resolve"
  /\ UNCHANGED <<library, api, opaque, portVars, step, request, exit, calls>>

Fail(seen) ==
  /\ calls' = calls \o seen
  /\ ClearFields
  /\ exit' = 1 /\ phase' = "return"
  /\ UNCHANGED <<library, portVars, step, request>>

Unresolved ==
  /\ phase = "resolve" /\ (~library.exports \/ library.api = "null")
  /\ Fail(CloseCalls)

Resolve ==
  /\ phase = "resolve" /\ library.exports /\ library.api # "null"
  /\ api' = TRUE
  /\ phase' = "version"
  /\ UNCHANGED <<library, handle, opaque, portVars, step, request, exit, calls>>

VersionMismatch ==
  /\ phase = "version" /\ library.api = "mismatch"
  /\ Fail(CloseCalls)

CreateFails ==
  /\ phase = "version" /\ library.api = "match"
  /\ Exports("create") /\ library.creates = "error"
  /\ Fail(<<"create">> \o CloseCalls)

Create ==
  /\ phase = "version" /\ library.api = "match"
  /\ ~(Exports("create") /\ library.creates = "error")
  /\ opaque' = (Exports("create") /\ library.creates = "object")
  /\ calls' = IF Exports("create") THEN Append(calls, "create") ELSE calls
  /\ phase' = "loaded"
  /\ UNCHANGED <<library, handle, api, portVars, step, request, exit>>

----------------------------------------------------------------------------
(***************************************************************************)
(* main, between Load and the trace loop.  A failure returns 1 from main,  *)
(* and the host is closed by its destructor.                               *)
(***************************************************************************)
Attach ==
  /\ phase = "loaded"
  /\ attached' = (handle /\ api)
  /\ phase' = "attached"
  /\ UNCHANGED <<library, hostVars, ioSpace, access, step, request, exit, calls>>

LoadBinary ==
  /\ phase = "attached"
  /\ \/ exit' = 1 /\ phase' = "return"
     \/ exit' = exit /\ phase' = "reset"
  /\ UNCHANGED <<library, hostVars, portVars, step, request, calls>>

Reset ==
  /\ phase = "reset"
  /\ calls' = IF Exports("reset") THEN Append(calls, "reset") ELSE calls
  /\ phase' = "output"
  /\ UNCHANGED <<library, hostVars, portVars, step, request, exit>>

OpenOutput ==
  /\ phase = "output"
  /\ \/ exit' = 1 /\ phase' = "return"
     \/ exit' = exit /\ phase' = "run"
  /\ UNCHANGED <<library, hostVars, portVars, step, request, calls>>

----------------------------------------------------------------------------
(***************************************************************************)
(* The executor's ports.  io_space keeps what crossed a port, and is the   *)
(* default value the plugin is given.                                      *)
(***************************************************************************)
Answers == attached /\ Exports("read_port")
Observes == attached /\ Exports("write_port")

Running == phase = "run" /\ step < MaxSteps

Crossed(kind, p, v) == access' = [kind |-> kind, port |-> p, data |-> v]

ReadPort_Default(p) ==                           \* mutant: the answer is not kept
  /\ Running /\ Len(calls) < MaxCalls
  /\ \E v \in Byte : (Answers \/ v = ioSpace[p]) /\ Crossed("in", p, v)
  /\ calls' = IF Answers THEN Append(calls, "read_port") ELSE calls
  /\ UNCHANGED <<library, phase, hostVars, attached, ioSpace, step, request, exit>>

ReadPort(p) ==
  /\ Running /\ Len(calls) < MaxCalls
  /\ \E v \in Byte :
       /\ Answers \/ v = ioSpace[p]
       /\ ioSpace' = [ioSpace EXCEPT ![p] = IF attached THEN v ELSE @]
       /\ Crossed("in", p, v)
  /\ calls' = IF Answers THEN Append(calls, "read_port") ELSE calls
  /\ UNCHANGED <<library, phase, hostVars, attached, step, request, exit>>

WritePort(p) ==
  /\ Running /\ Len(calls) < MaxCalls
  /\ calls' = IF Observes THEN Append(calls, "write_port") ELSE calls
  /\ \E v \in Byte : ioSpace' = [ioSpace EXCEPT ![p] = v] /\ Crossed("out", p, v)
  /\ UNCHANGED <<library, phase, hostVars, attached, step, request, exit>>

(***************************************************************************)
(* AfterInstruction, once an instruction has retired: a kind that is       *)
(* neither NMI nor INT asks for nothing.                                   *)
(***************************************************************************)
AfterInstruction ==
  /\ Running
  /\ step' = step + 1
  /\ IF Exports("after_instruction")
     THEN /\ calls' = Append(calls, "after_instruction")
          /\ request' \in {"none", "nmi", "int"}
     ELSE request' = "none" /\ UNCHANGED calls
  /\ UNCHANGED <<library, phase, hostVars, portVars, exit>>

EndRun ==
  /\ phase = "run"
  /\ exit' \in {0, 1}
  /\ phase' = "return"
  /\ UNCHANGED <<library, hostVars, portVars, step, request, calls>>

(***************************************************************************)
(* FreeZ80 and the end of main, where the destructor closes the host.      *)
(***************************************************************************)
DestroyHost_Leaked ==                            \* mutant: no Close in the destructor
  /\ phase = "return"
  /\ phase' = "exited"
  /\ attached' = FALSE
  /\ UNCHANGED <<library, hostVars, ioSpace, access, step, request, exit, calls>>
DestroyHost ==
  /\ phase = "return"
  /\ calls' = calls \o CloseCalls
  /\ ClearFields
  /\ attached' = FALSE
  /\ phase' = "exited"
  /\ UNCHANGED <<library, ioSpace, access, step, request, exit>>

Ended == phase \in {"exited", "crashed"} /\ UNCHANGED vars

Next ==
  \/ OpenFails \/ Open \/ Unresolved \/ Resolve \/ VersionMismatch \/ CreateFails \/ Create
  \/ Attach \/ LoadBinary \/ Reset \/ OpenOutput
  \/ (\E p \in Ports : ReadPort(p) \/ WritePort(p)) \/ AfterInstruction \/ EndRun
  \/ DestroyHost \/ Ended

Fairness ==
  /\ WF_vars(OpenFails \/ Open \/ Unresolved \/ Resolve \/ VersionMismatch \/ CreateFails \/ Create)
  /\ WF_vars(Attach \/ LoadBinary \/ Reset \/ OpenOutput \/ DestroyHost)
  /\ WF_vars(EndRun)

Spec == Init /\ [][Next]_vars /\ Fairness

----------------------------------------------------------------------------
(***************************************************************************)
(* The plugin's object is used while it exists: after its creation, before *)
(* its one destruction, of the right version, and never after dlclose.     *)
(* destroy alone is also called for an object that never was, by the Close *)
(* of a version mismatch or of a failed create.                            *)
(***************************************************************************)
Loads ==
  /\ library.given /\ library.opens /\ library.exports /\ library.api = "match"
  /\ "create" \in library.has => library.creates # "error"

Before(i) == {calls[j] : j \in 1 .. i - 1}
Exists(i) == Loads /\ ("create" \in library.has => "create" \in Before(i))

ObjectLife ==
  \A i \in DOMAIN calls :
    /\ Before(i) \cap {"destroy", "dlclose"} # {} => calls[i] = "dlclose"
    /\ calls[i] = "dlclose" => "dlclose" \notin Before(i)
    /\ calls[i] = "destroy" /\ Loads => Exists(i)
    /\ calls[i] \in {"reset", "read_port", "write_port", "after_instruction"} => Exists(i)

(***************************************************************************)
(* "The plugin can override port reads, observe port writes [...]. When no *)
(* plugin is loaded, the tracer falls back to the built-in flat io_space": *)
(* a plugin without read_port, or none, leaves the ports a memory, and one *)
(* with it is remembered by that memory.                                   *)
(***************************************************************************)
Flat == INSTANCE PortMemory WITH
  held <- ioSpace, answers <- Loads /\ "read_port" \in library.has

PortsRemember == Flat!Spec

(***************************************************************************)
(* The program ends, and leaves nothing of a library behind: it is closed, *)
(* an object it created is destroyed, and if it could not be loaded the    *)
(* exit code says so.  A library that does not open ends the program in    *)
(* another way.                                                            *)
(***************************************************************************)
Seen == Before(Len(calls) + 1)

ClosedUp ==
  /\ phase = "exited" /\ ~handle
  /\ library.given => "dlclose" \in Seen
  /\ "create" \in Seen /\ "destroy" \in library.has => "destroy" \in Seen
  /\ library.given /\ ~Loads => exit = 1 /\ "reset" \notin Seen

EndsClosed == <>(ClosedUp \/ (phase = "crashed" /\ ~library.opens))
=============================================================================
