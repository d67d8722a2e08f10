----------------------------- MODULE GdbServer ------------------------------
(***************************************************************************)
(* The GDB server of z80-trace (RunGdbServer and its helpers,              *)
(* src/main.cpp) around the executor, the debugger at the other end of the *)
(* socket, and the byte streams between them.                              *)
(*                                                                         *)
(* A stream is a sequence of units the code reads in one piece: a packet   *)
(* $...#hh, good or with a wrong checksum, an acknowledgement, or the      *)
(* interrupt byte 0x03 that Ctrl-C sends.  TCP loses and reorders nothing. *)
(* The texts of packets are abstracted to what they do to the server.      *)
(*                                                                         *)
(* A resumed target is advanced as the code does it: "head" (the while     *)
(* condition, PollCtrlC, arming), "check" (breakpoints and the call of     *)
(* EmulateZ80Op), "after" (plugin, result).  The debugger acts in between. *)
(***************************************************************************)
EXTENDS Schedule

CONSTANTS
  Sessions,       \* the sequences of commands the debugger may send
  MaxInterrupts,  \* bounds: how many Ctrl-C in one session,
  MaxDamaged      \* and how many packets with a wrong checksum

Ops == {"ask", "bad", "noack", "set", "setbad", "Z", "z", "s", "c", "D", "k"}
AnyAddr == Addr \union {-1}      \* -1: no address given

Command == {c \in [op : Ops, addr : AnyAddr] : c.op \in {"Z", "z"} => c.addr \in Addr}
Commands == UNION {{s[i] : i \in DOMAIN s} : s \in Sessions}

ASSUME SessionsAssumption == Sessions \subseteq Seq(Command)
ASSUME BoundsAssumption == MaxInterrupts \in Nat /\ MaxDamaged \in Nat

VARIABLES
  toServer, toClient,            \* what each side has still to read
  phase, serving,                \* where the server is; the resume it runs
  noAck, breakpoints, initialPc, ignoreInitialBreakpoint,
  exit,                          \* how the session ended
  client,                        \* the debugger (external)
  seen                           \* history, observed by properties only

streams == <<toServer, toClient>>
serverVars == <<phase, serving, noAck, breakpoints, initialPc,
                ignoreInitialBreakpoint, exit>>
vars == <<coreVars, scheduleVars, streams, serverVars, client, seen>>

Packet(c, good) == [unit |-> "packet", command |-> c, good |-> good]
Plus == [unit |-> "+"]
Minus == [unit |-> "-"]
CtrlC == [unit |-> "0x03"]
Reply(text, op) == [unit |-> "reply", text |-> text, to |-> op]

Texts == {"S02", "S04", "S05", "OK", "E01", "data"}
NoCommand == [op |-> "none", addr |-> -1]

ClientUnits == {Plus, Minus, CtrlC} \union {Packet(c, good) : c \in Commands, good \in BOOLEAN}
ServerUnits == {Plus, Minus} \union {Reply(t, op) : t \in Texts, op \in Ops \union {"0x03"}}

(***************************************************************************)
(* The streams carry units, the server and the debugger have their types.  *)
(***************************************************************************)
TypeOK ==
  /\ CoreTypeOK /\ ScheduleTypeOK
  /\ toServer \in Seq(ClientUnits) /\ toClient \in Seq(ServerUnits)
  /\ phase \in {"read", "head", "check", "after", "over"}
  /\ serving \in {"none", "s", "c"}
  /\ noAck \in BOOLEAN
  /\ breakpoints \subseteq Addr
  /\ initialPc \in Addr /\ ignoreInitialBreakpoint \in BOOLEAN
  /\ exit \in {"none", "ok", "error", "killed"}
  /\ client \in [session : Sessions, waiting : {"idle", "ack", "reply", "done"},
                 asked : Commands \union {NoCommand}, noAck : BOOLEAN,
                 connected : BOOLEAN, reset : BOOLEAN, sent : Nat, interrupts : 0 .. MaxInterrupts,
                 damaged : 0 .. MaxDamaged]
  /\ client.sent <= Len(client.session)
  /\ seen \in [moved : BOOLEAN, late : BOOLEAN, refused : BOOLEAN, overrun : Nat]

Init ==
  /\ InitSchedule
  /\ ResetZ80(cfg.entryAddr, cfg.spAddr)
  /\ toServer = <<>> /\ toClient = <<>>
  /\ phase = "read" /\ serving = "none"
  /\ noAck = FALSE /\ breakpoints = {}
  /\ initialPc = cfg.entryAddr /\ ignoreInitialBreakpoint = FALSE
  /\ exit = "none"
  /\ client \in [session : Sessions, waiting : {"idle"}, asked : {NoCommand}, noAck : {FALSE},
                 connected : {TRUE}, reset : {FALSE}, sent : {0}, interrupts : {0}, damaged : {0}]
  /\ seen = [moved |-> FALSE, late |-> FALSE, refused |-> FALSE, overrun |-> 0]

Waiting(unit) == \E i \in DOMAIN toServer : toServer[i] = unit

----------------------------------------------------------------------------
(***************************************************************************)
(* Sending.  What is sent to a debugger that has gone is lost, or the send *)
(* fails, or SIGPIPE, which nothing catches, kills the process.            *)
(***************************************************************************)
Send(units) == toClient' = IF client.connected THEN toClient \o units ELSE <<>>

Ack(unit) == IF noAck THEN <<>> ELSE <<unit>>

Answer(before, reply, next) ==
  \/ /\ Send(before \o <<reply>>)
     /\ phase' = next
     /\ exit' = IF next = "over" THEN "ok" ELSE "none"
  \/ /\ ~client.connected
     /\ phase' = "over" /\ exit' \in {"error", "killed"}
     /\ UNCHANGED toClient

----------------------------------------------------------------------------
(***************************************************************************)
(* ReadPacket.  Acknowledgements are skipped, also those that ask for a    *)
(* reply to be sent again.                                                 *)
(***************************************************************************)
Reads(unit) ==
  /\ phase = "read" /\ toServer # <<>>
  /\ Head(toServer) = unit
  /\ toServer' = Tail(toServer)

SkipAck ==
  /\ Reads(Plus) \/ Reads(Minus)
  /\ UNCHANGED <<coreVars, scheduleVars, toClient, serverVars, client, seen>>

RefuseDamaged ==
  /\ \E c \in Commands : Reads(Packet(c, FALSE))
  /\ Send(Ack(Minus))
  /\ UNCHANGED <<coreVars, scheduleVars, serverVars, client, seen>>

InterruptWhileStopped ==
  /\ Reads(CtrlC)
  /\ Answer(<<>>, Reply("S02", "0x03"), "read")
  /\ UNCHANGED <<coreVars, scheduleVars, serving, noAck, breakpoints, initialPc,
                 ignoreInitialBreakpoint, client, seen>>

EndOfStream ==
  /\ phase = "read" /\ ~client.connected /\ toServer = <<>>
  /\ phase' = "over" /\ exit' = "ok"
  /\ UNCHANGED <<coreVars, scheduleVars, streams, serving, noAck, breakpoints, initialPc,
                 ignoreInitialBreakpoint, client, seen>>

BrokenPipe ==
  /\ phase = "read" /\ ~client.connected /\ ~noAck
  /\ \E c \in Commands, good \in BOOLEAN : Reads(Packet(c, good))
  /\ phase' = "over" /\ exit' = "killed"
  /\ UNCHANGED <<coreVars, scheduleVars, toClient, serving, noAck, breakpoints, initialPc,
                 ignoreInitialBreakpoint, client, seen>>

Accepts(op, c) == c.op = op /\ Reads(Packet(c, TRUE))

(***************************************************************************)
(* Commands that leave the target and the server as they are: questions,   *)
(* memory (what memory holds is abstracted, see Z80Core), unknown packets, *)
(* and packets that do not parse.                                          *)
(***************************************************************************)
Ask(c) ==
  /\ \/ Accepts("ask", c) /\ Answer(Ack(Plus), Reply("data", "ask"), "read")
     \/ Accepts("bad", c) /\ Answer(Ack(Plus), Reply("E01", "bad"), "read")
  /\ UNCHANGED <<coreVars, scheduleVars, serving, noAck, breakpoints, initialPc,
                 ignoreInitialBreakpoint, client, seen>>

NoAckMode_Late == noAck                          \* mutant: the mode is not entered
NoAckMode == TRUE

StartNoAckMode(c) ==
  /\ Accepts("noack", c)
  /\ Answer(Ack(Plus), Reply("OK", "noack"), "read")
  /\ noAck' = NoAckMode
  /\ UNCHANGED <<coreVars, scheduleVars, serving, breakpoints, initialPc,
                 ignoreInitialBreakpoint, client, seen>>

(***************************************************************************)
(* P writes one register, G all of them in the order of the packet: AF,    *)
(* BC, DE, HL, SP, PC, ... IR.  A digit of G that does not parse ends it   *)
(* with an error after the registers in front of it were written.          *)
(***************************************************************************)
WriteRegisters(c) ==
  /\ Accepts("set", c)
  /\ Answer(Ack(Plus), Reply("OK", "set"), "read")
  /\ \/ pc' = c.addr /\ c.addr \in Addr /\ UNCHANGED <<sp, r, regs>>
     \/ sp' \in Targets /\ UNCHANGED <<pc, r, regs>>
     \/ regs' \in Regs /\ UNCHANGED <<pc, sp, r>>
     \/ r' \in 0 .. RefreshMod - 1 /\ regs' \in Regs /\ UNCHANGED <<pc, sp>>
     \/ /\ pc' = c.addr /\ c.addr \in Addr                          \* G
        /\ sp' \in Targets /\ r' \in 0 .. RefreshMod - 1 /\ regs' \in Regs
  /\ UNCHANGED <<im, iff1, iff2, ei_pending, halted, last, latches, scheduleVars, serving,
                 noAck, breakpoints, initialPc, ignoreInitialBreakpoint, client, seen>>

WriteSomeRegisters(c) ==
  /\ Accepts("setbad", c)
  /\ Answer(Ack(Plus), Reply("E01", "setbad"), "read")
  /\ regs' \in Regs
  /\ sp' \in {sp} \union Targets
  /\ pc' \in {pc} \union (IF c.addr \in Addr THEN {c.addr} ELSE {})
  /\ UNCHANGED <<r, im, iff1, iff2, ei_pending, halted, last, latches, scheduleVars,
                 serving, noAck, breakpoints, initialPc, ignoreInitialBreakpoint, client, seen>>

SetBreakpoint(c) ==
  /\ \/ /\ Accepts("Z", c)
        /\ Answer(Ack(Plus), Reply("OK", "Z"), "read")
        /\ breakpoints' = breakpoints \union {c.addr}
     \/ /\ Accepts("z", c)
        /\ Answer(Ack(Plus), Reply("OK", "z"), "read")
        /\ breakpoints' = breakpoints \ {c.addr}
  /\ UNCHANGED <<coreVars, scheduleVars, serving, noAck, initialPc, ignoreInitialBreakpoint,
                 client, seen>>

EndSession(c) ==
  /\ \/ Accepts("D", c) /\ Answer(Ack(Plus), Reply("OK", "D"), "over")
     \/ Accepts("k", c) /\ Send(Ack(Plus)) /\ phase' = "over" /\ exit' = "ok"
  /\ UNCHANGED <<coreVars, scheduleVars, serving, noAck, breakpoints, initialPc,
                 ignoreInitialBreakpoint, client, seen>>

----------------------------------------------------------------------------
(***************************************************************************)
(* Resuming: StepDebug makes one round, ContinueDebug as many as it takes. *)
(***************************************************************************)
Resume(c) ==
  /\ Accepts("s", c) \/ Accepts("c", c)
  /\ Send(Ack(Plus))
  /\ phase' = "head" /\ serving' = c.op
  /\ pc' = IF c.addr \in Addr THEN c.addr ELSE pc
  /\ IF c.op = "c"
     THEN initialPc' = pc' /\ ignoreInitialBreakpoint' = TRUE
     ELSE UNCHANGED <<initialPc, ignoreInitialBreakpoint>>
  /\ seen' = [seen EXCEPT !.moved = FALSE, !.overrun = 0]
  /\ UNCHANGED <<sp, r, im, iff1, iff2, ei_pending, halted, regs, last, latches, scheduleVars,
                 noAck, breakpoints, exit, client>>

(***************************************************************************)
(* The stop reply of the resume being served.                              *)
(***************************************************************************)
Stops(text) ==
  /\ Answer(<<>>, Reply(text, serving), "read")
  /\ serving' = "none"
  /\ UNCHANGED <<noAck, breakpoints, initialPc>>

Unread == Cardinality({i \in DOMAIN toServer : toServer[i] = CtrlC})
SeenAtStop(taken) == [seen EXCEPT !.late = @ \/ Unread > taken]

ContinuesAt(p) ==
  /\ phase' = p
  /\ UNCHANGED <<toClient, serving, noAck, breakpoints, initialPc, exit>>

(***************************************************************************)
(* Only the first unit of the stream is looked at.  The end of the stream  *)
(* is no error of recv and goes unnoticed; a reset connection is one.      *)
(***************************************************************************)
TakeUnit_Peek(s) == s                            \* mutant: looked at, not taken
TakeUnit(s) == Tail(s)

Polls_FirstRound == ignoreInitialBreakpoint      \* mutant: not in every round
Polls == TRUE

CtrlCIsNext == toServer # <<>> /\ Head(toServer) = CtrlC

PollCtrlC ==
  \/ CtrlCIsNext /\ toServer' = TakeUnit(toServer)
  \/ client.reset /\ UNCHANGED toServer

NothingPolled == Polls => ~client.reset /\ ~CtrlCIsNext

StepsLeft_Ignored == TRUE                        \* mutant: no step limit
StepsLeft == step < cfg.maxSteps

ReachMaxSteps ==
  /\ phase = "head" /\ serving = "c" /\ ~StepsLeft
  /\ UNCHANGED toServer
  /\ Stops("S05") /\ seen' = SeenAtStop(0)
  /\ UNCHANGED <<coreVars, scheduleVars, ignoreInitialBreakpoint, client>>

Interrupted ==
  /\ phase = "head" /\ serving = "c" /\ StepsLeft
  /\ Polls /\ PollCtrlC
  /\ Stops("S02") /\ seen' = SeenAtStop(1)
  /\ UNCHANGED <<coreVars, scheduleVars, ignoreInitialBreakpoint, client>>

(***************************************************************************)
(* A halted target that only a timer can wake lets the clock run: a step   *)
(* is over with that, continue goes round again.                           *)
(***************************************************************************)
ArmAndWait ==
  /\ phase = "head"
  /\ serving = "c" => StepsLeft /\ NothingPolled
  /\ ArmRequests
  /\ UNCHANGED toServer
  /\ \/ /\ IdleWait /\ serving = "s"
        /\ tstates' = tstates + IdleClock
        /\ Stops("S05") /\ seen' = SeenAtStop(0)
     \/ /\ IdleWait /\ serving = "c"
        /\ tstates' = tstates + IdleClock
        /\ ContinuesAt("head") /\ UNCHANGED seen
     \/ /\ ~IdleWait
        /\ UNCHANGED tstates
        /\ ContinuesAt("check") /\ UNCHANGED seen
  /\ UNCHANGED <<ignoreInitialBreakpoint, client>>

(***************************************************************************)
(* The breakpoint continue starts on is passed once.                       *)
(***************************************************************************)
IgnoreAfterCall_Kept == ignoreInitialBreakpoint  \* mutant: passed every time
IgnoreAfterCall == FALSE

AtBreakpoint ==
  /\ serving = "c" /\ halted = 0 /\ pc \in breakpoints
  /\ ~(ignoreInitialBreakpoint /\ pc = initialPc)

HitBreakpoint ==
  /\ phase = "check" /\ AtBreakpoint
  /\ UNCHANGED toServer
  /\ Stops("S05") /\ seen' = SeenAtStop(0)
  /\ UNCHANGED <<coreVars, scheduleVars, ignoreInitialBreakpoint, client>>

CallOnce ==
  /\ phase = "check" /\ ~AtBreakpoint
  /\ CallExecutor
  /\ ContinuesAt("after")
  /\ ignoreInitialBreakpoint' =
       IF serving = "c" THEN IgnoreAfterCall ELSE ignoreInitialBreakpoint
  /\ seen' = [seen EXCEPT !.moved = TRUE,
                          !.overrun = @ + (IF Waiting(CtrlC) THEN 1 ELSE 0)]
  /\ UNCHANGED <<toServer, client>>

(***************************************************************************)
(* ContinueDebug stops for a halt that nothing can end.                    *)
(***************************************************************************)
MayWake == Pending' \/ HasFutureInterrupts \/ HasActiveTimers

RoundOver ==
  /\ phase = "after"
  /\ ArmPluginInterrupt
  /\ UNCHANGED toServer
  /\ CASE ResultIsUnimplemented -> Stops("S04") /\ seen' = SeenAtStop(0)
       [] ~ResultIsUnimplemented /\ (serving = "s" \/ (ResultIsHalt /\ ~MayWake)) ->
            Stops("S05") /\ seen' = SeenAtStop(0)
       [] OTHER -> ContinuesAt("head") /\ UNCHANGED seen
  /\ UNCHANGED <<scheduleVars, ignoreInitialBreakpoint, client>>

Server ==
  \/ SkipAck \/ RefuseDamaged \/ InterruptWhileStopped \/ EndOfStream \/ BrokenPipe
  \/ \E c \in Commands :
       \/ Ask(c) \/ StartNoAckMode(c) \/ WriteRegisters(c) \/ WriteSomeRegisters(c)
       \/ SetBreakpoint(c) \/ EndSession(c) \/ Resume(c)
  \/ ReachMaxSteps \/ Interrupted \/ ArmAndWait \/ HitBreakpoint \/ CallOnce \/ RoundOver

----------------------------------------------------------------------------
(***************************************************************************)
(* The debugger, as far as the protocol binds it: it sends one command and *)
(* waits for its answer, sends a refused packet again, acknowledges every  *)
(* reply or refuses it, sends Ctrl-C only while a continue is running as   *)
(* far as it can know, and may go away at any time.                        *)
(***************************************************************************)
Idle(cl) == [cl EXCEPT !.waiting = "idle", !.asked = NoCommand]

SendCommand ==
  /\ client.connected /\ client.waiting = "idle" /\ client.sent < Len(client.session)
  /\ LET c == client.session[client.sent + 1]
     IN \E good \in BOOLEAN :
          /\ good \/ (~client.noAck /\ client.damaged < MaxDamaged)
          /\ toServer' = Append(toServer, Packet(c, good))
          /\ client' = [client EXCEPT
               !.asked = c, !.sent = @ + 1, !.damaged = @ + (IF good THEN 0 ELSE 1),
               !.waiting = IF ~client.noAck THEN "ack" ELSE IF c.op = "k" THEN "done" ELSE "reply"]
  /\ UNCHANGED <<coreVars, scheduleVars, toClient, serverVars, seen>>

SendCtrlC ==
  /\ client.connected /\ client.waiting = "reply" /\ client.asked.op = "c"
  /\ client.interrupts < MaxInterrupts
  /\ toServer' = Append(toServer, CtrlC)
  /\ client' = [client EXCEPT !.interrupts = @ + 1]
  /\ seen' = [seen EXCEPT !.late = @ \/ (serving = "none" /\ ~Waiting(Packet(client.asked, TRUE)))]
  /\ UNCHANGED <<coreVars, scheduleVars, toClient, serverVars>>

Receives(unit) ==
  /\ client.connected /\ client.waiting \in {"ack", "reply"}
  /\ toClient # <<>> /\ Head(toClient) = unit
  /\ toClient' = Tail(toClient)

GetsAck ==
  /\ Receives(Plus)
  /\ client' = IF client.waiting = "ack"
               THEN [client EXCEPT !.waiting = IF client.asked.op = "k" THEN "done" ELSE "reply"]
               ELSE client
  /\ UNCHANGED <<coreVars, scheduleVars, toServer, serverVars, seen>>

SendAgain ==
  /\ Receives(Minus)
  /\ toServer' = IF client.waiting = "ack"
                 THEN Append(toServer, Packet(client.asked, TRUE)) ELSE toServer
  /\ UNCHANGED <<coreVars, scheduleVars, serverVars, client, seen>>

(***************************************************************************)
(* A reply that comes before the acknowledgement of the command is dropped.*)
(***************************************************************************)
GetsReply ==
  \E text \in Texts, op \in Ops \union {"0x03"} :
    /\ Receives(Reply(text, op))
    /\ \/ /\ client.waiting = "ack"
          /\ UNCHANGED <<toServer, client, seen>>
       \/ /\ client.waiting = "reply"
          /\ toServer' = IF client.noAck THEN toServer ELSE Append(toServer, Plus)
          /\ client' = CASE client.asked.op = "D" -> [client EXCEPT !.waiting = "done"]
                         [] client.asked.op = "noack" -> [Idle(client) EXCEPT !.noAck = TRUE]
                         [] OTHER -> Idle(client)
          /\ UNCHANGED seen
       \/ /\ client.waiting = "reply" /\ ~client.noAck
          /\ toServer' = Append(toServer, Minus)
          /\ seen' = [seen EXCEPT !.refused = TRUE]
          /\ UNCHANGED client
    /\ UNCHANGED <<coreVars, scheduleVars, serverVars>>

Disconnect ==
  /\ client.connected
  /\ client' = [client EXCEPT !.connected = FALSE, !.waiting = "done"]
  /\ toClient' = <<>>
  /\ UNCHANGED <<coreVars, scheduleVars, toServer, serverVars, seen>>

(***************************************************************************)
(* The connection of a debugger that has gone may be reset, by what it had *)
(* not read or by what is sent to it; what the server has not read is lost.*)
(***************************************************************************)
Reset ==
  /\ ~client.connected /\ ~client.reset
  /\ client' = [client EXCEPT !.reset = TRUE]
  /\ toServer' = <<>>
  /\ UNCHANGED <<coreVars, scheduleVars, toClient, serverVars, seen>>

ClientReads == GetsAck \/ SendAgain \/ GetsReply

Client == SendCommand \/ SendCtrlC \/ ClientReads \/ Disconnect \/ Reset

Over == phase = "over" /\ UNCHANGED vars

Next == Server \/ Client \/ Over

(***************************************************************************)
(* The server's thread keeps running, and the debugger reads what comes.   *)
(***************************************************************************)
Spec == Init /\ [][Next]_vars /\ WF_vars(Server) /\ WF_vars(ClientReads)

----------------------------------------------------------------------------
(***************************************************************************)
(* What the debugger takes for the answer to its command is one: there is  *)
(* at most one reply on the way, made for the command it waits for, and    *)
(* none when it waits for nothing.  Only a Ctrl-C that was still unread    *)
(* when the target had stopped breaks this: ReadPacket answers it with a   *)
(* stop of its own.                                                        *)
(***************************************************************************)
IsReply(u) == u.unit = "reply"

AnswersMatch ==
  client.connected /\ ~seen.late =>
    \A i \in DOMAIN toClient : IsReply(toClient[i]) =>
      /\ toClient[i].to = client.asked.op /\ client.waiting \in {"ack", "reply"}
      /\ \A j \in DOMAIN toClient : IsReply(toClient[j]) => j = i

(***************************************************************************)
(* The two sides agree when acknowledgements end: the server sends none    *)
(* behind the OK to QStartNoAckMode, and the one it owes for that packet   *)
(* is in front of it.                                                      *)
(***************************************************************************)
AckModeAgreed ==
  client.connected =>
    /\ client.noAck => noAck /\ \A i \in DOMAIN toClient : IsReply(toClient[i])
    /\ client.waiting = "reply" /\ ~client.noAck =>
         \A i \in DOMAIN toClient : IsReply(toClient[i])

(***************************************************************************)
(* Continue executes no instruction at a breakpoint, except that the first *)
(* call may be the instruction it was told to continue from; interrupts,   *)
(* timers and a halt in between change nothing about this.                 *)
(***************************************************************************)
BreakpointHolds ==
  [][serving = "c" /\ phase = "check" /\ phase' = "after" /\ last' \in InstrKinds
       => pc \notin breakpoints \/ ~seen.moved]_vars

(***************************************************************************)
(* The Ctrl-C of a debugger that waits for the stop takes effect before    *)
(* two more instructions are executed.  Once a Ctrl-C has come too late    *)
(* the two sides are an answer apart: without acknowledgements the next    *)
(* command may then lie in front of the next Ctrl-C, and continue, which   *)
(* looks at the first unit only, runs on.                                  *)
(***************************************************************************)
PromptInterrupt == ~seen.late => seen.overrun <= 1

(***************************************************************************)
(* Every command is answered, or the debugger has refused a reply (which   *)
(* the server never sends again) or gone away.                             *)
(***************************************************************************)
Answered ==
  client.waiting \in {"ack", "reply"} ~>
    client.waiting \in {"idle", "done"} \/ seen.refused

(***************************************************************************)
(* A debugger that has gone leaves no server behind, although a continue   *)
(* need not notice: its step limit ends it.                                *)
(***************************************************************************)
SessionEnds == ~client.connected ~> phase = "over"
=============================================================================
