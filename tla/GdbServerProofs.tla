-------------------------- MODULE GdbServerProofs ---------------------------
(***************************************************************************)
(* The GDB server and its debugger, for every command line, every session, *)
(* any number of Ctrl-C and of damaged packets: the types, the pairing of  *)
(* answers with commands, the end of acknowledgements, breakpoints, the    *)
(* promptness of Ctrl-C, and the interrupt contract of the executor.       *)
(***************************************************************************)
EXTENDS GdbServer, ScheduleLemmas, SequenceTheorems, FiniteSetTheorems

USE DEF ScheduleTypeOK, CallExecutor

----------------------------------------------------------------------------
(***************************************************************************)
(* Units.  Every kind of unit is told apart from the others.               *)
(***************************************************************************)
LEMMA UnitsDiffer ==
  /\ Plus # Minus /\ Plus # CtrlC /\ Minus # CtrlC
  /\ Plus.unit = "+" /\ Minus.unit = "-" /\ CtrlC.unit = "0x03"
  /\ \A c, good : Packet(c, good).unit = "packet" /\ Packet(c, good).command = c
                  /\ Packet(c, good).good = good
  /\ \A t, op : Reply(t, op).unit = "reply" /\ Reply(t, op).to = op /\ Reply(t, op).text = t
BY DEF Plus, Minus, CtrlC, Packet, Reply

(***************************************************************************)
(* Taking the first unit off a stream, and putting one or two at its end.  *)
(***************************************************************************)
LEMMA TailUnits ==
  ASSUME NEW S, NEW s \in Seq(S), s # <<>>
  PROVE /\ Head(s) = s[1] /\ Head(s) \in S
        /\ Tail(s) \in Seq(S) /\ Len(Tail(s)) = Len(s) - 1 /\ Len(s) \in Nat \ {0}
        /\ \A i \in 1 .. Len(Tail(s)) : Tail(s)[i] = s[i + 1] /\ i + 1 \in 1 .. Len(s)
OBVIOUS

(***************************************************************************)
(* Putting a unit behind a stream leaves the others where they were.       *)
(***************************************************************************)
LEMMA AppendUnit ==
  ASSUME NEW S, NEW s \in Seq(S), NEW u \in S
  PROVE /\ Append(s, u) \in Seq(S) /\ Len(Append(s, u)) = Len(s) + 1 /\ Len(s) \in Nat
        /\ \A i \in 1 .. Len(s) : Append(s, u)[i] = s[i]
        /\ Append(s, u)[Len(s) + 1] = u
OBVIOUS

(***************************************************************************)
(* Sending nothing changes no stream.                                      *)
(***************************************************************************)
LEMMA EmptyConcat ==
  ASSUME NEW S, NEW s \in Seq(S) PROVE <<>> \o s = s /\ s \o <<>> = s
BY ConcatEmptySeq

----------------------------------------------------------------------------
(***************************************************************************)
(* Types.                                                                  *)
(***************************************************************************)
LEMMA CommandFields ==
  ASSUME NEW c \in Commands
  PROVE /\ c.op \in Ops /\ c.addr \in AnyAddr
        /\ c.op \in {"Z", "z"} => c.addr \in Addr
<1>1. PICK s \in Sessions : c \in {s[i] : i \in DOMAIN s}
  BY DEF Commands
<1>2. s \in Seq(Command)
  BY SessionsAssumption
<1>3. c \in Command
  BY <1>1, <1>2
<1> QED BY <1>3 DEF Command

ClientType ==
  [session : Sessions, waiting : {"idle", "ack", "reply", "done"},
   asked : Commands \union {NoCommand}, noAck : BOOLEAN,
   connected : BOOLEAN, reset : BOOLEAN, sent : Nat, interrupts : 0 .. MaxInterrupts,
   damaged : 0 .. MaxDamaged]

(***************************************************************************)
(* The next command of a session is a command.                             *)
(***************************************************************************)
LEMMA NextCommand ==
  ASSUME client \in ClientType, client.sent < Len(client.session)
  PROVE client.session[client.sent + 1] \in Commands
<1>1. client.session \in Sessions /\ client.session \in Seq(Command) /\ client.sent \in Nat
  BY SessionsAssumption DEF ClientType
<1>2. client.sent + 1 \in DOMAIN client.session
  BY <1>1
<1> QED BY <1>1, <1>2 DEF Commands

(***************************************************************************)
(* What either side puts into a stream are units of that stream.           *)
(***************************************************************************)
LEMMA UnitTypes ==
  /\ Plus \in ClientUnits /\ Minus \in ClientUnits /\ CtrlC \in ClientUnits
  /\ \A c \in Commands, good \in BOOLEAN : Packet(c, good) \in ClientUnits
  /\ Plus \in ServerUnits /\ Minus \in ServerUnits
  /\ Ack(Plus) \in Seq(ServerUnits) /\ Ack(Minus) \in Seq(ServerUnits)
  /\ \A t \in Texts, op \in Ops \union {"0x03"} : Reply(t, op) \in ServerUnits
<1>1. /\ Plus \in ClientUnits /\ Minus \in ClientUnits /\ CtrlC \in ClientUnits
      /\ \A c \in Commands, good \in BOOLEAN : Packet(c, good) \in ClientUnits
  BY DEF ClientUnits
<1>2. /\ Plus \in ServerUnits /\ Minus \in ServerUnits
      /\ \A t \in Texts, op \in Ops \union {"0x03"} : Reply(t, op) \in ServerUnits
  BY DEF ServerUnits
<1>3. Ack(Plus) \in Seq(ServerUnits) /\ Ack(Minus) \in Seq(ServerUnits)
  BY <1>2 DEF Ack
<1> QED BY <1>1, <1>2, <1>3

(***************************************************************************)
(* Reading takes a unit off, sending adds units.                           *)
(***************************************************************************)
LEMMA ReadsType ==
  ASSUME toServer \in Seq(ClientUnits), NEW u, Reads(u)
  PROVE toServer' \in Seq(ClientUnits) /\ phase = "read"
BY DEF Reads

(***************************************************************************)
(* What is sent are units; to a debugger that has gone, none.              *)
(***************************************************************************)
LEMMA SendType ==
  ASSUME toClient \in Seq(ServerUnits), NEW units \in Seq(ServerUnits), Send(units)
  PROVE toClient' \in Seq(ServerUnits)
BY DEF Send

Phases == {"read", "head", "check", "after", "over"}
Exits == {"none", "ok", "error", "killed"}

(***************************************************************************)
(* An answer leads to the phase it names, or ends the session.             *)
(***************************************************************************)
LEMMA AnswerType ==
  ASSUME toClient \in Seq(ServerUnits), NEW before \in Seq(ServerUnits),
         NEW t \in Texts, NEW op \in Ops \union {"0x03"}, NEW next \in Phases,
         Answer(before, Reply(t, op), next)
  PROVE toClient' \in Seq(ServerUnits) /\ phase' \in {next, "over"} /\ exit' \in Exits
<1>1. before \o <<Reply(t, op)>> \in Seq(ServerUnits)
  BY UnitTypes
<1>2. CASE Send(before \o <<Reply(t, op)>>) /\ phase' = next /\ exit' \in {"ok", "none"}
  BY <1>1, <1>2, SendType DEF Exits
<1>3. CASE UNCHANGED toClient /\ phase' = "over" /\ exit' \in {"error", "killed"}
  BY <1>3 DEF Exits
<1> QED BY <1>2, <1>3 DEF Answer

(***************************************************************************)
(* The type invariant, part by part.                                       *)
(***************************************************************************)
ServerType ==
  /\ phase \in Phases /\ exit \in Exits
  /\ serving \in {"none", "s", "c"}
  /\ noAck \in BOOLEAN /\ breakpoints \subseteq Addr
  /\ initialPc \in Addr /\ ignoreInitialBreakpoint \in BOOLEAN

StreamType == toServer \in Seq(ClientUnits) /\ toClient \in Seq(ServerUnits)

SeenType == seen \in [moved : BOOLEAN, late : BOOLEAN, refused : BOOLEAN, overrun : Nat]

ClientTypeOK == client \in ClientType /\ client.sent <= Len(client.session)

(***************************************************************************)
(* TypeOK is the conjunction of these parts, in a state and in its         *)
(* successor.                                                              *)
(***************************************************************************)
LEMMA TypeParts ==
  /\ TypeOK => CoreTypeOK /\ ScheduleTypeOK /\ StreamType /\ ServerType /\ ClientTypeOK /\ SeenType
  /\ CoreTypeOK /\ ScheduleTypeOK /\ StreamType /\ ServerType /\ ClientTypeOK /\ SeenType => TypeOK
  /\ CoreTypeOK' /\ ScheduleTypeOK' /\ StreamType' /\ ServerType' /\ ClientTypeOK' /\ SeenType'
       => TypeOK'
BY DEF TypeOK, ServerType, StreamType, SeenType, ClientTypeOK, ClientType, Phases, Exits

(***************************************************************************)
(* The state the server is started in is well typed.                       *)
(***************************************************************************)
LEMMA InitType == Init => TypeOK
<1> SUFFICES ASSUME Init PROVE TypeOK OBVIOUS
<1>1. CoreTypeOK /\ ScheduleTypeOK
  BY InitScheduleType DEF Init
<1>2. cfg.entryAddr \in Addr
  BY <1>1, ConfigFields
<1>3. ServerType /\ SeenType
  BY <1>2 DEF Init, ServerType, SeenType, Phases, Exits
<1>6. StreamType
  BY DEF Init, StreamType
<1>4. client \in ClientType /\ client.sent = 0
  <2>1. client \in [session : Sessions, waiting : {"idle"}, asked : {NoCommand},
                    noAck : {FALSE}, connected : {TRUE}, reset : {FALSE}, sent : {0},
                    interrupts : {0}, damaged : {0}]
    BY DEF Init
  <2>2. 0 \in 0 .. MaxInterrupts /\ 0 \in 0 .. MaxDamaged
    BY BoundsAssumption
  <2>3. PICK s \in Sessions :
          client = [session |-> s, waiting |-> "idle", asked |-> NoCommand, noAck |-> FALSE,
                    connected |-> TRUE, reset |-> FALSE, sent |-> 0, interrupts |-> 0,
                    damaged |-> 0]
    BY <2>1
  <2> QED BY <2>2, <2>3 DEF ClientType
<1>5. client.sent <= Len(client.session)
  BY <1>4, SessionsAssumption DEF ClientType
<1> QED BY <1>1, <1>3, <1>4, <1>5, <1>6, TypeParts DEF ClientTypeOK

(***************************************************************************)
(* Reading a packet and answering it keeps the types of streams and server.*)
(***************************************************************************)
LEMMA CommandType ==
  ASSUME StreamType, NEW c \in Commands, NEW op \in Ops, Accepts(op, c),
         NEW t \in Texts, NEW next \in Phases, Answer(Ack(Plus), Reply(t, op), next)
  PROVE StreamType' /\ phase' \in Phases /\ exit' \in Exits
<1> USE DEF StreamType
<1>1. toServer' \in Seq(ClientUnits)
  BY ReadsType DEF Accepts
<1>2. toClient' \in Seq(ServerUnits) /\ phase' \in Phases /\ exit' \in Exits
  BY AnswerType, UnitTypes DEF Phases
<1> QED BY <1>1, <1>2

(***************************************************************************)
(* So does the reply that ends a resume.                                   *)
(***************************************************************************)
LEMMA StopsType ==
  ASSUME ServerType, toClient \in Seq(ServerUnits), NEW t \in Texts, Stops(t), serving # "none"
  PROVE /\ toClient' \in Seq(ServerUnits) /\ phase' \in Phases /\ exit' \in Exits
        /\ serving' = "none" /\ UNCHANGED <<noAck, breakpoints, initialPc>>
<1>1. serving \in Ops
  BY DEF ServerType, Ops
<1>2. <<>> \in Seq(ServerUnits)
  OBVIOUS
<1> QED BY <1>1, <1>2, AnswerType DEF Stops, Phases

(***************************************************************************)
(* What is remembered of a stop.                                           *)
(***************************************************************************)
LEMMA SeenAtStopType ==
  ASSUME SeenType, NEW taken, seen' = SeenAtStop(taken) PROVE SeenType'
BY DEF SeenType, SeenAtStop

----------------------------------------------------------------------------
(***************************************************************************)
(* What a step leaves alone keeps its type.                                *)
(***************************************************************************)
LEMMA PartsKept ==
  /\ CoreTypeOK /\ UNCHANGED coreVars => CoreTypeOK'
  /\ ScheduleTypeOK /\ UNCHANGED scheduleVars => ScheduleTypeOK'
  /\ ServerType /\ UNCHANGED serverVars => ServerType'
  /\ StreamType /\ UNCHANGED streams => StreamType'
  /\ ClientTypeOK /\ UNCHANGED client => ClientTypeOK'
  /\ SeenType /\ UNCHANGED seen => SeenType'
<1>1. CoreTypeOK /\ UNCHANGED coreVars => CoreTypeOK'
  BY DEF coreVars, latches, CoreTypeOK
<1>2. ScheduleTypeOK /\ UNCHANGED scheduleVars => ScheduleTypeOK'
  BY DEF scheduleVars
<1>3. ServerType /\ UNCHANGED serverVars => ServerType'
  BY DEF serverVars, ServerType
<1>4. StreamType /\ UNCHANGED streams => StreamType'
  BY DEF streams, StreamType
<1>5. ClientTypeOK /\ UNCHANGED client => ClientTypeOK'
  BY DEF ClientTypeOK
<1>6. SeenType /\ UNCHANGED seen => SeenType'
  BY DEF SeenType
<1> QED BY <1>1, <1>2, <1>3, <1>4, <1>5, <1>6

(***************************************************************************)
(* Reading without a command: acknowledgements, Ctrl-C, damaged packets,   *)
(* the end of the stream.                                                  *)
(***************************************************************************)
LEMMA ReadingType ==
  ASSUME TypeOK,
         SkipAck \/ RefuseDamaged \/ InterruptWhileStopped \/ EndOfStream \/ BrokenPipe
  PROVE TypeOK'
<1> USE TypeParts DEF StreamType, ServerType, Phases, Exits
<1>1. CASE SkipAck
  BY <1>1, ReadsType, PartsKept DEF SkipAck
<1>2. CASE RefuseDamaged
  <2>1. toServer' \in Seq(ClientUnits) /\ toClient' \in Seq(ServerUnits)
    BY <1>2, ReadsType, SendType, UnitTypes DEF RefuseDamaged
  <2> QED BY <1>2, <2>1, PartsKept DEF RefuseDamaged
<1>3. CASE InterruptWhileStopped
  <2>1. toServer' \in Seq(ClientUnits)
    BY <1>3, ReadsType DEF InterruptWhileStopped
  <2>2. toClient' \in Seq(ServerUnits) /\ phase' \in {"read", "over"} /\ exit' \in Exits
    <3>1. Answer(<<>>, Reply("S02", "0x03"), "read") /\ toClient \in Seq(ServerUnits)
      BY <1>3 DEF InterruptWhileStopped
    <3>2. <<>> \in Seq(ServerUnits) /\ "S02" \in Texts /\ "read" \in Phases
      BY DEF Texts
    <3> QED BY <3>1, <3>2, AnswerType
  <2> QED BY <1>3, <2>1, <2>2, PartsKept DEF InterruptWhileStopped
<1>4. CASE EndOfStream
  BY <1>4, PartsKept DEF EndOfStream, streams
<1>5. CASE BrokenPipe
  BY <1>5, ReadsType, PartsKept DEF BrokenPipe
<1> QED BY <1>1, <1>2, <1>3, <1>4, <1>5

(***************************************************************************)
(* The commands that are answered at once.                                 *)
(***************************************************************************)
LEMMA CommandsType ==
  ASSUME TypeOK, NEW c \in Commands,
         \/ Ask(c) \/ StartNoAckMode(c) \/ WriteRegisters(c) \/ WriteSomeRegisters(c)
         \/ SetBreakpoint(c) \/ EndSession(c)
  PROVE TypeOK'
<1> USE TypeParts DEF Texts, Ops, Phases
<1>1. CASE Ask(c)
  <2>1. StreamType' /\ phase' \in Phases /\ exit' \in Exits
    BY <1>1, CommandType DEF Ask
  <2> QED BY <1>1, <2>1, PartsKept DEF Ask, ServerType
<1>2. CASE StartNoAckMode(c)
  <2>1. StreamType' /\ phase' \in Phases /\ exit' \in Exits
    BY <1>2, CommandType DEF StartNoAckMode
  <2> QED BY <1>2, <2>1, PartsKept DEF StartNoAckMode, NoAckMode, ServerType
<1>3. CASE WriteRegisters(c)
  <2>1. StreamType' /\ phase' \in Phases /\ exit' \in Exits
    BY <1>3, CommandType DEF WriteRegisters
  <2>2. CoreTypeOK'
    BY <1>3, TargetsAssumption DEF WriteRegisters, CoreTypeOK, latches
  <2> QED BY <1>3, <2>1, <2>2, PartsKept DEF WriteRegisters, ServerType
<1>4. CASE WriteSomeRegisters(c)
  <2>1. StreamType' /\ phase' \in Phases /\ exit' \in Exits
    BY <1>4, CommandType DEF WriteSomeRegisters
  <2>2. CoreTypeOK'
    BY <1>4, TargetsAssumption DEF WriteSomeRegisters, CoreTypeOK, latches
  <2> QED BY <1>4, <2>1, <2>2, PartsKept DEF WriteSomeRegisters, ServerType
<1>5. CASE SetBreakpoint(c)
  <2>1. StreamType' /\ phase' \in Phases /\ exit' \in Exits
    BY <1>5, CommandType DEF SetBreakpoint
  <2>2. breakpoints' \subseteq Addr
    <3>1. c.op \in {"Z", "z"} /\ breakpoints' \subseteq breakpoints \union {c.addr}
      BY <1>5 DEF SetBreakpoint, Accepts
    <3>2. breakpoints \subseteq Addr /\ c.addr \in Addr
      BY <3>1, CommandFields DEF ServerType
    <3> QED BY <3>1, <3>2
  <2> QED BY <1>5, <2>1, <2>2, PartsKept DEF SetBreakpoint, ServerType
<1>6. CASE EndSession(c)
  <2>1. StreamType' /\ phase' \in Phases /\ exit' \in Exits
    <3>1. CASE Accepts("D", c) /\ Answer(Ack(Plus), Reply("OK", "D"), "over")
      BY <3>1, CommandType
    <3>2. CASE Accepts("k", c) /\ Send(Ack(Plus)) /\ phase' = "over" /\ exit' = "ok"
      BY <3>2, ReadsType, SendType, UnitTypes DEF Accepts, StreamType, Exits
    <3> QED BY <1>6, <3>1, <3>2 DEF EndSession
  <2> QED BY <1>6, <2>1, PartsKept DEF EndSession, ServerType
<1> QED BY <1>1, <1>2, <1>3, <1>4, <1>5, <1>6

(***************************************************************************)
(* Starting a resume.                                                      *)
(***************************************************************************)
LEMMA ResumeType ==
  ASSUME TypeOK, NEW c \in Commands, Resume(c) PROVE TypeOK'
<1> USE TypeParts
<1>1. c.op \in {"s", "c"} /\ toServer' \in Seq(ClientUnits)
  BY ReadsType DEF Resume, Accepts, StreamType
<1>2. toClient' \in Seq(ServerUnits)
  BY SendType, UnitTypes DEF Resume, StreamType
<1>3. pc' \in Addr
  BY DEF Resume, CoreTypeOK
<1>4. CoreTypeOK'
  BY <1>3 DEF Resume, CoreTypeOK, latches
<1>5. ServerType'
  BY <1>1, <1>3 DEF Resume, ServerType, Phases
<1>6. SeenType'
  BY DEF Resume, SeenType
<1> QED BY <1>1, <1>2, <1>4, <1>5, <1>6, PartsKept DEF Resume, StreamType

(***************************************************************************)
(* The loops of a resumed target.                                          *)
(***************************************************************************)
LEMMA StoppingType ==
  ASSUME TypeOK, ReachMaxSteps \/ Interrupted \/ HitBreakpoint PROVE TypeOK'
<1> USE TypeParts DEF Texts, StreamType
<1>1. CASE ReachMaxSteps
  <2>1. Stops("S05") /\ serving # "none"
    BY <1>1 DEF ReachMaxSteps
  <2>2. toClient' \in Seq(ServerUnits) /\ ServerType'
    BY <1>1, <2>1, StopsType DEF ReachMaxSteps, ServerType
  <2> QED BY <1>1, <2>2, SeenAtStopType, PartsKept DEF ReachMaxSteps
<1>2. CASE Interrupted
  <2>1. Stops("S02") /\ serving # "none"
    BY <1>2 DEF Interrupted
  <2>2. toClient' \in Seq(ServerUnits) /\ ServerType'
    BY <1>2, <2>1, StopsType DEF Interrupted, ServerType
  <2>3. toServer' \in Seq(ClientUnits)
    BY <1>2 DEF Interrupted, PollCtrlC, CtrlCIsNext, TakeUnit
  <2> QED BY <1>2, <2>2, <2>3, SeenAtStopType, PartsKept DEF Interrupted
<1>3. CASE HitBreakpoint
  <2>1. Stops("S05") /\ serving # "none"
    BY <1>3 DEF HitBreakpoint, AtBreakpoint
  <2>2. toClient' \in Seq(ServerUnits) /\ ServerType'
    BY <1>3, <2>1, StopsType DEF HitBreakpoint, ServerType
  <2> QED BY <1>3, <2>2, SeenAtStopType, PartsKept DEF HitBreakpoint
<1> QED BY <1>1, <1>2, <1>3

(***************************************************************************)
(* Arming the due requests, and the wait of a halted target.               *)
(***************************************************************************)
LEMMA ArmAndWaitType ==
  ASSUME TypeOK, ArmAndWait PROVE TypeOK'
<1> USE TypeParts DEF StreamType
<1>1. tstates' \in Nat
  BY DEF ArmAndWait, IdleClock
<1>2. CoreTypeOK' /\ ScheduleTypeOK'
  BY <1>1, ArmRequestsType DEF ArmAndWait
<1>3. CASE serving = "s" /\ Stops("S05") /\ seen' = SeenAtStop(0)
  <2>1. toClient' \in Seq(ServerUnits) /\ ServerType'
    BY <1>3, StopsType DEF Texts, ArmAndWait, ServerType
  <2> QED BY <1>2, <1>3, <2>1, SeenAtStopType, PartsKept DEF ArmAndWait
<1>4. CASE (ContinuesAt("head") \/ ContinuesAt("check")) /\ UNCHANGED seen
  <2>1. ServerType'
    BY <1>4 DEF ContinuesAt, ServerType, ArmAndWait, Phases
  <2> QED BY <1>2, <1>4, <2>1, PartsKept DEF ArmAndWait, ContinuesAt
<1> QED BY <1>3, <1>4 DEF ArmAndWait

(***************************************************************************)
(* The call of the executor.                                               *)
(***************************************************************************)
LEMMA CallOnceType ==
  ASSUME TypeOK, CallOnce PROVE TypeOK'
<1> USE TypeParts
<1>1. CoreTypeOK' /\ ScheduleTypeOK'
  BY CallExecutorType DEF CallOnce
<1>2. ServerType'
  BY DEF CallOnce, ContinuesAt, IgnoreAfterCall, ServerType, Phases
<1>3. SeenType'
  <2> DEFINE count == seen.overrun + (IF Waiting(CtrlC) THEN 1 ELSE 0)
  <2>1. count \in Nat
    BY DEF SeenType
  <2>2. seen' = [seen EXCEPT !.moved = TRUE, !.overrun = count]
    BY DEF CallOnce
  <2> HIDE DEF count
  <2> QED BY <2>1, <2>2 DEF SeenType
<1> QED BY <1>1, <1>2, <1>3, PartsKept DEF CallOnce, ContinuesAt, StreamType

(***************************************************************************)
(* The end of a round: the plugin, the result, and whether to go on.       *)
(***************************************************************************)
LEMMA RoundOverType ==
  ASSUME TypeOK, serving # "none", RoundOver PROVE TypeOK'
<1> USE TypeParts DEF StreamType
<1>1. CoreTypeOK'
  BY PluginType DEF RoundOver
<1>2. CASE \E t \in Texts : Stops(t) /\ seen' = SeenAtStop(0)
  <2>1. toClient' \in Seq(ServerUnits) /\ ServerType'
    BY <1>2, StopsType DEF RoundOver, ServerType
  <2> QED BY <1>1, <1>2, <2>1, SeenAtStopType, PartsKept DEF RoundOver
<1>3. CASE ContinuesAt("head") /\ UNCHANGED seen
  <2>1. ServerType'
    BY <1>3 DEF ContinuesAt, ServerType, RoundOver, Phases
  <2> QED BY <1>1, <1>3, <2>1, PartsKept DEF RoundOver, ContinuesAt
<1> QED BY <1>2, <1>3 DEF RoundOver, Texts

(***************************************************************************)
(* The debugger's steps.  What it sends again is the command it waits for. *)
(***************************************************************************)
AskedInv ==
  /\ client.waiting \in {"ack", "reply"} => client.asked \in Commands
  /\ client.waiting = "ack" => ~client.noAck
  /\ client.connected => ~client.reset

(***************************************************************************)
(* Every step of the debugger keeps the types.                             *)
(***************************************************************************)
LEMMA DebuggerType ==
  ASSUME TypeOK, AskedInv, Client PROVE TypeOK'
<1> USE TypeParts
<1> client \in ClientType /\ client.sent <= Len(client.session)
  BY DEF ClientTypeOK
<1>1. CASE SendCommand
  <2> DEFINE c == client.session[client.sent + 1]
  <2>1. c \in Commands
    BY <1>1, NextCommand DEF SendCommand
  <2>2. Len(client.session) \in Nat /\ client.sent \in Nat /\ client.sent + 1 <= Len(client.session)
    BY <1>1, SessionsAssumption DEF SendCommand, ClientType
  <2>7. PICK good \in BOOLEAN :
          /\ good \/ (~client.noAck /\ client.damaged < MaxDamaged)
          /\ toServer' = Append(toServer, Packet(c, good))
          /\ client' = [client EXCEPT
               !.asked = c, !.sent = @ + 1, !.damaged = @ + (IF good THEN 0 ELSE 1),
               !.waiting = IF ~client.noAck THEN "ack" ELSE IF c.op = "k" THEN "done" ELSE "reply"]
    BY <1>1 DEF SendCommand
  <2> DEFINE d == IF good THEN 0 ELSE 1
             w == IF ~client.noAck THEN "ack" ELSE IF c.op = "k" THEN "done" ELSE "reply"
  <2>8. w \in {"ack", "done", "reply"} /\ d \in {0, 1} /\ (d = 1 => client.damaged < MaxDamaged)
    BY <2>7
  <2> HIDE DEF c, d, w
  <2>3. /\ toServer' = Append(toServer, Packet(c, good))
        /\ client' = [client EXCEPT !.asked = c, !.sent = client.sent + 1,
                        !.damaged = client.damaged + d, !.waiting = w]
    BY <2>7 DEF d, w
  <2>4. client.damaged + d \in 0 .. MaxDamaged
    BY <2>8, BoundsAssumption DEF ClientType
  <2>5. ClientTypeOK'
    <3>1. client' \in ClientType
      <4> DEFINE n == client.sent + 1
                 m == client.damaged + d
      <4>1. client' = [client EXCEPT !.asked = c, !.sent = n, !.damaged = m, !.waiting = w]
        BY <2>3
      <4>2. n \in Nat /\ m \in 0 .. MaxDamaged
        BY <2>2, <2>4
      <4> HIDE DEF n, m
      <4> QED BY <2>1, <2>8, <4>1, <4>2 DEF ClientType
    <3>2. client'.sent = client.sent + 1 /\ client'.session = client.session
      BY <2>3 DEF ClientType
    <3> QED BY <2>2, <3>1, <3>2 DEF ClientTypeOK
  <2>6. toServer' \in Seq(ClientUnits)
    BY <2>1, <2>3, UnitTypes DEF StreamType
  <2> QED BY <1>1, <2>5, <2>6, PartsKept DEF SendCommand, StreamType
<1>2. CASE SendCtrlC
  <2>1. client.interrupts + 1 \in 0 .. MaxInterrupts
    BY <1>2, BoundsAssumption DEF SendCtrlC, ClientType
  <2>2. ClientTypeOK'
    BY <1>2, <2>1 DEF SendCtrlC, ClientTypeOK, ClientType
  <2>3. SeenType'
    BY <1>2 DEF SendCtrlC, SeenType
  <2>4. toServer' \in Seq(ClientUnits)
    BY <1>2, UnitTypes DEF SendCtrlC, StreamType
  <2> QED BY <1>2, <2>2, <2>3, <2>4, PartsKept DEF SendCtrlC, StreamType
<1>3. CASE GetsAck
  <2>1. client' \in {client, [client EXCEPT !.waiting = "done"], [client EXCEPT !.waiting = "reply"]}
    BY <1>3 DEF GetsAck
  <2>2. ClientTypeOK'
    BY <2>1 DEF ClientTypeOK, ClientType
  <2>3. toClient' \in Seq(ServerUnits)
    BY <1>3 DEF GetsAck, Receives, StreamType
  <2> QED BY <1>3, <2>2, <2>3, PartsKept DEF GetsAck, StreamType
<1>4. CASE SendAgain
  <2>1. toClient' \in Seq(ServerUnits)
    BY <1>4 DEF SendAgain, Receives, StreamType
  <2>2. toServer' \in Seq(ClientUnits)
    <3>1. toServer' = toServer \/
          (client.asked \in Commands /\ toServer' = Append(toServer, Packet(client.asked, TRUE)))
      BY <1>4 DEF SendAgain, AskedInv
    <3>2. toServer \in Seq(ClientUnits)
      BY DEF StreamType
    <3>3. \A u \in ClientUnits : Append(toServer, u) \in Seq(ClientUnits)
      BY <3>2, AppendUnit
    <3>4. Plus \in ClientUnits /\ Minus \in ClientUnits
          /\ \A c \in Commands : Packet(c, TRUE) \in ClientUnits
      BY UnitTypes
    <3> QED BY <3>1, <3>2, <3>3, <3>4
  <2> QED BY <1>4, <2>1, <2>2, PartsKept DEF SendAgain, StreamType
<1>5. CASE GetsReply
  <2>1. toClient' \in Seq(ServerUnits)
    BY <1>5 DEF GetsReply, Receives, StreamType
  <2>2. toServer' \in Seq(ClientUnits)
    <3>1. toServer' \in {toServer, Append(toServer, Plus), Append(toServer, Minus)}
      BY <1>5 DEF GetsReply
    <3>2. toServer \in Seq(ClientUnits)
      BY DEF StreamType
    <3>3. \A u \in ClientUnits : Append(toServer, u) \in Seq(ClientUnits)
      BY <3>2, AppendUnit
    <3>4. Plus \in ClientUnits /\ Minus \in ClientUnits
          /\ \A c \in Commands : Packet(c, TRUE) \in ClientUnits
      BY UnitTypes
    <3> QED BY <3>1, <3>2, <3>3, <3>4
  <2>3. client' \in {client, [client EXCEPT !.waiting = "done"], Idle(client),
                     [Idle(client) EXCEPT !.noAck = TRUE]}
    <3>1. \/ UNCHANGED client
          \/ client' = CASE client.asked.op = "D" -> [client EXCEPT !.waiting = "done"]
                        [] client.asked.op = "noack" -> [Idle(client) EXCEPT !.noAck = TRUE]
                        [] OTHER -> Idle(client)
      BY <1>5 DEF GetsReply
    <3>2. CASE client.asked.op = "D"
      BY <3>1, <3>2
    <3>3. CASE client.asked.op = "noack"
      BY <3>1, <3>3
    <3>4. CASE client.asked.op \notin {"D", "noack"}
      BY <3>1, <3>4
    <3> QED BY <3>2, <3>3, <3>4
  <2>4. ClientTypeOK'
    BY <2>3 DEF ClientTypeOK, ClientType, Idle
  <2>5. SeenType'
    BY <1>5 DEF GetsReply, SeenType
  <2> QED BY <1>5, <2>1, <2>2, <2>4, <2>5, PartsKept DEF GetsReply, StreamType
<1>6. CASE Disconnect
  <2>1. ClientTypeOK'
    BY <1>6 DEF Disconnect, ClientTypeOK, ClientType
  <2> QED BY <1>6, <2>1, PartsKept DEF Disconnect, StreamType
<1>7. CASE Reset
  <2>1. ClientTypeOK'
    BY <1>7 DEF Reset, ClientTypeOK, ClientType
  <2> QED BY <1>7, <2>1, PartsKept DEF Reset, StreamType
<1> QED BY <1>1, <1>2, <1>3, <1>4, <1>5, <1>6, <1>7 DEF Client, ClientReads

----------------------------------------------------------------------------
(***************************************************************************)
(* The server serves a resume exactly while it is in a loop, and the       *)
(* breakpoint that continue may pass is that of its first call.            *)
(***************************************************************************)
ServingInv ==
  /\ serving # "none" <=> phase \in {"head", "check", "after"}
  /\ serving = "c" /\ ignoreInitialBreakpoint => ~seen.moved

(***************************************************************************)
(* Every step keeps both the types and where the server is.                *)
(***************************************************************************)
LEMMA ServingStep ==
  ASSUME TypeOK, ServingInv, [Next]_vars PROVE ServingInv'
<1> USE DEF ServingInv
<1> seen \in [moved : BOOLEAN, late : BOOLEAN, refused : BOOLEAN, overrun : Nat]
  BY DEF TypeOK
<1>1. CASE SkipAck \/ RefuseDamaged
  <2>1. UNCHANGED serverVars /\ UNCHANGED seen
    BY <1>1 DEF SkipAck, RefuseDamaged
  <2> QED BY <2>1 DEF serverVars
<1>2. CASE InterruptWhileStopped \/ EndOfStream \/ BrokenPipe
  BY <1>2 DEF InterruptWhileStopped, EndOfStream, BrokenPipe, Reads, Answer
<1>3. ASSUME NEW c \in Commands,
             \/ Ask(c) \/ StartNoAckMode(c) \/ WriteRegisters(c) \/ WriteSomeRegisters(c)
             \/ SetBreakpoint(c) \/ EndSession(c)
      PROVE ServingInv'
  BY <1>3 DEF Ask, StartNoAckMode, WriteRegisters, WriteSomeRegisters, SetBreakpoint, EndSession,
              Accepts, Reads, Answer
<1>4. ASSUME NEW c \in Commands, Resume(c) PROVE ServingInv'
  <2>1. c.op \in {"s", "c"} /\ ~seen'.moved
    BY <1>4 DEF Resume, Accepts
  <2> QED BY <1>4, <2>1 DEF Resume
<1>5. ASSUME NEW t, Stops(t) PROVE ServingInv'
  BY <1>5 DEF Stops, Answer
<1>6. CASE ReachMaxSteps \/ Interrupted \/ HitBreakpoint
  BY <1>5, <1>6 DEF ReachMaxSteps, Interrupted, HitBreakpoint
<1>7. CASE ArmAndWait
  BY <1>5, <1>7 DEF ArmAndWait, ContinuesAt
<1>8. CASE CallOnce
  BY <1>8 DEF CallOnce, ContinuesAt, IgnoreAfterCall
<1>9. CASE RoundOver
  BY <1>5, <1>9 DEF RoundOver, ContinuesAt
<1>10. CASE Client
  <2>1. UNCHANGED <<serverVars, seen.moved>>
    BY <1>10 DEF Client, ClientReads, SendCommand, SendCtrlC, GetsAck, SendAgain, GetsReply,
                 Disconnect, Reset
  <2> QED BY <2>1 DEF serverVars
<1>11. CASE UNCHANGED vars
  BY <1>11 DEF vars, serverVars
<1> QED BY <1>1, <1>2, <1>3, <1>4, <1>6, <1>7, <1>8, <1>9, <1>10, <1>11 DEF Next, Server, Over

(***************************************************************************)
(* The debugger waits for what it asked.                                   *)
(***************************************************************************)
LEMMA AskedStep ==
  ASSUME TypeOK, AskedInv, [Next]_vars PROVE AskedInv'
<1> USE DEF AskedInv
<1> client \in ClientType /\ client.sent <= Len(client.session)
  BY TypeParts DEF ClientTypeOK
<1>1. CASE UNCHANGED client
  BY <1>1
<1>2. CASE SendCommand
  <2>1. /\ client'.asked = client.session[client.sent + 1]
        /\ client'.waiting = "ack" => ~client.noAck
        /\ client'.noAck = client.noAck /\ client'.connected = client.connected
        /\ client'.reset = client.reset
    <3> DEFINE c == client.session[client.sent + 1]
               w == IF ~client.noAck THEN "ack" ELSE IF c.op = "k" THEN "done" ELSE "reply"
    <3>1. w = "ack" => ~client.noAck
      OBVIOUS
    <3>2. PICK good \in BOOLEAN : client' = [client EXCEPT
               !.asked = c, !.sent = @ + 1, !.damaged = @ + (IF good THEN 0 ELSE 1),
               !.waiting = w]
      BY <1>2 DEF SendCommand
    <3> HIDE DEF c, w
    <3>3. /\ client'.asked = c /\ client'.waiting = w /\ client'.noAck = client.noAck
          /\ client'.connected = client.connected /\ client'.reset = client.reset
      BY <3>2 DEF ClientType
    <3> QED BY <3>1, <3>3 DEF c
  <2> QED BY <1>2, <2>1, NextCommand DEF SendCommand
<1>3. CASE SendCtrlC
  BY <1>3 DEF SendCtrlC, ClientType
<1>4. CASE GetsAck
  <2>1. client' \in {client, [client EXCEPT !.waiting = "done"], [client EXCEPT !.waiting = "reply"]}
    BY <1>4 DEF GetsAck
  <2> QED BY <1>4, <2>1 DEF GetsAck, Receives, ClientType
<1>5. CASE GetsReply
  <2>1. client' \in {client, [client EXCEPT !.waiting = "done"], Idle(client),
                     [Idle(client) EXCEPT !.noAck = TRUE]}
    <3>1. \/ UNCHANGED client
          \/ client' = CASE client.asked.op = "D" -> [client EXCEPT !.waiting = "done"]
                        [] client.asked.op = "noack" -> [Idle(client) EXCEPT !.noAck = TRUE]
                        [] OTHER -> Idle(client)
      BY <1>5 DEF GetsReply
    <3> QED BY <3>1
  <2> QED BY <2>1 DEF Idle, ClientType
<1>6. CASE Disconnect \/ Reset
  BY <1>6 DEF Disconnect, Reset, ClientType
<1>7. Server => UNCHANGED client
  BY DEF Server, SkipAck, RefuseDamaged, InterruptWhileStopped, EndOfStream, BrokenPipe, Ask,
         StartNoAckMode, WriteRegisters, WriteSomeRegisters, SetBreakpoint, EndSession, Resume,
         ReachMaxSteps, Interrupted, ArmAndWait, HitBreakpoint, CallOnce, RoundOver
<1> QED BY <1>1, <1>2, <1>3, <1>4, <1>5, <1>6, <1>7
        DEF Next, Client, ClientReads, SendAgain, Over, vars

(***************************************************************************)
(* Every step keeps the types.                                             *)
(***************************************************************************)
LEMMA TypeStep ==
  ASSUME TypeOK, ServingInv, AskedInv, [Next]_vars PROVE TypeOK'
<1>1. CASE Server
  <2>1. RoundOver => serving # "none"
    BY DEF RoundOver, ServingInv
  <2> QED BY <1>1, <2>1, ReadingType, CommandsType, ResumeType, StoppingType, ArmAndWaitType,
             CallOnceType, RoundOverType DEF Server
<1>2. CASE Client
  BY <1>2, DebuggerType
<1>3. CASE UNCHANGED vars
  BY <1>3, TypeParts, PartsKept DEF vars
<1> QED BY <1>1, <1>2, <1>3 DEF Next, Over

(***************************************************************************)
(* Together they are inductive.                                            *)
(***************************************************************************)
LEMMA GdbTypes == Spec => [](TypeOK /\ ServingInv /\ AskedInv)
<1>1. Init => TypeOK /\ ServingInv /\ AskedInv
  BY InitType DEF Init, ServingInv, AskedInv
<1>2. (TypeOK /\ ServingInv /\ AskedInv) /\ [Next]_vars => (TypeOK /\ ServingInv /\ AskedInv)'
  BY TypeStep, ServingStep, AskedStep
<1> QED BY <1>1, <1>2, PTL DEF Spec

(***************************************************************************)
(* The types hold in every state, whatever the session, however many       *)
(* Ctrl-C and damaged packets: streams carry only units their reader       *)
(* knows, registers and deadlines stay in range.                           *)
(***************************************************************************)
THEOREM GdbTypeCorrect == Spec => []TypeOK
BY GdbTypes, PTL

----------------------------------------------------------------------------
(***************************************************************************)
(* The executor under the debugger.  Only arming, the call and the plugin  *)
(* touch what the contract is about: a command writes registers, never the *)
(* interrupt state.                                                        *)
(***************************************************************************)
InterruptState ==
  <<iff1, iff2, ei_pending, nmi_pending, irq_pending, irq_vector, halted, last>>

(***************************************************************************)
(* Only a round's arming, its call and its end touch the interrupt state;  *)
(* commands and the debugger's own steps do not.                           *)
(***************************************************************************)
LEMMA InterruptStateKept ==
  ASSUME [Next]_vars
  PROVE ArmAndWait \/ CallOnce \/ RoundOver \/ UNCHANGED InterruptState
<1> USE DEF InterruptState, coreVars, latches
<1>1. CASE SkipAck \/ RefuseDamaged \/ InterruptWhileStopped \/ EndOfStream \/ BrokenPipe
  BY <1>1 DEF SkipAck, RefuseDamaged, InterruptWhileStopped, EndOfStream, BrokenPipe
<1>2. ASSUME NEW c \in Commands,
             \/ Ask(c) \/ StartNoAckMode(c) \/ WriteRegisters(c) \/ WriteSomeRegisters(c)
             \/ SetBreakpoint(c) \/ EndSession(c) \/ Resume(c)
      PROVE UNCHANGED InterruptState
  BY <1>2 DEF Ask, StartNoAckMode, WriteRegisters, WriteSomeRegisters, SetBreakpoint, EndSession,
              Resume
<1>3. CASE ReachMaxSteps \/ Interrupted \/ HitBreakpoint
  BY <1>3 DEF ReachMaxSteps, Interrupted, HitBreakpoint
<1>4. CASE Client
  BY <1>4 DEF Client, ClientReads, SendCommand, SendCtrlC, GetsAck, SendAgain, GetsReply,
              Disconnect, Reset
<1>5. CASE UNCHANGED vars
  BY <1>5 DEF vars
<1> QED BY <1>1, <1>2, <1>3, <1>4, <1>5 DEF Next, Server, Over

(***************************************************************************)
(* The shadow of EI lasts one call and the halted flag follows the result, *)
(* whatever the debugger does between two calls.                           *)
(***************************************************************************)
LEMMA GdbCoreInv == Spec => []CoreInv
<1>1. Init => CoreInv
  BY InitScheduleType DEF Init
<1>2. TypeOK /\ CoreInv /\ [Next]_vars => CoreInv'
  <2> SUFFICES ASSUME TypeOK, CoreInv, [Next]_vars PROVE CoreInv'
    OBVIOUS
  <2>1. CASE ArmAndWait
    BY <2>1, ArmRequestsCoreInv DEF ArmAndWait
  <2>2. CASE CallOnce
    BY <2>2, CallCoreInv DEF CallOnce, TypeOK
  <2>3. CASE RoundOver
    BY <2>3, PluginCoreInv DEF RoundOver
  <2>4. CASE UNCHANGED InterruptState
    BY <2>4 DEF InterruptState, CoreInv, ShadowIsOneCall, HaltFlag, ResultIsHalt
  <2> QED BY <2>1, <2>2, <2>3, <2>4, InterruptStateKept
<1> QED BY <1>1, <1>2, GdbTypes, PTL DEF Spec

(***************************************************************************)
(* Driven by the debugger's loops, with its commands in between, the       *)
(* executor implements the safety part of InterruptGate.                   *)
(***************************************************************************)
THEOREM DebuggedImplementsGate == Spec => GateSafety
<1>1. Init => Gate!Init
  BY DEF Init, ResetZ80, Gate!Init, GateOf
<1>2. TypeOK /\ CoreInv /\ [Next]_vars => [Gate!Next]_(Gate!vars)
  <2> SUFFICES ASSUME TypeOK, CoreInv, [Next]_vars PROVE [Gate!Next]_(Gate!vars)
    OBVIOUS
  <2> USE DEF TypeOK, CoreInv
  <2>1. CASE ArmAndWait
    BY <2>1, ArmSimulated DEF ArmAndWait, Gate!Next
  <2>2. CASE CallOnce
    BY <2>2, CallSimulated DEF CallOnce, Gate!Next
  <2>3. CASE RoundOver
    BY <2>3, PluginSimulated DEF RoundOver, Gate!Next
  <2>4. CASE UNCHANGED InterruptState
    BY <2>4 DEF InterruptState, Gate!vars, GateOf
  <2> QED BY <2>1, <2>2, <2>3, <2>4, InterruptStateKept
<1> QED BY <1>1, <1>2, GdbTypes, GdbCoreInv, PTL DEF Spec, GateSafety, Gate!SafeSpec

(***************************************************************************)
(* Continue executes no instruction at a breakpoint but the one its first  *)
(* call may start on: a call at a breakpoint is that of a halted target,   *)
(* which executes nothing, or is made while the breakpoint is ignored.     *)
(***************************************************************************)
THEOREM BreakpointsHold == Spec => BreakpointHolds
<1> DEFINE Passed == serving = "c" /\ phase = "check" /\ phase' = "after" /\ last' \in InstrKinds
                     => pc \notin breakpoints \/ ~seen.moved
<1>1. TypeOK /\ ServingInv /\ [Next]_vars => [Passed]_vars
  <2> SUFFICES ASSUME TypeOK, ServingInv, [Next]_vars,
                      serving = "c", phase = "check", phase' = "after", last' \in InstrKinds
               PROVE pc \notin breakpoints \/ ~seen.moved
    OBVIOUS
  <2>1. CASE CallOnce
    <3>1. CASE ignoreInitialBreakpoint
      BY <3>1 DEF ServingInv
    <3>2. CASE halted # 0
      <4>1. last' \in {"nmi", "int", "intfail", "halted"}
        BY <2>1, <3>2 DEF CallOnce, EmulateZ80Op, ServiceNMI, ServiceMaskableInterrupt, Vectored,
                          NotVectored, StayHalted, Execute, Op, Stack, Jump, Call, Ret, Retn,
                          Repeat, Halt, Ei, Di, Im, Ldr, Instr
      <4> QED BY <4>1 DEF InstrKinds
    <3> QED BY <2>1, <3>1, <3>2 DEF CallOnce, AtBreakpoint
  <2>2. CASE UNCHANGED phase
    BY <2>2
  <2>3. CASE HitBreakpoint
    BY <2>3 DEF HitBreakpoint, Stops, Answer
  <2>4. Client => UNCHANGED phase
    BY DEF Client, ClientReads, SendCommand, SendCtrlC, GetsAck, SendAgain, GetsReply,
           Disconnect, Reset, serverVars
  <2>5. Server => CallOnce \/ HitBreakpoint
    BY DEF Server, SkipAck, RefuseDamaged, InterruptWhileStopped, EndOfStream, BrokenPipe, Ask,
           StartNoAckMode, WriteRegisters, WriteSomeRegisters, SetBreakpoint, EndSession, Resume,
           ReachMaxSteps, Interrupted, ArmAndWait, RoundOver, Accepts, Reads
  <2> QED BY <2>1, <2>2, <2>3, <2>4, <2>5 DEF Next, Over, vars, serverVars
<1> QED BY <1>1, GdbTypes, PTL DEF Spec, BreakpointHolds

----------------------------------------------------------------------------
(***************************************************************************)
(* What a step of the server does to the conversation, while the debugger  *)
(* is there to hear it.                                                    *)
(***************************************************************************)
Skips ==
  /\ Reads(Plus) \/ Reads(Minus)
  /\ UNCHANGED <<toClient, phase, serving, noAck, seen>>

Refuses(c) ==
  /\ Reads(Packet(c, FALSE)) /\ toClient' = toClient \o Ack(Minus)
  /\ UNCHANGED <<phase, serving, noAck, seen>>

HearsLate ==
  /\ Reads(CtrlC) /\ toClient' = Append(toClient, Reply("S02", "0x03"))
  /\ UNCHANGED <<phase, serving, noAck, seen>>

Answers(c, t) ==
  /\ c.op \notin {"s", "c", "k"} /\ Reads(Packet(c, TRUE))
  /\ toClient' = toClient \o (Ack(Plus) \o <<Reply(t, c.op)>>)
  /\ phase' = (IF c.op = "D" THEN "over" ELSE "read")
  /\ noAck' = (noAck \/ c.op = "noack")
  /\ UNCHANGED <<serving, seen>>

Quits(c) ==
  /\ c.op = "k" /\ Reads(Packet(c, TRUE))
  /\ toClient' = toClient \o Ack(Plus)
  /\ phase' = "over"
  /\ UNCHANGED <<serving, noAck, seen>>

Starts(c) ==
  /\ c.op \in {"s", "c"} /\ Reads(Packet(c, TRUE))
  /\ toClient' = toClient \o Ack(Plus)
  /\ phase' = "head" /\ serving' = c.op
  /\ seen'.late = seen.late
  /\ UNCHANGED noAck

GoesOn ==
  /\ serving # "none"
  /\ seen'.late = seen.late
  /\ UNCHANGED <<streams, serving, noAck>>

NoCtrlC(s) == \A i \in 1 .. Len(s) : s[i] # CtrlC

Halts(t) ==
  /\ serving # "none"
  /\ toServer' = toServer \/ (CtrlCIsNext /\ toServer' = Tail(toServer))
  /\ toClient' = Append(toClient, Reply(t, serving))
  /\ phase' = "read" /\ serving' = "none"
  /\ ~seen'.late => ~seen.late /\ NoCtrlC(toServer')
  /\ UNCHANGED noAck

(***************************************************************************)
(* A stop that finds no Ctrl-C unread but the one it took leaves none.     *)
(***************************************************************************)
LEMMA UnreadCount ==
  ASSUME toServer \in Seq(ClientUnits)
  PROVE /\ ~(Unread > 0) => NoCtrlC(toServer)
        /\ ~(Unread > 1) /\ CtrlCIsNext => NoCtrlC(Tail(toServer))
<1> DEFINE S == {i \in DOMAIN toServer : toServer[i] = CtrlC}
<1>1. DOMAIN toServer = 1 .. Len(toServer) /\ Len(toServer) \in Nat
  OBVIOUS
<1>2. IsFiniteSet(S) /\ Cardinality(S) \in Nat /\ Unread = Cardinality(S)
  <2>1. S \subseteq 1 .. Len(toServer)
    BY <1>1
  <2>2. IsFiniteSet(1 .. Len(toServer))
    BY <1>1, FS_Interval
  <2>3. IsFiniteSet(S)
    BY <2>1, <2>2, FS_Subset
  <2>4. Cardinality(S) \in Nat
    BY <2>3, FS_CardinalityType
  <2> QED BY <2>3, <2>4 DEF Unread
<1>3. ASSUME NEW i \in 1 .. Len(toServer), toServer[i] = CtrlC PROVE Unread > 0
  <2>1. S # {}
    BY <1>1, <1>3
  <2> QED BY <1>2, <2>1, FS_EmptySet
<1>4. ASSUME CtrlCIsNext, NEW i \in 1 .. Len(Tail(toServer)), Tail(toServer)[i] = CtrlC
      PROVE Unread > 1
  <2>1. toServer # <<>> /\ toServer[1] = CtrlC /\ toServer[i + 1] = CtrlC
        /\ i + 1 \in 1 .. Len(toServer) /\ 1 \in 1 .. Len(toServer) /\ i + 1 # 1
    BY <1>4, TailUnits DEF CtrlCIsNext
  <2>2. {1, i + 1} \subseteq S /\ i + 1 # 1
    BY <1>1, <2>1
  <2>3. Cardinality({1, i + 1}) = 2
    <3>1. IsFiniteSet({i + 1}) /\ Cardinality({i + 1}) = 1
      BY FS_Singleton
    <3>2. Cardinality({i + 1} \union {1}) = 1 + 1
      BY <2>2, <3>1, FS_AddElement
    <3>3. {1, i + 1} = {i + 1} \union {1}
      OBVIOUS
    <3> QED BY <3>2, <3>3
  <2>4. 2 <= Cardinality(S)
    BY <1>2, <2>2, <2>3, FS_Subset
  <2> QED BY <1>2, <2>4
<1> QED BY <1>3, <1>4 DEF NoCtrlC

(***************************************************************************)
(* A stop, whatever brought it about.                                      *)
(***************************************************************************)
LEMMA StopHalts ==
  ASSUME TypeOK, client.connected, ~client.reset, serving # "none", NEW t, Stops(t),
         \/ toServer' = toServer /\ seen' = SeenAtStop(0)
         \/ PollCtrlC /\ seen' = SeenAtStop(1)
  PROVE Halts(t)
<1>1. /\ toClient \in Seq(ServerUnits) /\ toServer \in Seq(ClientUnits)
      /\ seen \in [moved : BOOLEAN, late : BOOLEAN, refused : BOOLEAN, overrun : Nat]
  BY DEF TypeOK
<1>2. /\ toClient' = toClient \o (<<>> \o <<Reply(t, serving)>>)
      /\ phase' = "read" /\ serving' = "none" /\ UNCHANGED noAck
  BY DEF Stops, Answer, Send
<1>3. <<>> \o <<Reply(t, serving)>> = <<Reply(t, serving)>>
  OBVIOUS
<1>4. toClient' = Append(toClient, Reply(t, serving))
  BY <1>1, <1>2, <1>3
<1>5. CASE toServer' = toServer /\ seen' = SeenAtStop(0)
  <2>1. seen'.late = (seen.late \/ Unread > 0)
    BY <1>1, <1>5 DEF SeenAtStop
  <2> QED BY <1>1, <1>2, <1>4, <1>5, <2>1, UnreadCount DEF Halts
<1>6. CASE PollCtrlC /\ seen' = SeenAtStop(1)
  <2>1. seen'.late = (seen.late \/ Unread > 1)
    BY <1>1, <1>6 DEF SeenAtStop
  <2>2. CtrlCIsNext /\ toServer' = Tail(toServer)
    BY <1>6 DEF PollCtrlC, TakeUnit
  <2> QED BY <1>1, <1>2, <1>4, <2>1, <2>2, UnreadCount DEF Halts
<1> QED BY <1>5, <1>6

(***************************************************************************)
(* The server's steps are these.                                           *)
(***************************************************************************)
LEMMA ServerMoves ==
  ASSUME TypeOK, ServingInv, AskedInv, client.connected, Server
  PROVE \/ Skips \/ HearsLate \/ GoesOn \/ \E t \in Texts : Halts(t)
        \/ \E c \in Commands :
             Refuses(c) \/ Quits(c) \/ Starts(c) \/ \E t \in Texts : Answers(c, t)
<1>1. ~client.reset
  BY DEF AskedInv
<1>2. seen \in [moved : BOOLEAN, late : BOOLEAN, refused : BOOLEAN, overrun : Nat]
      /\ toClient \in Seq(ServerUnits) /\ noAck \in BOOLEAN
  BY DEF TypeOK
<1>3. CASE SkipAck
  BY <1>3 DEF SkipAck, Skips, serverVars
<1>4. CASE RefuseDamaged
  BY <1>4 DEF RefuseDamaged, Refuses, Send, serverVars
<1>5. CASE InterruptWhileStopped
  <2>1. toClient' = toClient \o (<<>> \o <<Reply("S02", "0x03")>>) /\ phase' = "read" /\ phase = "read"
    BY <1>5 DEF InterruptWhileStopped, Answer, Send, Reads
  <2>2. <<>> \o <<Reply("S02", "0x03")>> = <<Reply("S02", "0x03")>>
    OBVIOUS
  <2>3. toClient' = Append(toClient, Reply("S02", "0x03"))
    BY <1>2, <2>1, <2>2
  <2> QED BY <1>5, <2>1, <2>3 DEF InterruptWhileStopped, HearsLate
<1>6. ~EndOfStream /\ ~BrokenPipe
  BY DEF EndOfStream, BrokenPipe
<1>7. ASSUME NEW c \in Commands, Ask(c) \/ StartNoAckMode(c) \/ WriteRegisters(c)
             \/ WriteSomeRegisters(c) \/ SetBreakpoint(c)
      PROVE \E t \in Texts : Answers(c, t)
  <2>1. PICK t \in Texts : c.op \notin {"s", "c", "k", "D"} /\ Reads(Packet(c, TRUE))
          /\ Answer(Ack(Plus), Reply(t, c.op), "read")
    BY <1>7 DEF Ask, StartNoAckMode, WriteRegisters, WriteSomeRegisters, SetBreakpoint, Accepts,
                Texts
  <2>2. toClient' = toClient \o (Ack(Plus) \o <<Reply(t, c.op)>>) /\ phase' = "read"
    BY <2>1 DEF Answer, Send
  <2>3. noAck' = (noAck \/ c.op = "noack") /\ UNCHANGED <<serving, seen>>
    BY <1>2, <1>7 DEF Ask, StartNoAckMode, NoAckMode, WriteRegisters, WriteSomeRegisters,
                      SetBreakpoint, Accepts
  <2> QED BY <2>1, <2>2, <2>3 DEF Answers
<1>8. ASSUME NEW c \in Commands, EndSession(c)
      PROVE Quits(c) \/ \E t \in Texts : Answers(c, t)
  <2>1. CASE Accepts("D", c) /\ Answer(Ack(Plus), Reply("OK", "D"), "over")
    BY <1>2, <1>8, <2>1 DEF EndSession, Accepts, Answer, Send, Answers, Texts
  <2>2. CASE Accepts("k", c) /\ Send(Ack(Plus)) /\ phase' = "over" /\ exit' = "ok"
    BY <1>8, <2>2 DEF EndSession, Accepts, Send, Quits
  <2> QED BY <1>8, <2>1, <2>2 DEF EndSession
<1>9. ASSUME NEW c \in Commands, Resume(c) PROVE Starts(c)
  BY <1>2, <1>9 DEF Resume, Accepts, Send, Starts
<1>10. CASE ReachMaxSteps \/ Interrupted \/ HitBreakpoint
  <2>1. \E t \in Texts : Stops(t)
        /\ \/ toServer' = toServer /\ seen' = SeenAtStop(0)
           \/ PollCtrlC /\ seen' = SeenAtStop(1)
    BY <1>10 DEF ReachMaxSteps, Interrupted, HitBreakpoint, Texts
  <2>2. serving # "none"
    BY <1>10 DEF ReachMaxSteps, Interrupted, HitBreakpoint, AtBreakpoint
  <2> QED BY <1>1, <2>1, <2>2, StopHalts
<1>11. CASE ArmAndWait \/ RoundOver
  <2>1. serving # "none" /\ toServer' = toServer
    BY <1>11 DEF ArmAndWait, RoundOver, ServingInv
  <2>2. \/ \E t \in Texts : Stops(t) /\ seen' = SeenAtStop(0)
        \/ UNCHANGED <<toClient, serving, noAck, seen>>
    BY <1>11 DEF ArmAndWait, RoundOver, ContinuesAt, Texts
  <2> QED BY <1>1, <2>1, <2>2, StopHalts DEF GoesOn, streams
<1>12. CASE CallOnce
  <2>1. seen'.late = seen.late
    BY <1>2, <1>12 DEF CallOnce
  <2> QED BY <1>12, <2>1 DEF CallOnce, ContinuesAt, GoesOn, ServingInv, streams
<1> QED BY <1>3, <1>4, <1>5, <1>6, <1>7, <1>8, <1>9, <1>10, <1>11, <1>12 DEF Server

----------------------------------------------------------------------------
(***************************************************************************)
(* What a step of the debugger does to it.                                 *)
(***************************************************************************)
ServerWaits == UNCHANGED <<phase, serving, noAck>>
SameLink == UNCHANGED <<client.connected, client.reset>>

Sends(c, good) ==
  /\ client.connected /\ client.waiting = "idle"
  /\ good \/ ~client.noAck
  /\ toServer' = Append(toServer, Packet(c, good)) /\ UNCHANGED toClient
  /\ client'.asked = c /\ client'.noAck = client.noAck
  /\ client'.waiting =
       (IF ~client.noAck THEN "ack" ELSE IF c.op = "k" THEN "done" ELSE "reply")
  /\ SameLink /\ ServerWaits /\ UNCHANGED seen

SendsCtrlC ==
  /\ client.connected /\ client.waiting = "reply" /\ client.asked.op = "c"
  /\ toServer' = Append(toServer, CtrlC) /\ UNCHANGED toClient
  /\ UNCHANGED <<client.asked, client.noAck, client.waiting>>
  /\ SameLink /\ ServerWaits
  /\ seen'.late = (seen.late \/ (serving = "none" /\ ~Waiting(Packet(client.asked, TRUE))))
  /\ seen'.overrun = seen.overrun

Takes(unit) ==
  /\ client.connected /\ client.waiting \in {"ack", "reply"}
  /\ toClient # <<>> /\ Head(toClient) = unit /\ toClient' = Tail(toClient)
  /\ SameLink /\ ServerWaits

HearsAck ==
  /\ Takes(Plus)
  /\ client'.waiting = (IF client.waiting # "ack" THEN "reply"
                        ELSE IF client.asked.op = "k" THEN "done" ELSE "reply")
  /\ UNCHANGED <<toServer, client.asked, client.noAck, seen>>

Repeats ==
  /\ Takes(Minus)
  /\ toServer' = (IF client.waiting = "ack"
                  THEN Append(toServer, Packet(client.asked, TRUE)) ELSE toServer)
  /\ UNCHANGED <<client, seen>>

Ignores(u) ==
  /\ Takes(u) /\ client.waiting = "ack"
  /\ UNCHANGED <<toServer, client, seen>>

Accepts_Reply(u) ==
  /\ Takes(u) /\ client.waiting = "reply"
  /\ toServer' = (IF client.noAck THEN toServer ELSE Append(toServer, Plus))
  /\ client'.waiting = (IF client.asked.op = "D" THEN "done" ELSE "idle")
  /\ client'.noAck = (client.noAck \/ client.asked.op = "noack")
  /\ UNCHANGED seen

Rejects(u) ==
  /\ Takes(u) /\ client.waiting = "reply" /\ ~client.noAck
  /\ toServer' = Append(toServer, Minus)
  /\ seen'.late = seen.late /\ seen'.overrun = seen.overrun
  /\ UNCHANGED client

Leaves ==
  /\ ~client'.connected /\ client'.reset = client.reset
  /\ ServerWaits /\ UNCHANGED <<toServer, seen>>

IsReset ==
  /\ ~client.connected /\ ~client'.connected /\ client'.reset
  /\ toServer' = <<>> /\ ServerWaits /\ UNCHANGED seen

ReplyUnits == {Reply(t, op) : t \in Texts, op \in Ops \union {"0x03"}}

(***************************************************************************)
(* The debugger's steps are these.                                         *)
(***************************************************************************)
LEMMA ClientMoves ==
  ASSUME TypeOK, AskedInv, Client
  PROVE \/ \E c \in Commands, good \in BOOLEAN : Sends(c, good)
        \/ SendsCtrlC \/ HearsAck \/ Repeats \/ Leaves \/ IsReset
        \/ \E u \in ReplyUnits : Ignores(u) \/ Accepts_Reply(u) \/ Rejects(u)
<1> USE DEF serverVars, SameLink, ServerWaits
<1>1. /\ client \in ClientType /\ client.sent <= Len(client.session)
      /\ seen \in [moved : BOOLEAN, late : BOOLEAN, refused : BOOLEAN, overrun : Nat]
  BY TypeParts DEF ClientTypeOK, SeenType
<1>2. CASE SendCommand
  <2> DEFINE c == client.session[client.sent + 1]
             w == IF ~client.noAck THEN "ack" ELSE IF c.op = "k" THEN "done" ELSE "reply"
  <2>1. PICK good \in BOOLEAN :
          /\ good \/ ~client.noAck
          /\ toServer' = Append(toServer, Packet(c, good))
          /\ client' = [client EXCEPT
               !.asked = c, !.sent = @ + 1, !.damaged = @ + (IF good THEN 0 ELSE 1),
               !.waiting = w]
    BY <1>2 DEF SendCommand
  <2>2. c \in Commands
    BY <1>1, <1>2, NextCommand DEF SendCommand
  <2> HIDE DEF c, w
  <2>4. /\ client'.asked = c /\ client'.noAck = client.noAck /\ client'.waiting = w
        /\ client'.connected = client.connected /\ client'.reset = client.reset
    BY <1>1, <2>1 DEF ClientType
  <2>5. Sends(c, good)
    BY <1>2, <2>1, <2>4 DEF SendCommand, Sends, w
  <2> QED BY <2>2, <2>5
<1>3. CASE SendCtrlC
  <2>1. /\ UNCHANGED <<client.asked, client.noAck, client.waiting>>
        /\ UNCHANGED <<client.connected, client.reset>>
    BY <1>1, <1>3 DEF SendCtrlC, ClientType
  <2>2. /\ seen'.late = (seen.late \/ (serving = "none" /\ ~Waiting(Packet(client.asked, TRUE))))
        /\ seen'.overrun = seen.overrun
    BY <1>1, <1>3 DEF SendCtrlC
  <2> QED BY <1>3, <2>1, <2>2 DEF SendCtrlC, SendsCtrlC
<1>4. CASE GetsAck
  <2> DEFINE w == IF client.asked.op = "k" THEN "done" ELSE "reply"
  <2>1. client' = IF client.waiting = "ack" THEN [client EXCEPT !.waiting = w] ELSE client
    BY <1>4 DEF GetsAck
  <2>2. client.waiting \in {"ack", "reply"}
    BY <1>4 DEF GetsAck, Receives
  <2>3. /\ client'.waiting = (IF client.waiting # "ack" THEN "reply"
                              ELSE IF client.asked.op = "k" THEN "done" ELSE "reply")
        /\ UNCHANGED <<client.asked, client.noAck>>
        /\ UNCHANGED <<client.connected, client.reset>>
    BY <1>1, <2>1, <2>2 DEF ClientType
  <2> QED BY <1>4, <2>3 DEF GetsAck, Receives, Takes, HearsAck
<1>5. CASE SendAgain
  BY <1>5 DEF SendAgain, Receives, Takes, Repeats
<1>6. CASE GetsReply
  <2>1. PICK text \in Texts, op \in Ops \union {"0x03"} :
          /\ Receives(Reply(text, op))
          /\ \/ /\ client.waiting = "ack"
                /\ UNCHANGED <<toServer, client, seen>>
             \/ /\ client.waiting = "reply"
                /\ toServer' = IF client.noAck THEN toServer ELSE Append(toServer, Plus)
                /\ client' = CASE client.asked.op = "D" -> [client EXCEPT !.waiting = "done"]
                               [] client.asked.op = "noack" -> [Idle(client) EXCEPT !.noAck = TRUE]
                               [] OTHER -> Idle(client)
                /\ UNCHANGED seen
             \/ /\ client.waiting = "reply" /\ ~client.noAck
                /\ toServer' = Append(toServer, Minus)
                /\ seen' = [seen EXCEPT !.refused = TRUE]
                /\ UNCHANGED client
          /\ UNCHANGED serverVars
    BY <1>6 DEF GetsReply
  <2> DEFINE u == Reply(text, op)
  <2>2. u \in ReplyUnits
    BY DEF ReplyUnits
  <2>3. CASE client.waiting = "ack" /\ UNCHANGED <<toServer, client, seen>>
    BY <2>1, <2>2, <2>3 DEF Receives, Takes, Ignores
  <2>4. CASE /\ client.waiting = "reply"
             /\ toServer' = (IF client.noAck THEN toServer ELSE Append(toServer, Plus))
             /\ client' = (CASE client.asked.op = "D" -> [client EXCEPT !.waiting = "done"]
                             [] client.asked.op = "noack" -> [Idle(client) EXCEPT !.noAck = TRUE]
                             [] OTHER -> Idle(client))
             /\ UNCHANGED seen
    <3>1. client' = IF client.asked.op = "D" THEN [client EXCEPT !.waiting = "done"]
                    ELSE IF client.asked.op = "noack" THEN [Idle(client) EXCEPT !.noAck = TRUE]
                    ELSE Idle(client)
      BY <2>4
    <3>2. /\ client'.waiting = (IF client.asked.op = "D" THEN "done" ELSE "idle")
          /\ client'.noAck = (client.noAck \/ client.asked.op = "noack")
          /\ UNCHANGED <<client.connected, client.reset>>
      BY <1>1, <3>1 DEF ClientType, Idle
    <3> QED BY <2>1, <2>2, <2>4, <3>2 DEF Receives, Takes, Accepts_Reply
  <2>5. CASE /\ client.waiting = "reply" /\ ~client.noAck
             /\ toServer' = Append(toServer, Minus)
             /\ seen' = [seen EXCEPT !.refused = TRUE]
             /\ UNCHANGED client
    <3>1. seen'.late = seen.late /\ seen'.overrun = seen.overrun
      BY <1>1, <2>5
    <3> QED BY <2>1, <2>2, <2>5, <3>1 DEF Receives, Takes, Rejects
  <2> QED BY <2>1, <2>3, <2>4, <2>5
<1>7. CASE Disconnect
  BY <1>1, <1>7 DEF Disconnect, Leaves, ClientType
<1>8. CASE Reset
  BY <1>1, <1>8 DEF Reset, IsReset, ClientType
<1> QED BY <1>2, <1>3, <1>4, <1>5, <1>6, <1>7, <1>8 DEF Client, ClientReads

----------------------------------------------------------------------------
(***************************************************************************)
(* The conversation.  Until a Ctrl-C comes too late, the two streams and   *)
(* what the two ends believe are in one of seven stages: the debugger      *)
(* rests; a command is on its way, or was refused, or is being served, or  *)
(* is answered; the debugger has refused the answer, which does not come   *)
(* again; or the conversation is over.                                     *)
(***************************************************************************)
Only(s, units) == \A i \in 1 .. Len(s) : s[i] \in units

Acks == {Plus, Minus}

Resting ==
  /\ client.waiting = "idle"
  /\ Only(toServer, Acks) /\ toClient = <<>>
  /\ phase = "read" /\ noAck = client.noAck

IsSentAt(k) ==
  /\ \/ toServer[k] = Packet(client.asked, TRUE)
     \/ ~client.noAck /\ toServer[k] = Packet(client.asked, FALSE)
  /\ \A i \in 1 .. Len(toServer) :
       /\ i < k => toServer[i] \in Acks
       /\ i > k => toServer[i] = CtrlC /\ client.noAck /\ client.asked.op = "c"

Sent ==
  /\ client.asked \in Commands
  /\ client.waiting =
       (IF ~client.noAck THEN "ack" ELSE IF client.asked.op = "k" THEN "done" ELSE "reply")
  /\ toClient = <<>>
  /\ \E k \in 1 .. Len(toServer) : IsSentAt(k)
  /\ phase = "read" /\ noAck = client.noAck

Refused ==
  /\ client.waiting = "ack"
  /\ Only(toServer, Acks) /\ toClient = <<Minus>>
  /\ phase = "read" /\ noAck = client.noAck

Owed == IF client.waiting = "ack" THEN <<Plus>> ELSE <<>>

Running ==
  /\ client.waiting \in {"ack", "reply"}
  /\ Only(toServer, {CtrlC}) /\ toClient = Owed
  /\ serving # "none" /\ serving = client.asked.op /\ noAck = client.noAck

Replied ==
  /\ client.waiting \in {"ack", "reply"} /\ client.asked.op # "k"
  /\ Only(toServer, Acks)
  /\ \E text \in Texts : toClient = Owed \o <<Reply(text, client.asked.op)>>
  /\ phase = (IF client.asked.op = "D" THEN "over" ELSE "read")
  /\ noAck = (client.noAck \/ client.asked.op = "noack")

Unheard ==
  /\ client.waiting = "reply" /\ ~client.noAck
  /\ Only(toServer, Acks) /\ toClient = <<>>
  /\ phase \in {"read", "over"}

Leaving ==
  /\ client.waiting = "done" \/ (client.waiting = "ack" /\ client.asked.op = "k")
  /\ toClient = Owed
  /\ phase = "over"

Stage == Resting \/ Sent \/ Refused \/ Running \/ Replied \/ Unheard \/ Leaving

StageInv == client.connected /\ ~seen.late => Stage

(***************************************************************************)
(* A unit read is the first of its stream, and the others move up.         *)
(***************************************************************************)
LEMMA ReadsUnit ==
  ASSUME toServer \in Seq(ClientUnits), NEW u, Reads(u)
  PROVE /\ phase = "read" /\ Len(toServer) \in Nat \ {0}
        /\ toServer[1] = u /\ Len(toServer') = Len(toServer) - 1
        /\ \A i \in 1 .. Len(toServer') :
             toServer'[i] = toServer[i + 1] /\ i + 1 \in 1 .. Len(toServer)
BY TailUnits DEF Reads

(***************************************************************************)
(* A step of either side while the debugger is there.                      *)
(***************************************************************************)
Move ==
  \/ /\ UNCHANGED client
     /\ \/ Skips \/ HearsLate \/ GoesOn \/ \E t \in Texts : Halts(t)
        \/ \E c \in Commands :
             Refuses(c) \/ Quits(c) \/ Starts(c) \/ \E t \in Texts : Answers(c, t)
  \/ \E c \in Commands, good \in BOOLEAN : Sends(c, good)
  \/ SendsCtrlC \/ HearsAck \/ Repeats
  \/ \E u \in ReplyUnits : Ignores(u) \/ Accepts_Reply(u) \/ Rejects(u)

(***************************************************************************)
(* While the debugger is there every step is such a move, or changes       *)
(* nothing of the conversation.                                            *)
(***************************************************************************)
LEMMA NextMoves ==
  ASSUME TypeOK, ServingInv, AskedInv, [Next]_vars, client'.connected
  PROVE client.connected
        /\ (Move \/ UNCHANGED <<streams, client, phase, serving, noAck, seen>>)
<1>1. CASE Server
  <2>1. UNCHANGED client
    BY <1>1 DEF Server, SkipAck, RefuseDamaged, InterruptWhileStopped, EndOfStream, BrokenPipe,
                Ask, StartNoAckMode, WriteRegisters, WriteSomeRegisters, SetBreakpoint, EndSession,
                Resume, ReachMaxSteps, Interrupted, ArmAndWait, HitBreakpoint, CallOnce, RoundOver
  <2> QED BY <1>1, <2>1, ServerMoves DEF Move
<1>2. CASE Client
  BY <1>2, ClientMoves DEF Move, Leaves, IsReset, Sends, SendsCtrlC, HearsAck, Repeats, Ignores,
                           Accepts_Reply, Rejects, Takes, SameLink
<1>3. CASE UNCHANGED vars
  BY <1>3 DEF vars, serverVars
<1> QED BY <1>1, <1>2, <1>3 DEF Next, Over

(***************************************************************************)
(* Without anything to read but acknowledgements the server can only skip  *)
(* them, or go on with what it serves.                                     *)
(***************************************************************************)
LEMMA OnlyAcksRead ==
  ASSUME toServer \in Seq(ClientUnits), Only(toServer, Acks), NEW u, Reads(u)
  PROVE u \in Acks /\ u # CtrlC /\ (\A c, good : u # Packet(c, good)) /\ Only(toServer', Acks)
<1>1. toServer[1] \in Acks /\ toServer[1] = u
  BY ReadsUnit DEF Only
<1>2. Only(toServer', Acks)
  BY ReadsUnit DEF Only
<1>3. u # CtrlC /\ \A c, good : u # Packet(c, good)
  <2>1. u.unit \in {"+", "-"}
    BY <1>1, UnitsDiffer DEF Acks
  <2> QED BY <2>1, UnitsDiffer
<1> QED BY <1>1, <1>2, <1>3

(***************************************************************************)
(* No packet waits among acknowledgements.                                 *)
(***************************************************************************)
LEMMA NotWaiting ==
  ASSUME toServer \in Seq(ClientUnits), Only(toServer, Acks), NEW c, NEW good
  PROVE ~Waiting(Packet(c, good))
<1>1. Packet(c, good) \notin Acks
  BY UnitsDiffer DEF Acks
<1>2. DOMAIN toServer = 1 .. Len(toServer)
  OBVIOUS
<1> QED BY <1>1, <1>2 DEF Waiting, Only

(***************************************************************************)
(* Streams of one or two units.                                            *)
(***************************************************************************)
LEMMA ShortStreams ==
  ASSUME NEW a, NEW b
  PROVE /\ Head(<<a>>) = a /\ Tail(<<a>>) = <<>> /\ <<>> \o <<a>> = <<a>>
        /\ Head(<<a, b>>) = a /\ Tail(<<a, b>>) = <<b>> /\ <<a>> \o <<b>> = <<a, b>>
<1>1. Head(<<a>>) = a /\ Head(<<a, b>>) = a
  OBVIOUS
<1>2. Tail(<<a>>) = <<>>
  OBVIOUS
<1>3. Tail(<<a, b>>) = <<b>>
  OBVIOUS
<1>4. <<>> \o <<a>> = <<a>>
  OBVIOUS
<1>5. <<a>> \o <<b>> = <<a, b>>
  <2>1. <<a>> \in Seq({a, b}) /\ b \in {a, b}
    OBVIOUS
  <2>2. Append(<<a>>, b) = <<a>> \o <<b>>
    BY <2>1, AppendIsConcat
  <2>3. Append(<<a>>, b) = <<a, b>>
    <3> DEFINE s == Append(<<a>>, b)
    <3>1. Len(<<a>>) = 1 /\ <<a>>[1] = a
      OBVIOUS
    <3>2. s \in Seq({a, b}) /\ Len(s) = 2 /\ s[1] = a /\ s[2] = b
      BY <2>1, <3>1, AppendProperties
    <3> HIDE DEF s
    <3>3. <<a, b>> \in Seq({a, b}) /\ Len(<<a, b>>) = 2 /\ <<a, b>>[1] = a /\ <<a, b>>[2] = b
      OBVIOUS
    <3>4. \A i \in 1 .. 2 : i = 1 \/ i = 2
      OBVIOUS
    <3> QED BY <3>2, <3>3, <3>4, SeqEqual DEF s
  <2> QED BY <2>2, <2>3
<1> QED BY <1>1, <1>2, <1>3, <1>4, <1>5

(***************************************************************************)
(* The debugger rests until it sends its next command.                     *)
(***************************************************************************)
LEMMA RestingStep ==
  ASSUME TypeOK, ServingInv, Resting, Move PROVE Stage'
<1> USE DEF Resting
<1>1. toServer \in Seq(ClientUnits) /\ serving = "none"
  BY DEF TypeOK, ServingInv
<1>2. CASE Skips /\ UNCHANGED client
  <2>1. Only(toServer', Acks)
    BY <1>1, <1>2, OnlyAcksRead DEF Skips
  <2> QED BY <1>2, <2>1 DEF Skips, Stage
<1>3. ASSUME NEW c \in Commands, NEW good \in BOOLEAN, Sends(c, good) PROVE Stage'
  <2> PICK k \in Nat : k = Len(toServer) + 1
    BY <1>1
  <2>1. /\ toServer' \in Seq(ClientUnits) /\ Len(toServer') = k /\ k \in 1 .. k
        /\ toServer'[k] = Packet(c, good)
        /\ \A i \in 1 .. k : i < k => toServer'[i] \in Acks
    BY <1>1, <1>3, AppendUnit, UnitTypes DEF Sends, Only
  <2>2. \A i \in 1 .. k : ~(i > k)
    BY <2>1
  <2>3. client'.asked = c /\ client'.noAck = client.noAck /\ (good = TRUE \/ (good = FALSE /\ ~client.noAck))
    BY <1>3 DEF Sends
  <2>4. IsSentAt(k)'
    BY <2>1, <2>2, <2>3 DEF IsSentAt
  <2>5. \E j \in 1 .. Len(toServer') : IsSentAt(j)'
    BY <2>1, <2>4
  <2>6. Sent'
    BY <1>3, <2>5 DEF Sends, Sent, ServerWaits
  <2> QED BY <2>6 DEF Stage
<1>4. ~HearsLate /\ ~GoesOn /\ \A t \in Texts : ~Halts(t)
  BY <1>1, OnlyAcksRead DEF HearsLate, GoesOn, Halts
<1>5. ASSUME NEW c \in Commands PROVE ~Refuses(c) /\ ~Quits(c) /\ ~Starts(c) /\ \A t \in Texts : ~Answers(c, t)
  BY <1>1, OnlyAcksRead DEF Refuses, Quits, Starts, Answers
<1>6. ~SendsCtrlC /\ ~HearsAck /\ ~Repeats
      /\ \A u \in ReplyUnits : ~Ignores(u) /\ ~Accepts_Reply(u) /\ ~Rejects(u)
  BY DEF SendsCtrlC, HearsAck, Repeats, Ignores, Accepts_Reply, Rejects, Takes
<1> QED BY <1>2, <1>3, <1>4, <1>5, <1>6 DEF Move

(***************************************************************************)
(* The command on its way is read when the acknowledgements in front of it *)
(* are; only a continue without acknowledgements has Ctrl-C behind it.     *)
(***************************************************************************)
LEMMA SentReads ==
  ASSUME toServer \in Seq(ClientUnits), NEW k \in 1 .. Len(toServer), IsSentAt(k),
         NEW u, Reads(u)
  PROVE \/ /\ k = 1
           /\ \/ u = Packet(client.asked, TRUE)
              \/ ~client.noAck /\ u = Packet(client.asked, FALSE)
           /\ Only(toServer', {CtrlC})
           /\ \/ client.noAck /\ client.asked.op = "c"
              \/ Len(toServer') = 0
        \/ k > 1 /\ u \in Acks
<1>1. CASE k = 1
  <2>1. u = Packet(client.asked, TRUE) \/ (~client.noAck /\ u = Packet(client.asked, FALSE))
    BY <1>1, ReadsUnit DEF IsSentAt
  <2>2. \A i \in 1 .. Len(toServer') :
          toServer'[i] = CtrlC /\ client.noAck /\ client.asked.op = "c"
    BY <1>1, ReadsUnit DEF IsSentAt
  <2>3. Len(toServer') \in Nat
    BY ReadsUnit
  <2>4. Len(toServer') = 0 \/ 1 \in 1 .. Len(toServer')
    BY <2>3
  <2> QED BY <1>1, <2>1, <2>2, <2>4 DEF Only
<1>2. CASE k > 1
  <2>1. 1 \in 1 .. Len(toServer) /\ 1 < k /\ toServer[1] = u
    BY <1>2, ReadsUnit
  <2> QED BY <1>2, <2>1 DEF IsSentAt
<1>3. k = 1 \/ k > 1
  BY ReadsUnit
<1> QED BY <1>1, <1>2, <1>3

(***************************************************************************)
(* An acknowledgement is neither a packet nor a Ctrl-C.                    *)
(***************************************************************************)
LEMMA AckIsNoCommand ==
  ASSUME NEW u \in Acks PROVE u # CtrlC /\ \A c, good : u # Packet(c, good)
<1>1. u.unit \in {"+", "-"}
  BY UnitsDiffer DEF Acks
<1> QED BY <1>1, UnitsDiffer

(***************************************************************************)
(* A packet is the command it carries, and good or not.                    *)
(***************************************************************************)
LEMMA SamePacket ==
  ASSUME NEW c, NEW d, NEW good, NEW other, Packet(c, good) = Packet(d, other)
  PROVE c = d /\ good = other
BY UnitsDiffer

(***************************************************************************)
(* A command on its way: it is refused, answered at once, or served.       *)
(***************************************************************************)
LEMMA SentStep ==
  ASSUME TypeOK, ServingInv, Sent, Move, ~seen'.late PROVE Stage'
<1> USE DEF Sent
<1>1. toServer \in Seq(ClientUnits) /\ serving = "none"
  BY DEF TypeOK, ServingInv
<1>2. PICK k \in 1 .. Len(toServer) : IsSentAt(k)
  OBVIOUS
<1>3. ASSUME NEW u, Reads(u)
      PROVE \/ /\ k = 1
               /\ \/ u = Packet(client.asked, TRUE)
                  \/ ~client.noAck /\ u = Packet(client.asked, FALSE)
               /\ Only(toServer', {CtrlC})
               /\ \/ client.noAck /\ client.asked.op = "c"
                  \/ Len(toServer') = 0
            \/ k > 1 /\ u \in Acks
  BY <1>1, <1>2, <1>3, SentReads
<1>4. CASE Skips /\ UNCHANGED client
  <2>1. PICK u \in Acks : Reads(u)
    BY <1>4 DEF Skips, Acks
  <2>2. k > 1
    BY <1>3, <2>1, AckIsNoCommand
  <2>3. PICK j \in 1 .. Len(toServer') : j = k - 1
    BY <1>1, <2>1, <2>2, ReadsUnit
  <2>4. IsSentAt(j)'
    <3>1. toServer'[j] = toServer[k] /\ j \in Nat /\ k = j + 1
      BY <1>1, <2>1, <2>2, <2>3, ReadsUnit
    <3>2. ASSUME NEW i \in 1 .. Len(toServer')
          PROVE /\ i < j => toServer'[i] \in Acks
                /\ i > j => toServer'[i] = CtrlC /\ client.noAck /\ client.asked.op = "c"
      <4>1. toServer'[i] = toServer[i + 1] /\ i + 1 \in 1 .. Len(toServer)
        BY <1>1, <2>1, ReadsUnit
      <4>2. (i < j => i + 1 < k) /\ (i > j => i + 1 > k)
        BY <3>1
      <4> QED BY <1>2, <4>1, <4>2 DEF IsSentAt
    <3> QED BY <1>2, <1>4, <3>1, <3>2 DEF IsSentAt
  <2>5. \E i \in 1 .. Len(toServer') : IsSentAt(i)'
    BY <2>4
  <2>6. Sent'
    BY <1>4, <2>5 DEF Skips
  <2> QED BY <2>6 DEF Stage
<1>5. ASSUME NEW c \in Commands, Refuses(c), UNCHANGED client PROVE Stage'
  <2>1. ~client.noAck /\ Len(toServer') = 0
    <3>1. Reads(Packet(c, FALSE))
      BY <1>5 DEF Refuses
    <3>2. Packet(c, FALSE) # Packet(client.asked, TRUE) /\ Packet(c, FALSE) \notin Acks
      BY SamePacket, AckIsNoCommand
    <3> QED BY <1>3, <3>1, <3>2
  <2>2. Only(toServer', Acks)
    BY <2>1 DEF Only
  <2>3. toClient' = <<Minus>>
    <3>1. Ack(Minus) = <<Minus>>
      BY <2>1 DEF Ack
    <3> QED BY <1>5, <3>1 DEF Refuses
  <2>4. Refused'
    BY <1>5, <2>1, <2>2, <2>3 DEF Refused, Refuses
  <2> QED BY <2>4 DEF Stage
<1>6. ASSUME NEW c \in Commands, Reads(Packet(c, TRUE))
      PROVE /\ c = client.asked /\ Only(toServer', {CtrlC})
            /\ c.op = "c" \/ Len(toServer') = 0
  <2>1. Packet(c, TRUE) # Packet(client.asked, FALSE) /\ Packet(c, TRUE) \notin Acks
    BY SamePacket, AckIsNoCommand
  <2>2. /\ Packet(c, TRUE) = Packet(client.asked, TRUE) /\ Only(toServer', {CtrlC})
        /\ client.asked.op = "c" \/ Len(toServer') = 0
    BY <1>3, <1>6, <2>1
  <2>3. c = client.asked
    BY <2>2, SamePacket
  <2> QED BY <2>2, <2>3
<1>7. Ack(Plus) = (IF client.noAck THEN <<>> ELSE <<Plus>>)
  BY DEF Ack
<1>8. ASSUME NEW c \in Commands, NEW t \in Texts, Answers(c, t), UNCHANGED client PROVE Stage'
  <2>1. c = client.asked /\ c.op \notin {"s", "c", "k"} /\ Only(toServer', Acks)
    <3>1. c = client.asked /\ c.op \notin {"s", "c", "k"} /\ Len(toServer') = 0
      BY <1>6, <1>8 DEF Answers
    <3> QED BY <3>1 DEF Only
  <2>2. toClient' = <<>> \o (Ack(Plus) \o <<Reply(t, c.op)>>)
    BY <1>8 DEF Answers
  <2>3. Ack(Plus) = Owed'
    BY <1>7, <1>8, <2>1 DEF Owed
  <2>4. <<>> \o (Ack(Plus) \o <<Reply(t, c.op)>>) = Ack(Plus) \o <<Reply(t, c.op)>>
    BY <1>7
  <2>5. toClient' = Owed' \o <<Reply(t, client'.asked.op)>>
    BY <1>8, <2>1, <2>2, <2>3, <2>4
  <2>6. Replied'
    BY <1>8, <2>1, <2>5 DEF Replied, Answers
  <2> QED BY <2>6 DEF Stage
<1>9. ASSUME NEW c \in Commands, Quits(c), UNCHANGED client PROVE Stage'
  <2>1. c = client.asked /\ c.op = "k"
    BY <1>6, <1>9 DEF Quits
  <2>2. Ack(Plus) = Owed' /\ <<>> \o Ack(Plus) = Ack(Plus)
    BY <1>7, <1>9, <2>1 DEF Owed
  <2>3. Leaving'
    BY <1>9, <2>1, <2>2 DEF Leaving, Quits
  <2> QED BY <2>3 DEF Stage
<1>10. ASSUME NEW c \in Commands, Starts(c), UNCHANGED client PROVE Stage'
  <2>1. c = client.asked /\ c.op \in {"s", "c"} /\ Only(toServer', {CtrlC})
    BY <1>6, <1>10 DEF Starts
  <2>2. Ack(Plus) = Owed' /\ <<>> \o Ack(Plus) = Ack(Plus)
    BY <1>7, <1>10, <2>1 DEF Owed
  <2>3. Running'
    BY <1>10, <2>1, <2>2 DEF Running, Starts
  <2> QED BY <2>3 DEF Stage
<1>11. CASE SendsCtrlC
  <2>1. client.noAck /\ client.asked.op = "c"
    BY <1>11 DEF SendsCtrlC
  <2>2. /\ Len(toServer') = Len(toServer) + 1 /\ toServer'[Len(toServer) + 1] = CtrlC
        /\ \A i \in 1 .. Len(toServer) : toServer'[i] = toServer[i]
        /\ Len(toServer) \in Nat
    BY <1>1, <1>11, AppendUnit, UnitTypes DEF SendsCtrlC
  <2>3. IsSentAt(k)' /\ k \in 1 .. Len(toServer')
    <3>1. k \in 1 .. Len(toServer') /\ toServer'[k] = toServer[k]
      BY <2>2
    <3>2. ASSUME NEW i \in 1 .. Len(toServer')
          PROVE /\ i < k => toServer'[i] \in Acks
                /\ i > k => toServer'[i] = CtrlC
      <4>1. CASE i \in 1 .. Len(toServer)
        BY <1>2, <2>2, <4>1 DEF IsSentAt
      <4>2. CASE i = Len(toServer) + 1
        BY <2>2, <4>2
      <4> QED BY <2>2, <4>1, <4>2
    <3>3. UNCHANGED <<client.asked, client.noAck>>
      BY <1>11 DEF SendsCtrlC
    <3> QED BY <1>2, <2>1, <3>1, <3>2, <3>3 DEF IsSentAt
  <2>4. \E i \in 1 .. Len(toServer') : IsSentAt(i)'
    BY <2>3
  <2>5. Sent'
    BY <1>11, <2>4 DEF SendsCtrlC, ServerWaits
  <2> QED BY <2>5 DEF Stage
<1>12. ~HearsLate /\ ~GoesOn /\ \A t \in Texts : ~Halts(t)
  <2>1. ~Reads(CtrlC)
    <3>1. CtrlC \notin Acks /\ \A c, good : CtrlC # Packet(c, good)
      BY AckIsNoCommand, UnitsDiffer
    <3> QED BY <1>3, <3>1
  <2> QED BY <1>1, <2>1 DEF HearsLate, GoesOn, Halts
<1>13. \A u : ~Takes(u)
  BY DEF Takes
<1>14. \A c \in Commands, good \in BOOLEAN : ~Sends(c, good)
  BY DEF Sends
<1> QED BY <1>4, <1>5, <1>8, <1>9, <1>10, <1>11, <1>12, <1>13, <1>14
        DEF Move, HearsAck, Repeats, Ignores, Accepts_Reply, Rejects

(***************************************************************************)
(* A refused command is sent again.                                        *)
(***************************************************************************)
LEMMA RefusedStep ==
  ASSUME TypeOK, ServingInv, AskedInv, Refused, Move PROVE Stage'
<1> USE DEF Refused
<1>1. /\ toServer \in Seq(ClientUnits) /\ toClient \in Seq(ServerUnits) /\ serving = "none"
      /\ client.asked \in Commands /\ ~client.noAck
  BY DEF TypeOK, ServingInv, AskedInv
<1>2. CASE Skips /\ UNCHANGED client
  <2>1. Only(toServer', Acks)
    BY <1>1, <1>2, OnlyAcksRead DEF Skips
  <2> QED BY <1>2, <2>1 DEF Skips, Stage
<1>3. CASE Repeats
  <2> PICK k \in Nat : k = Len(toServer) + 1
    BY <1>1
  <2>1. /\ Len(toServer') = k /\ k \in 1 .. k
        /\ toServer'[k] = Packet(client.asked, TRUE)
        /\ \A i \in 1 .. k : i < k => toServer'[i] \in Acks
    <3>1. toServer' = Append(toServer, Packet(client.asked, TRUE))
      BY <1>3 DEF Repeats
    <3>2. Packet(client.asked, TRUE) \in ClientUnits
      BY <1>1, UnitTypes
    <3>3. /\ Len(toServer') = Len(toServer) + 1
          /\ toServer'[Len(toServer) + 1] = Packet(client.asked, TRUE)
          /\ \A i \in 1 .. Len(toServer) : toServer'[i] = toServer[i]
      <4> DEFINE u == Packet(client.asked, TRUE)
      <4>1. toServer \in Seq(ClientUnits) /\ u \in ClientUnits /\ toServer' = Append(toServer, u)
        BY <1>1, <3>1, <3>2
      <4> HIDE DEF u
      <4>2. /\ Len(toServer') = Len(toServer) + 1
            /\ toServer'[Len(toServer) + 1] = u
            /\ \A i \in 1 .. Len(toServer) : toServer'[i] = toServer[i]
        BY <4>1, AppendUnit
      <4> QED BY <4>2 DEF u
    <3>4. \A i \in 1 .. k : i < k => i \in 1 .. Len(toServer)
      OBVIOUS
    <3> QED BY <3>3, <3>4 DEF Only
  <2>2. \A i \in 1 .. k : ~(i > k)
    BY <2>1
  <2>3. IsSentAt(k)'
    BY <1>3, <2>1, <2>2 DEF IsSentAt, Repeats
  <2>4. \E j \in 1 .. Len(toServer') : IsSentAt(j)'
    BY <2>1, <2>3
  <2>5. toClient' = <<>>
    BY <1>3 DEF Repeats, Takes
  <2>6. Sent'
    BY <1>1, <1>3, <2>4, <2>5 DEF Repeats, Takes, Sent, ServerWaits
  <2> QED BY <2>6 DEF Stage
<1>4. ~HearsLate /\ ~GoesOn /\ \A t \in Texts : ~Halts(t)
  BY <1>1, OnlyAcksRead DEF HearsLate, GoesOn, Halts
<1>5. ASSUME NEW c \in Commands
      PROVE ~Refuses(c) /\ ~Quits(c) /\ ~Starts(c) /\ \A t \in Texts : ~Answers(c, t)
  BY <1>1, OnlyAcksRead DEF Refuses, Quits, Starts, Answers
<1>6. ~SendsCtrlC /\ \A c \in Commands, good \in BOOLEAN : ~Sends(c, good)
  BY DEF SendsCtrlC, Sends
<1>7. \A u : Takes(u) => u = Minus
  BY DEF Takes
<1>8. ~HearsAck /\ \A u \in ReplyUnits : ~Ignores(u) /\ ~Accepts_Reply(u) /\ ~Rejects(u)
  <2>1. Plus # Minus /\ Minus \notin ReplyUnits
    BY UnitsDiffer DEF ReplyUnits
  <2> QED BY <1>7, <2>1 DEF HearsAck, Ignores, Accepts_Reply, Rejects
<1> QED BY <1>2, <1>3, <1>4, <1>5, <1>6, <1>8 DEF Move

(***************************************************************************)
(* While a command is served only Ctrl-C arrives; a stop that is not late  *)
(* has no unread one behind it.                                            *)
(***************************************************************************)
LEMMA RunningStep ==
  ASSUME TypeOK, ServingInv, AskedInv, Running, Move, ~seen'.late PROVE Stage'
<1> USE DEF Running
<1>1. /\ toServer \in Seq(ClientUnits) /\ toClient \in Seq(ServerUnits)
      /\ phase \in {"head", "check", "after"} /\ serving \in {"s", "c"}
      /\ Len(toServer) \in Nat
  BY DEF TypeOK, ServingInv
<1>2. \A u : ~Reads(u)
  BY <1>1 DEF Reads
<1>3. CASE GoesOn /\ UNCHANGED client
  BY <1>3 DEF GoesOn, streams, Owed, Stage
<1>4. ASSUME NEW t \in Texts, Halts(t), UNCHANGED client PROVE Stage'
  <2>1. NoCtrlC(toServer') /\ Only(toServer', {CtrlC})
    <3>1. NoCtrlC(toServer') /\ (toServer' = toServer \/ (toServer # <<>> /\ toServer' = Tail(toServer)))
      BY <1>4 DEF Halts, CtrlCIsNext
    <3>2. Only(toServer', {CtrlC})
      BY <1>1, <3>1, TailUnits DEF Only
    <3> QED BY <3>1, <3>2
  <2>2. Only(toServer', Acks)
    BY <2>1 DEF Only, NoCtrlC
  <2>3. toClient' = Owed' \o <<Reply(t, client'.asked.op)>>
    <3>1. toClient' = toClient \o <<Reply(t, serving)>>
      BY <1>1, <1>4 DEF Halts
    <3> QED BY <1>4, <3>1 DEF Owed
  <2>4. UNCHANGED noAck /\ phase' = "read" /\ client.noAck \in BOOLEAN /\ noAck \in BOOLEAN
    BY <1>4, TypeParts DEF Halts, ClientTypeOK, ClientType, ServerType
  <2>5. client.asked.op \in {"s", "c"} /\ client' = client
    BY <1>1, <1>4
  <2>6. Replied'
    BY <2>2, <2>3, <2>4, <2>5 DEF Replied
  <2> QED BY <2>6 DEF Stage
<1>5. CASE SendsCtrlC
  <2>1. Only(toServer', {CtrlC})
    BY <1>1, <1>5, AppendUnit, UnitTypes DEF SendsCtrlC, Only
  <2> QED BY <1>5, <2>1 DEF SendsCtrlC, ServerWaits, Owed, Stage
<1>6. CASE HearsAck
  <2>1. client.waiting = "ack" /\ toClient = <<Plus>>
    BY <1>6 DEF HearsAck, Takes, Owed
  <2>2. client'.waiting = "reply" /\ toClient' = <<>>
    BY <1>1, <1>6, <2>1 DEF HearsAck, Takes
  <2> QED BY <1>6, <2>2 DEF HearsAck, Takes, ServerWaits, Owed, Stage
<1>7. \A u : Takes(u) => u = Plus
  BY DEF Takes, Owed
<1>8. ~Repeats /\ \A u \in ReplyUnits : ~Ignores(u) /\ ~Accepts_Reply(u) /\ ~Rejects(u)
  <2>1. Plus # Minus /\ Plus \notin ReplyUnits
    BY UnitsDiffer DEF ReplyUnits
  <2> QED BY <1>7, <2>1 DEF Repeats, Ignores, Accepts_Reply, Rejects
<1>9. ASSUME NEW c \in Commands
      PROVE /\ ~Refuses(c) /\ ~Quits(c) /\ ~Starts(c) /\ \A t \in Texts : ~Answers(c, t)
            /\ \A good \in BOOLEAN : ~Sends(c, good)
  BY <1>2 DEF Refuses, Quits, Starts, Answers, Sends
<1>10. ~Skips /\ ~HearsLate
  BY <1>2 DEF Skips, HearsLate
<1> QED BY <1>3, <1>4, <1>5, <1>6, <1>8, <1>9, <1>10 DEF Move

(***************************************************************************)
(* An answered command: the answer is heard, once the acknowledgement is.  *)
(***************************************************************************)
LEMMA RepliedStep ==
  ASSUME TypeOK, ServingInv, AskedInv, Replied, Move, ~seen'.late PROVE Stage'
<1> USE DEF Replied
<1>1. /\ toServer \in Seq(ClientUnits) /\ toClient \in Seq(ServerUnits)
      /\ serving = "none" /\ client.noAck \in BOOLEAN /\ noAck \in BOOLEAN
  BY TypeParts DEF TypeOK, ServingInv, ClientTypeOK, ClientType
<1>2. PICK text \in Texts : toClient = Owed \o <<Reply(text, client.asked.op)>>
  OBVIOUS
<1> DEFINE reply == Reply(text, client.asked.op)
<1>16. toClient = Owed \o <<reply>>
  BY <1>2
<1>4. reply.unit = "reply" /\ reply # Plus /\ reply # Minus /\ Plus # Minus /\ Plus \notin ReplyUnits
  BY UnitsDiffer DEF ReplyUnits
<1> HIDE DEF reply
<1>3. IF client.waiting = "ack" THEN toClient = <<Plus, reply>> ELSE toClient = <<reply>>
  BY <1>16, ShortStreams DEF Owed
<1>5. CASE Skips /\ UNCHANGED client
  <2>1. Only(toServer', Acks)
    BY <1>1, <1>5, OnlyAcksRead DEF Skips
  <2>2. Replied'
    BY <1>5, <2>1 DEF Skips, Owed
  <2> QED BY <2>2 DEF Stage
<1>6. CASE HearsAck
  <2>1. client.waiting = "ack" /\ toClient = <<Plus, reply>>
    BY <1>3, <1>4, <1>6, ShortStreams DEF HearsAck, Takes
  <2>2. client'.waiting = "reply" /\ toClient' = <<reply>>
    <3>1. Head(toClient) = Plus /\ Tail(toClient) = <<reply>>
      BY <2>1, ShortStreams
    <3> QED BY <1>6, <2>1, <3>1 DEF HearsAck, Takes
  <2>3. toClient' = Owed' \o <<Reply(text, client'.asked.op)>>
    BY <1>6, <2>2 DEF HearsAck, Owed, reply
  <2>4. Replied'
    BY <1>6, <2>2, <2>3 DEF HearsAck, Takes, ServerWaits
  <2> QED BY <2>4 DEF Stage
<1>7. ASSUME NEW u \in ReplyUnits, Accepts_Reply(u) \/ Rejects(u)
      PROVE client.waiting = "reply" /\ toClient' = <<>>
  BY <1>3, <1>7 DEF Accepts_Reply, Rejects, Takes
<1>8. ASSUME NEW u \in Acks PROVE Only(Append(toServer, u), Acks)
  BY <1>1, AppendUnit, UnitTypes DEF Only, Acks
<1>9. ASSUME NEW u \in ReplyUnits, Accepts_Reply(u) PROVE Stage'
  <2>1. Only(toServer', Acks)
    BY <1>8, <1>9 DEF Accepts_Reply, Acks
  <2>2. CASE client.asked.op = "D"
    BY <1>7, <1>9, <2>2 DEF Accepts_Reply, Takes, ServerWaits, Leaving, Owed, Stage
  <2>3. CASE client.asked.op # "D"
    BY <1>1, <1>7, <1>9, <2>1, <2>3 DEF Accepts_Reply, Takes, ServerWaits, Resting, Stage
  <2> QED BY <2>2, <2>3
<1>10. ASSUME NEW u \in ReplyUnits, Rejects(u) PROVE Stage'
  <2>1. Only(toServer', Acks)
    BY <1>8, <1>10 DEF Rejects, Acks
  <2> QED BY <1>7, <1>10, <2>1 DEF Rejects, Takes, ServerWaits, Unheard, Stage
<1>11. ~SendsCtrlC
  <2>1. ~Waiting(Packet(client.asked, TRUE))
    BY <1>1, NotWaiting
  <2> QED BY <1>1, <2>1 DEF SendsCtrlC
<1>12. \A u : Takes(u) => u = (IF client.waiting = "ack" THEN Plus ELSE reply)
  BY <1>3, ShortStreams DEF Takes
<1>13. ~Repeats /\ \A u \in ReplyUnits : ~Ignores(u)
  BY <1>4, <1>12 DEF Repeats, Ignores
<1>14. ~HearsLate /\ ~GoesOn /\ \A t \in Texts : ~Halts(t)
  BY <1>1, OnlyAcksRead DEF HearsLate, GoesOn, Halts
<1>15. ASSUME NEW c \in Commands
       PROVE /\ ~Refuses(c) /\ ~Quits(c) /\ ~Starts(c) /\ \A t \in Texts : ~Answers(c, t)
             /\ \A good \in BOOLEAN : ~Sends(c, good)
  BY <1>1, OnlyAcksRead DEF Refuses, Quits, Starts, Answers, Sends
<1> QED BY <1>5, <1>6, <1>9, <1>10, <1>11, <1>13, <1>14, <1>15 DEF Move

(***************************************************************************)
(* A refused answer does not come again.                                   *)
(***************************************************************************)
LEMMA UnheardStep ==
  ASSUME TypeOK, ServingInv, Unheard, Move, ~seen'.late PROVE Stage'
<1> USE DEF Unheard
<1>1. toServer \in Seq(ClientUnits) /\ serving = "none"
  BY DEF TypeOK, ServingInv
<1>2. CASE Skips /\ UNCHANGED client
  <2>1. Only(toServer', Acks)
    BY <1>1, <1>2, OnlyAcksRead DEF Skips
  <2> QED BY <1>2, <2>1 DEF Skips, Stage
<1>3. ~SendsCtrlC
  <2>1. ~Waiting(Packet(client.asked, TRUE))
    BY <1>1, NotWaiting
  <2> QED BY <1>1, <2>1 DEF SendsCtrlC
<1>4. ~HearsLate /\ ~GoesOn /\ \A t \in Texts : ~Halts(t)
  BY <1>1, OnlyAcksRead DEF HearsLate, GoesOn, Halts
<1>5. ASSUME NEW c \in Commands
      PROVE /\ ~Refuses(c) /\ ~Quits(c) /\ ~Starts(c) /\ \A t \in Texts : ~Answers(c, t)
            /\ \A good \in BOOLEAN : ~Sends(c, good)
  BY <1>1, OnlyAcksRead DEF Refuses, Quits, Starts, Answers, Sends
<1>6. ~HearsAck /\ ~Repeats /\ \A u \in ReplyUnits : ~Ignores(u) /\ ~Accepts_Reply(u) /\ ~Rejects(u)
  BY DEF HearsAck, Repeats, Ignores, Accepts_Reply, Rejects, Takes
<1> QED BY <1>2, <1>3, <1>4, <1>5, <1>6 DEF Move

(***************************************************************************)
(* The last acknowledgement is all that is still to be heard.              *)
(***************************************************************************)
LEMMA LeavingStep ==
  ASSUME TypeOK, ServingInv, Leaving, Move PROVE Stage'
<1> USE DEF Leaving
<1>1. serving = "none" /\ \A u : ~Reads(u)
  BY DEF TypeOK, ServingInv, Reads
<1>2. CASE HearsAck
  <2>1. client.waiting = "ack" /\ toClient = <<Plus>>
    BY <1>2 DEF HearsAck, Takes, Owed
  <2>2. client'.waiting = "done" /\ toClient' = <<>>
    BY <1>2, <2>1 DEF HearsAck, Takes
  <2> QED BY <1>2, <2>2 DEF HearsAck, Takes, ServerWaits, Owed, Stage
<1>3. \A u : Takes(u) => u = Plus
  BY DEF Takes, Owed
<1>4. ~Repeats /\ \A u \in ReplyUnits : ~Ignores(u) /\ ~Accepts_Reply(u) /\ ~Rejects(u)
  <2>1. Plus # Minus /\ Plus \notin ReplyUnits
    BY UnitsDiffer DEF ReplyUnits
  <2> QED BY <1>3, <2>1 DEF Repeats, Ignores, Accepts_Reply, Rejects
<1>5. ~Skips /\ ~HearsLate /\ ~GoesOn /\ (\A t \in Texts : ~Halts(t)) /\ ~SendsCtrlC
  BY <1>1 DEF Skips, HearsLate, GoesOn, Halts, SendsCtrlC
<1>6. ASSUME NEW c \in Commands
      PROVE /\ ~Refuses(c) /\ ~Quits(c) /\ ~Starts(c) /\ \A t \in Texts : ~Answers(c, t)
            /\ \A good \in BOOLEAN : ~Sends(c, good)
  BY <1>1 DEF Refuses, Quits, Starts, Answers, Sends
<1> QED BY <1>2, <1>4, <1>5, <1>6 DEF Move

(***************************************************************************)
(* A Ctrl-C that came too late stays one.                                  *)
(***************************************************************************)
LEMMA LateStays ==
  ASSUME Move, ~seen'.late PROVE ~seen.late
BY DEF Move, Skips, HearsLate, GoesOn, Halts, Refuses, Quits, Starts, Answers, Sends, SendsCtrlC,
       HearsAck, Repeats, Ignores, Accepts_Reply, Rejects

(***************************************************************************)
(* The stages follow one another.                                          *)
(***************************************************************************)
LEMMA StageStep ==
  ASSUME TypeOK, ServingInv, AskedInv, StageInv, [Next]_vars PROVE StageInv'
<1> SUFFICES ASSUME client'.connected, ~seen'.late PROVE Stage'
  BY DEF StageInv
<1>1. client.connected /\ (Move \/ UNCHANGED <<streams, client, phase, serving, noAck, seen>>)
  BY NextMoves
<1>2. CASE Move
  <2>1. Stage
    BY <1>1, <1>2, LateStays DEF StageInv
  <2> QED BY <1>2, <2>1, RestingStep, SentStep, RefusedStep, RunningStep, RepliedStep,
             UnheardStep, LeavingStep DEF Stage
<1>3. CASE UNCHANGED <<streams, client, phase, serving, noAck, seen>>
  BY <1>1, <1>3 DEF StageInv, Stage, Resting, Sent, IsSentAt, Refused, Running, Replied, Unheard,
                    Leaving, Owed, Only, streams
<1> QED BY <1>1, <1>2, <1>3

(***************************************************************************)
(* The conversation is always in a stage, from the first state on.         *)
(***************************************************************************)
LEMMA GdbStages == Spec => []StageInv
<1>1. Init => StageInv
  <2> SUFFICES ASSUME Init PROVE Resting
    BY DEF StageInv, Stage
  <2>1. client.waiting = "idle" /\ client.noAck = FALSE
    BY DEF Init
  <2>2. Only(toServer, Acks)
    BY DEF Init, Only
  <2> QED BY <2>1, <2>2 DEF Init, Resting
<1> QED BY <1>1, StageStep, GdbTypes, PTL DEF Spec

(***************************************************************************)
(* What the debugger takes for its answer is one: the conversation has at  *)
(* most one reply on its way to a debugger that waits for it, unless a     *)
(* Ctrl-C came too late.                                                   *)
(***************************************************************************)
THEOREM AnswersAreMatched == Spec => []AnswersMatch
<1>1. TypeOK /\ StageInv => AnswersMatch
  <2> SUFFICES ASSUME TypeOK, Stage,
                      NEW i \in DOMAIN toClient, IsReply(toClient[i])
               PROVE /\ toClient[i].to = client.asked.op /\ client.waiting \in {"ack", "reply"}
                     /\ \A j \in DOMAIN toClient : IsReply(toClient[j]) => j = i
    BY DEF StageInv, AnswersMatch
  <2>1. ~IsReply(Plus) /\ ~IsReply(Minus)
    BY UnitsDiffer DEF IsReply
  <2>2. toClient # <<>> /\ toClient # <<Minus>> /\ toClient # Owed
    BY <2>1 DEF Owed
  <2>3. Replied
    BY <2>2 DEF Stage, Resting, Sent, Refused, Running, Unheard, Leaving
  <2>4. PICK text \in Texts : toClient = Owed \o <<Reply(text, client.asked.op)>>
    BY <2>3 DEF Replied
  <2> DEFINE reply == Reply(text, client.asked.op)
  <2>5. toClient = <<Plus, reply>> \/ toClient = <<reply>>
    BY <2>4, ShortStreams DEF Owed
  <2>6. reply.to = client.asked.op
    BY UnitsDiffer
  <2> HIDE DEF reply
  <2>7. toClient[i] = reply /\ \A j \in DOMAIN toClient : IsReply(toClient[j]) => j = i
    BY <2>1, <2>5
  <2> QED BY <2>3, <2>6, <2>7 DEF Replied
<1> QED BY <1>1, GdbTypes, GdbStages, PTL

----------------------------------------------------------------------------
(***************************************************************************)
(* Acknowledgements, whatever Ctrl-C does to the order of the answers.     *)
(* A debugger that waits for one has its command on the way, or the        *)
(* acknowledgement or the refusal of it, and never two of these; one that  *)
(* does not has none of them.                                              *)
(***************************************************************************)
OneOf(s, units, others) ==
  \E k \in 1 .. Len(s) : s[k] \in units /\ \A i \in 1 .. Len(s) : i # k => s[i] \in others

(***************************************************************************)
(* A unit of the kind put behind a stream of units of a kind.              *)
(***************************************************************************)
LEMMA OnlyAppend ==
  ASSUME NEW S, NEW s \in Seq(S), NEW R, NEW u \in S, Only(s, R), u \in R
  PROVE Only(Append(s, u), R)
BY AppendUnit DEF Only

(***************************************************************************)
(* A stream of units of a kind without its first.                          *)
(***************************************************************************)
LEMMA OnlyTail ==
  ASSUME NEW S, NEW s \in Seq(S), NEW R, s # <<>>, Only(s, R)
  PROVE Head(s) \in R /\ Only(Tail(s), R)
BY TailUnits DEF Only

(***************************************************************************)
(* A unit put at the end is one of the others, or the first of its kind.   *)
(***************************************************************************)
LEMMA OneOfAppend ==
  ASSUME NEW S, NEW s \in Seq(S), NEW X, NEW R, NEW u \in S,
         (OneOf(s, X, R) /\ u \in R) \/ (Only(s, R) /\ u \in X)
  PROVE OneOf(Append(s, u), X, R)
<1>1. CASE Only(s, R) /\ u \in X
  <2>1. Len(s) + 1 \in 1 .. Len(Append(s, u))
    BY AppendUnit
  <2> QED BY <1>1, <2>1, AppendUnit DEF OneOf, Only
<1>2. CASE OneOf(s, X, R) /\ u \in R
  <2>1. PICK k \in 1 .. Len(s) : s[k] \in X /\ \A i \in 1 .. Len(s) : i # k => s[i] \in R
    BY <1>2 DEF OneOf
  <2>2. k \in 1 .. Len(Append(s, u)) /\ Append(s, u)[k] \in X
    BY <2>1, AppendUnit
  <2>3. ASSUME NEW i \in 1 .. Len(Append(s, u)), i # k PROVE Append(s, u)[i] \in R
    <3>1. i \in 1 .. Len(s) \/ i = Len(s) + 1
      BY AppendUnit
    <3> QED BY <1>2, <2>1, <2>3, <3>1, AppendUnit
  <2> QED BY <2>2, <2>3 DEF OneOf
<1> QED BY <1>1, <1>2

(***************************************************************************)
(* The unit taken off is the one, and only others are left, or an other.   *)
(***************************************************************************)
LEMMA OneOfTail ==
  ASSUME NEW S, NEW s \in Seq(S), NEW X, NEW R, s # <<>>, OneOf(s, X, R)
  PROVE \/ Head(s) \in X /\ Only(Tail(s), R)
        \/ Head(s) \in R /\ OneOf(Tail(s), X, R)
<1>1. PICK k \in 1 .. Len(s) : s[k] \in X /\ \A i \in 1 .. Len(s) : i # k => s[i] \in R
  BY DEF OneOf
<1>2. Head(s) = s[1] /\ 1 \in 1 .. Len(s)
  BY TailUnits
<1>3. CASE k = 1
  <2>1. \A i \in 1 .. Len(Tail(s)) : Tail(s)[i] = s[i + 1] /\ i + 1 \in 1 .. Len(s) /\ i + 1 # 1
    BY TailUnits
  <2>2. Only(Tail(s), R)
    BY <1>1, <1>3, <2>1 DEF Only
  <2> QED BY <1>1, <1>2, <1>3, <2>2
<1>4. CASE k # 1
  <2>1. k - 1 \in 1 .. Len(Tail(s)) /\ Tail(s)[k - 1] = s[k]
    BY <1>4, TailUnits
  <2>2. ASSUME NEW i \in 1 .. Len(Tail(s)), i # k - 1 PROVE Tail(s)[i] \in R
    <3>1. Tail(s)[i] = s[i + 1] /\ i + 1 \in 1 .. Len(s) /\ i + 1 # k
      BY <2>2, TailUnits
    <3> QED BY <1>1, <3>1
  <2>3. OneOf(Tail(s), X, R)
    BY <1>1, <2>1, <2>2 DEF OneOf
  <2> QED BY <1>1, <1>2, <1>4, <2>3
<1> QED BY <1>3, <1>4

Others == {Plus, Minus, CtrlC}
Asked == {Packet(client.asked, TRUE), Packet(client.asked, FALSE)}

AckDue ==
  /\ client.waiting = "ack" /\ ~client.noAck /\ noAck = FALSE
  /\ OneOf(toServer, Asked, Others) /\ Only(toClient, ReplyUnits)

AckRefused ==
  /\ client.waiting = "ack" /\ ~client.noAck /\ noAck = FALSE
  /\ Only(toServer, Others) /\ OneOf(toClient, {Minus}, ReplyUnits)

AckComing ==
  /\ client.waiting = "ack" /\ ~client.noAck /\ noAck = (client.asked.op = "noack")
  /\ Only(toServer, Others) /\ OneOf(toClient, {Plus}, ReplyUnits)

NoneDue ==
  /\ client.waiting # "ack" /\ ~client.noAck
  /\ Only(toServer, Others) /\ Only(toClient, ReplyUnits)
  /\ client.waiting = "idle" => noAck = FALSE
  /\ client.waiting = "reply" => noAck = (client.asked.op = "noack")

NoAcks == client.noAck /\ noAck = TRUE /\ Only(toClient, ReplyUnits)

AckInv == client.connected => AckDue \/ AckRefused \/ AckComing \/ NoneDue \/ NoAcks

(***************************************************************************)
(* Acknowledgements, replies, packets and Ctrl-C are different units.      *)
(***************************************************************************)
LEMMA UnitSets ==
  /\ Asked \cap Others = {} /\ {Plus} \cap ReplyUnits = {} /\ {Minus} \cap ReplyUnits = {}
  /\ ReplyUnits \subseteq ServerUnits /\ Others \subseteq ClientUnits
  /\ \A c, good : Packet(c, good) \notin Others
  /\ Plus # Minus
  /\ \A t \in Texts, op \in Ops \union {"0x03"} : Reply(t, op) \in ReplyUnits
<1>1. /\ ReplyUnits \subseteq ServerUnits /\ Others \subseteq ClientUnits
      /\ \A t \in Texts, op \in Ops \union {"0x03"} : Reply(t, op) \in ReplyUnits
  BY DEF ReplyUnits, ServerUnits, Others, ClientUnits
<1>2. \A u \in ReplyUnits : u.unit = "reply"
  BY UnitsDiffer DEF ReplyUnits
<1>3. {Plus} \cap ReplyUnits = {} /\ {Minus} \cap ReplyUnits = {} /\ Plus # Minus
  BY <1>2, UnitsDiffer
<1>4. \A c, good : Packet(c, good) \notin Others
  BY UnitsDiffer DEF Others
<1>5. Asked \cap Others = {}
  BY <1>4 DEF Asked
<1> QED BY <1>1, <1>3, <1>4, <1>5

(***************************************************************************)
(* What a move of the server that reads no packet does to the streams.     *)
(***************************************************************************)
Quiet ==
  /\ toServer' = toServer \/ (toServer # <<>> /\ Head(toServer) \in Others /\ toServer' = Tail(toServer))
  /\ toClient' = toClient \/ \E u \in ReplyUnits : toClient' = Append(toClient, u)
  /\ UNCHANGED <<client, noAck>>

(***************************************************************************)
(* Skipping, answering a late Ctrl-C, going on and stopping read no packet.*)
(***************************************************************************)
LEMMA QuietMoves ==
  ASSUME TypeOK, UNCHANGED client, Skips \/ HearsLate \/ GoesOn \/ \E t \in Texts : Halts(t)
  PROVE Quiet
<1> USE DEF Quiet, Others
<1>1. CASE Skips
  BY <1>1 DEF Skips, Reads
<1>2. CASE HearsLate
  <2>1. Reply("S02", "0x03") \in ReplyUnits
    BY UnitSets DEF Texts
  <2> QED BY <1>2, <2>1 DEF HearsLate, Reads
<1>3. CASE GoesOn
  BY <1>3 DEF GoesOn, streams
<1>4. ASSUME NEW t \in Texts, Halts(t) PROVE Quiet
  <2>1. serving \in Ops
    BY <1>4 DEF TypeOK, Halts, Ops
  <2>2. Reply(t, serving) \in ReplyUnits
    BY <2>1, UnitSets
  <2> QED BY <1>4, <2>2 DEF Halts, CtrlCIsNext
<1> QED BY <1>1, <1>2, <1>3, <1>4

(***************************************************************************)
(* They do not change who owes what.                                       *)
(***************************************************************************)
LEMMA QuietAcks ==
  ASSUME TypeOK, client.connected, AckInv, Quiet PROVE AckInv'
<1>1. toServer \in Seq(ClientUnits) /\ toClient \in Seq(ServerUnits)
  BY DEF TypeOK
<1>7. \/ toServer' = toServer
      \/ toServer # <<>> /\ Head(toServer) \in Others /\ toServer' = Tail(toServer)
  BY DEF Quiet
<1>8. toClient' = toClient
      \/ \E u \in ReplyUnits : u \in ServerUnits /\ toClient' = Append(toClient, u)
  BY UnitSets DEF Quiet
<1>2. Only(toServer, Others) => Only(toServer', Others)
  BY <1>1, <1>7, OnlyTail
<1>3. OneOf(toServer, Asked, Others) => OneOf(toServer', Asked, Others)
  <2>1. ASSUME toServer # <<>>, Head(toServer) \in Others, OneOf(toServer, Asked, Others)
        PROVE OneOf(Tail(toServer), Asked, Others)
    <3>1. Head(toServer) \notin Asked
      BY <2>1, UnitSets
    <3> QED BY <1>1, <2>1, <3>1, OneOfTail
  <2> QED BY <1>7, <2>1
<1>4. Only(toClient, ReplyUnits) => Only(toClient', ReplyUnits)
  BY <1>1, <1>8, OnlyAppend
<1>5. ASSUME NEW unit \in {Plus, Minus}, OneOf(toClient, {unit}, ReplyUnits)
      PROVE OneOf(toClient', {unit}, ReplyUnits)
  BY <1>1, <1>5, <1>8, OneOfAppend
<1>6. client' = client /\ noAck' = noAck /\ Asked' = Asked
  BY DEF Quiet, Asked
<1> QED BY <1>2, <1>3, <1>4, <1>5, <1>6
        DEF AckInv, AckDue, AckRefused, AckComing, NoneDue, NoAcks, Asked

(***************************************************************************)
(* A packet read: one that was due, or one of a debugger that wants no     *)
(* acknowledgements.                                                       *)
(***************************************************************************)
LEMMA PacketRead ==
  ASSUME TypeOK, client.connected, AckInv, NEW c \in Commands, NEW good \in BOOLEAN,
         Reads(Packet(c, good))
  PROVE \/ AckDue /\ c = client.asked /\ Only(toServer', Others)
        \/ NoAcks
<1>1. /\ toServer \in Seq(ClientUnits) /\ toServer # <<>> /\ Head(toServer) = Packet(c, good)
      /\ toServer' = Tail(toServer)
  BY DEF TypeOK, Reads
<1>2. Packet(c, good) \notin Others
  BY UnitSets
<1>3. ~Only(toServer, Others)
  BY <1>1, <1>2, OnlyTail
<1>4. ASSUME AckDue PROVE c = client.asked /\ Only(toServer', Others)
  <2>1. Packet(c, good) \in Asked /\ Only(toServer', Others)
    BY <1>1, <1>2, <1>4, OneOfTail DEF AckDue
  <2>2. c = client.asked
    BY <2>1, SamePacket DEF Asked
  <2> QED BY <2>1, <2>2
<1> QED BY <1>3, <1>4 DEF AckInv, AckRefused, AckComing, NoneDue

(***************************************************************************)
(* Units put behind the stream to the debugger one after the other.        *)
(***************************************************************************)
LEMMA SaysUnits ==
  ASSUME NEW s \in Seq(ServerUnits), NEW u \in ServerUnits, NEW v \in ServerUnits
  PROVE /\ s \o <<>> = s /\ s \o <<u>> = Append(s, u)
        /\ s \o (<<u>> \o <<v>>) = Append(Append(s, u), v)
        /\ s \o (<<>> \o <<v>>) = Append(s, v)
        /\ Append(s, u) \in Seq(ServerUnits)
<1>1. s \o <<>> = s
  BY EmptyConcat
<1>2. s \o <<u>> = Append(s, u) /\ s \o <<v>> = Append(s, v)
  BY AppendIsConcat
<1>3. <<>> \o <<v>> = <<v>>
  BY ShortStreams
<1>4. Append(s, u) \in Seq(ServerUnits)
  BY AppendUnit
<1>5. s \o (<<u>> \o <<v>>) = Append(Append(s, u), v)
  <2>1. <<u>> \in Seq(ServerUnits) /\ <<v>> \in Seq(ServerUnits)
    OBVIOUS
  <2>2. s \o (<<u>> \o <<v>>) = (s \o <<u>>) \o <<v>>
    BY <2>1, ConcatAssociative
  <2>3. Append(s, u) \o <<v>> = Append(Append(s, u), v)
    BY <1>4, AppendIsConcat
  <2> QED BY <1>2, <2>2, <2>3
<1> QED BY <1>1, <1>2, <1>3, <1>4, <1>5

(***************************************************************************)
(* The answer to a packet is what its debugger waits for.                  *)
(***************************************************************************)
LEMMA PacketAcks ==
  ASSUME TypeOK, client.connected, AckInv, UNCHANGED client, NEW c \in Commands,
         Refuses(c) \/ Quits(c) \/ Starts(c) \/ \E t \in Texts : Answers(c, t)
  PROVE AckInv'
<1>1. /\ toClient \in Seq(ServerUnits) /\ noAck \in BOOLEAN
      /\ Plus \in ServerUnits /\ Minus \in ServerUnits /\ c.op \in Ops
  BY UnitTypes, CommandFields DEF TypeOK
<1>2. Asked' = Asked
  BY DEF Asked
<1>3. ASSUME NEW t \in Texts PROVE Reply(t, c.op) \in ReplyUnits /\ Reply(t, c.op) \in ServerUnits
  BY <1>1, UnitSets
<1>4. CASE NoAcks
  <2>1. Ack(Plus) = <<>> /\ Ack(Minus) = <<>>
    BY <1>4 DEF NoAcks, Ack
  <2>2. toClient' = toClient \/ \E t \in Texts : toClient' = Append(toClient, Reply(t, c.op))
    <3>1. CASE Refuses(c) \/ Quits(c) \/ Starts(c)
      BY <1>1, <2>1, <3>1, EmptyConcat DEF Refuses, Quits, Starts
    <3>2. ASSUME NEW t \in Texts, Answers(c, t)
          PROVE toClient' = Append(toClient, Reply(t, c.op))
      <4>1. toClient \o (<<>> \o <<Reply(t, c.op)>>) = Append(toClient, Reply(t, c.op))
        BY <1>1, <1>3, SaysUnits
      <4> QED BY <2>1, <3>2, <4>1 DEF Answers
    <3> QED BY <3>1, <3>2
  <2>3. Only(toClient', ReplyUnits)
    BY <1>1, <1>3, <1>4, <2>2, OnlyAppend DEF NoAcks
  <2>4. noAck' = TRUE
    BY <1>4 DEF NoAcks, Refuses, Quits, Starts, Answers
  <2> QED BY <1>4, <2>3, <2>4 DEF NoAcks, AckInv
<1>5. CASE /\ AckDue /\ Only(toServer', Others) /\ c = client.asked
  <2>1. Ack(Plus) = <<Plus>> /\ Ack(Minus) = <<Minus>>
    BY <1>5 DEF AckDue, Ack
  <2>2. ASSUME NEW u \in {Plus, Minus} PROVE OneOf(Append(toClient, u), {u}, ReplyUnits)
    BY <1>1, <1>5, OneOfAppend DEF AckDue
  <2>3. CASE Refuses(c)
    <3>1. toClient' = Append(toClient, Minus)
      BY <1>1, <2>1, <2>3, SaysUnits DEF Refuses
    <3>2. AckRefused'
      BY <1>5, <2>2, <2>3, <3>1 DEF AckDue, AckRefused, Refuses
    <3> QED BY <3>2 DEF AckInv
  <2>4. CASE Quits(c) \/ Starts(c)
    <3>1. toClient' = Append(toClient, Plus)
      BY <1>1, <2>1, <2>4, SaysUnits DEF Quits, Starts
    <3>2. c.op # "noack" /\ UNCHANGED noAck
      BY <2>4 DEF Quits, Starts
    <3>3. AckComing'
      BY <1>5, <2>2, <3>1, <3>2 DEF AckDue, AckComing
    <3> QED BY <3>3 DEF AckInv
  <2>5. ASSUME NEW t \in Texts, Answers(c, t) PROVE AckInv'
    <3>1. toClient' = Append(Append(toClient, Plus), Reply(t, c.op))
      BY <1>1, <1>3, <2>1, <2>5, SaysUnits DEF Answers
    <3>2. Append(toClient, Plus) \in Seq(ServerUnits) /\ OneOf(Append(toClient, Plus), {Plus}, ReplyUnits)
      BY <1>1, <2>2, AppendUnit
    <3>3. OneOf(toClient', {Plus}, ReplyUnits)
      BY <1>3, <3>1, <3>2, OneOfAppend
    <3>4. noAck' = (c.op = "noack")
      BY <1>5, <2>5 DEF AckDue, Answers
    <3>5. AckComing'
      BY <1>5, <3>3, <3>4 DEF AckDue, AckComing
    <3> QED BY <3>5 DEF AckInv
  <2> QED BY <2>3, <2>4, <2>5
<1>6. \E good \in BOOLEAN : Reads(Packet(c, good))
  BY DEF Refuses, Quits, Starts, Answers
<1> QED BY <1>4, <1>5, <1>6, PacketRead

(***************************************************************************)
(* The debugger's moves.                                                   *)
(***************************************************************************)
LEMMA ClientAcks ==
  ASSUME TypeOK, AskedInv, client.connected, AckInv,
         \/ \E c \in Commands, good \in BOOLEAN : Sends(c, good)
         \/ SendsCtrlC \/ HearsAck \/ Repeats
         \/ \E u \in ReplyUnits : Ignores(u) \/ Accepts_Reply(u) \/ Rejects(u)
  PROVE AckInv'
<1> USE DEF AckInv
<1>1. /\ toClient \in Seq(ServerUnits) /\ toServer \in Seq(ClientUnits)
      /\ noAck \in BOOLEAN /\ client.noAck \in BOOLEAN
  BY TypeParts DEF TypeOK, ClientTypeOK, ClientType
<1>2. ASSUME NEW u \in Others, Only(toServer, Others) PROVE Only(Append(toServer, u), Others)
  BY <1>1, <1>2, UnitSets, OnlyAppend
<1>3. ASSUME NEW u, Takes(u), Only(toClient, ReplyUnits)
      PROVE u \in ReplyUnits /\ Only(toClient', ReplyUnits)
  BY <1>1, <1>3, OnlyTail DEF Takes
<1>4. ASSUME NEW u, Takes(u), NEW unit \in Acks, OneOf(toClient, {unit}, ReplyUnits)
      PROVE \/ u = unit /\ Only(toClient', ReplyUnits)
            \/ u \in ReplyUnits /\ OneOf(toClient', {unit}, ReplyUnits)
  BY <1>1, <1>4, OneOfTail DEF Takes
<1>5. ASSUME NEW c \in Commands, NEW good \in BOOLEAN, Sends(c, good) PROVE AckInv'
  <2>1. CASE client.noAck
    BY <1>5, <2>1 DEF Sends, ServerWaits, NoAcks, AckDue, AckRefused, AckComing, NoneDue
  <2>2. CASE ~client.noAck
    <3>1. NoneDue /\ noAck = FALSE
      BY <1>5, <2>2 DEF Sends, NoAcks, AckDue, AckRefused, AckComing, NoneDue
    <3>2. Packet(c, good) \in ClientUnits /\ Packet(c, good) \in Asked'
      BY <1>5, UnitTypes DEF Sends, Asked
    <3>3. OneOf(Append(toServer, Packet(c, good)), Asked', Others)
      BY <1>1, <3>1, <3>2, OneOfAppend DEF NoneDue
    <3>4. AckDue'
      BY <1>5, <2>2, <3>1, <3>3 DEF Sends, ServerWaits, NoneDue, AckDue
    <3> QED BY <3>4
  <2> QED BY <2>1, <2>2
<1>6. CASE SendsCtrlC
  <2>1. CtrlC \in Others
    BY DEF Others
  <2> QED BY <1>2, <1>6, <2>1
          DEF SendsCtrlC, ServerWaits, NoAcks, AckDue, AckRefused, AckComing, NoneDue
<1>7. CASE HearsAck
  <2>1. Plus \notin ReplyUnits /\ Plus # Minus /\ Takes(Plus)
    BY <1>7, UnitSets DEF HearsAck
  <2>2. AckComing /\ Only(toClient', ReplyUnits)
    BY <1>3, <1>4, <2>1 DEF AckDue, AckRefused, AckComing, NoneDue, NoAcks, Acks
  <2>3. NoneDue'
    BY <1>7, <2>2 DEF HearsAck, Takes, ServerWaits, AckComing, NoneDue
  <2> QED BY <2>3
<1>8. CASE Repeats
  <2>1. Minus \notin ReplyUnits /\ Plus # Minus /\ Takes(Minus)
    BY <1>8, UnitSets DEF Repeats
  <2>2. AckRefused /\ Only(toClient', ReplyUnits)
    BY <1>3, <1>4, <2>1 DEF AckDue, AckRefused, AckComing, NoneDue, NoAcks, Acks
  <2>3. client.asked \in Commands
    BY <2>2 DEF AskedInv, AckRefused
  <2>4. OneOf(Append(toServer, Packet(client.asked, TRUE)), Asked, Others)
    BY <1>1, <2>2, <2>3, UnitTypes, OneOfAppend DEF AckRefused, Asked
  <2>5. Asked' = Asked
    BY <1>8 DEF Repeats, Asked
  <2>6. AckDue'
    BY <1>8, <2>2, <2>4, <2>5 DEF Repeats, Takes, ServerWaits, AckRefused, AckDue
  <2> QED BY <2>6
<1>9. ASSUME NEW u \in ReplyUnits, Ignores(u) PROVE AckInv'
  <2>1. Takes(u) /\ u # Plus /\ u # Minus /\ client.waiting = "ack" /\ ~client.noAck
    BY <1>9, UnitSets DEF Ignores, AskedInv
  <2>2. UNCHANGED <<client, toServer, noAck>> /\ Asked' = Asked
    BY <1>9 DEF Ignores, Takes, ServerWaits, Asked
  <2>3. CASE AckDue
    BY <1>3, <2>1, <2>2, <2>3 DEF AckDue
  <2>4. CASE AckRefused
    BY <1>4, <2>1, <2>2, <2>4 DEF AckRefused, Acks
  <2>5. CASE AckComing
    BY <1>4, <2>1, <2>2, <2>5 DEF AckComing, Acks
  <2> QED BY <2>1, <2>3, <2>4, <2>5 DEF NoneDue, NoAcks
<1>10. ASSUME NEW u \in ReplyUnits, Accepts_Reply(u) PROVE AckInv'
  <2>1. Takes(u) /\ client.waiting = "reply" /\ Plus \in Others
    BY <1>10 DEF Accepts_Reply, Others
  <2>2. NoneDue \/ NoAcks
    BY <2>1 DEF AckDue, AckRefused, AckComing
  <2>3. Only(toClient', ReplyUnits)
    BY <1>3, <2>1, <2>2 DEF NoneDue, NoAcks
  <2>4. UNCHANGED noAck
    BY <2>1 DEF Takes, ServerWaits
  <2>5. CASE client'.noAck
    <3>1. noAck = TRUE
      BY <1>10, <2>1, <2>2, <2>5 DEF Accepts_Reply, NoneDue, NoAcks
    <3> QED BY <2>3, <2>4, <2>5, <3>1 DEF NoAcks
  <2>6. CASE ~client'.noAck
    <3>1. ~client.noAck /\ client.asked.op # "noack" /\ toServer' = Append(toServer, Plus)
      BY <1>1, <1>10, <2>6 DEF Accepts_Reply
    <3>2. NoneDue /\ noAck = FALSE
      BY <2>1, <2>2, <3>1 DEF NoneDue, NoAcks
    <3>3. Only(toServer', Others)
      BY <1>2, <2>1, <3>1, <3>2 DEF NoneDue
    <3>4. client'.waiting \in {"done", "idle"}
      BY <1>10 DEF Accepts_Reply
    <3>5. NoneDue'
      BY <2>3, <2>4, <2>6, <3>2, <3>3, <3>4 DEF NoneDue
    <3> QED BY <3>5
  <2> QED BY <2>5, <2>6
<1>11. ASSUME NEW u \in ReplyUnits, Rejects(u) PROVE AckInv'
  <2>1. Takes(u) /\ client.waiting = "reply" /\ ~client.noAck /\ Minus \in Others
    BY <1>11 DEF Rejects, Others
  <2>2. NoneDue
    BY <2>1 DEF AckDue, AckRefused, AckComing, NoAcks
  <2>3. Only(toClient', ReplyUnits) /\ Only(toServer', Others)
    BY <1>2, <1>3, <1>11, <2>1, <2>2 DEF NoneDue, Rejects
  <2>4. NoneDue'
    BY <1>11, <2>1, <2>2, <2>3 DEF Rejects, Takes, ServerWaits, NoneDue
  <2> QED BY <2>4
<1> QED BY <1>5, <1>6, <1>7, <1>8, <1>9, <1>10, <1>11

(***************************************************************************)
(* The two sides agree when acknowledgements end.                          *)
(***************************************************************************)
THEOREM AcksEndTogether == Spec => []AckModeAgreed
<1>1. Init => AckInv
  <2> SUFFICES ASSUME Init PROVE NoneDue
    BY DEF AckInv
  <2>1. client.waiting = "idle" /\ client.noAck = FALSE
    BY DEF Init
  <2>2. Only(toServer, Others) /\ Only(toClient, ReplyUnits)
    BY DEF Init, Only
  <2> QED BY <2>1, <2>2 DEF Init, NoneDue
<1>2. TypeOK /\ ServingInv /\ AskedInv /\ AckInv /\ [Next]_vars => AckInv'
  <2> SUFFICES ASSUME TypeOK, ServingInv, AskedInv, AckInv, [Next]_vars, client'.connected
               PROVE AckInv'
    BY DEF AckInv
  <2>1. client.connected /\ (Move \/ UNCHANGED <<streams, client, phase, serving, noAck, seen>>)
    BY NextMoves
  <2>2. CASE Move
    BY <2>1, <2>2, QuietMoves, QuietAcks, PacketAcks, ClientAcks DEF Move
  <2>3. CASE UNCHANGED <<streams, client, phase, serving, noAck, seen>>
    BY <2>3 DEF AckInv, AckDue, AckRefused, AckComing, NoneDue, NoAcks, Only, OneOf, Asked, streams
  <2> QED BY <2>1, <2>2, <2>3
<1>3. TypeOK /\ AckInv => AckModeAgreed
  <2> SUFFICES ASSUME TypeOK, AckInv, client.connected,
                      client.noAck \/ (client.waiting = "reply" /\ ~client.noAck)
               PROVE /\ client.noAck => noAck
                     /\ \A i \in DOMAIN toClient : IsReply(toClient[i])
    BY DEF AckModeAgreed
  <2>1. /\ Only(toClient, ReplyUnits)
        /\ client.noAck => noAck
    BY DEF AckInv, AckDue, AckRefused, AckComing, NoneDue, NoAcks
  <2>2. DOMAIN toClient = 1 .. Len(toClient)
    BY DEF TypeOK
  <2>3. \A u \in ReplyUnits : IsReply(u)
    BY UnitsDiffer DEF ReplyUnits, IsReply
  <2> QED BY <2>1, <2>2, <2>3 DEF Only
<1> QED BY <1>1, <1>2, <1>3, GdbTypes, PTL DEF Spec

----------------------------------------------------------------------------
(***************************************************************************)
(* The stream to the server, until a Ctrl-C comes too late: while a resume *)
(* is served only Ctrl-C is unread, and so is what lies behind a packet.   *)
(* The debugger may be gone.                                               *)
(***************************************************************************)
CtrlCBehind == \A i, j \in 1 .. Len(toServer) :
                 i < j /\ toServer[i].unit = "packet" => toServer[j] = CtrlC

StreamInv ==
  ~seen.late => CtrlCBehind /\ (serving # "none" => Only(toServer, {CtrlC}))

(***************************************************************************)
(* A step of the server reads the next unit, which sets it to serve only   *)
(* if it is a packet, or it goes on or stops, taking a Ctrl-C at most.     *)
(***************************************************************************)
LEMMA ServerReads ==
  ASSUME TypeOK, ServingInv, Server
  PROVE /\ ~seen'.late => ~seen.late
        /\ \/ \E u : /\ Reads(u) /\ serving = "none"
                     /\ serving' = "none" \/ u.unit = "packet"
           \/ /\ serving' \in {serving, "none"}
              /\ toServer' = toServer \/ (toServer # <<>> /\ toServer' = Tail(toServer))
<1>1. seen \in [moved : BOOLEAN, late : BOOLEAN, refused : BOOLEAN, overrun : Nat]
  BY DEF TypeOK
<1>2. ASSUME NEW u, Reads(u) PROVE serving = "none"
  BY <1>2 DEF Reads, ServingInv
<1>3. CASE SkipAck \/ RefuseDamaged \/ InterruptWhileStopped \/ BrokenPipe
  BY <1>2, <1>3 DEF SkipAck, RefuseDamaged, InterruptWhileStopped, BrokenPipe, serverVars
<1>4. CASE EndOfStream
  BY <1>4 DEF EndOfStream, streams
<1>5. ASSUME NEW c \in Commands,
             \/ Ask(c) \/ StartNoAckMode(c) \/ WriteRegisters(c) \/ WriteSomeRegisters(c)
             \/ SetBreakpoint(c) \/ EndSession(c)
      PROVE UNCHANGED <<seen, serving>> /\ Reads(Packet(c, TRUE))
  BY <1>5 DEF Ask, StartNoAckMode, WriteRegisters, WriteSomeRegisters, SetBreakpoint, EndSession,
              Accepts
<1>6. ASSUME NEW c \in Commands, Resume(c)
      PROVE seen'.late = seen.late /\ Reads(Packet(c, TRUE))
  BY <1>1, <1>6 DEF Resume, Accepts
<1>7. \A c : Packet(c, TRUE).unit = "packet"
  BY UnitsDiffer
<1>8. CASE ReachMaxSteps \/ Interrupted \/ HitBreakpoint
  <2>1. serving' = "none"
    BY <1>8 DEF ReachMaxSteps, Interrupted, HitBreakpoint, Stops
  <2>2. toServer' = toServer \/ (toServer # <<>> /\ toServer' = Tail(toServer))
    BY <1>8 DEF ReachMaxSteps, Interrupted, HitBreakpoint, PollCtrlC, CtrlCIsNext, TakeUnit
  <2>3. ~seen'.late => ~seen.late
    BY <1>1, <1>8 DEF ReachMaxSteps, Interrupted, HitBreakpoint, SeenAtStop
  <2> QED BY <2>1, <2>2, <2>3
<1>9. CASE ArmAndWait \/ RoundOver
  <2>1. toServer' = toServer
    BY <1>9 DEF ArmAndWait, RoundOver
  <2>2. \/ UNCHANGED <<serving, seen>>
        \/ serving' = "none" /\ seen' = SeenAtStop(0)
    BY <1>9 DEF ArmAndWait, RoundOver, ContinuesAt, Stops
  <2>3. ~seen'.late => ~seen.late
    BY <1>1, <2>2 DEF SeenAtStop
  <2> QED BY <2>1, <2>2, <2>3
<1>10. CASE CallOnce
  BY <1>1, <1>10 DEF CallOnce, ContinuesAt
<1> QED BY <1>2, <1>3, <1>4, <1>5, <1>6, <1>7, <1>8, <1>9, <1>10 DEF Server

(***************************************************************************)
(* The debugger speaks, except for Ctrl-C, to a server that serves nothing *)
(* and has only acknowledgements to read.                                  *)
(***************************************************************************)
LEMMA SpeaksToRest ==
  ASSUME TypeOK, ServingInv, Stage, NEW u \in ReplyUnits, NEW c \in Commands, NEW good \in BOOLEAN,
         \/ Sends(c, good) \/ (Repeats /\ client.waiting = "ack")
         \/ Accepts_Reply(u) \/ Rejects(u)
  PROVE Only(toServer, Acks) /\ serving = "none"
<1>1. CASE Sends(c, good)
  <2>1. Resting
    BY <1>1 DEF Sends, Stage, Sent, Refused, Running, Replied, Unheard, Leaving
  <2> QED BY <2>1 DEF Resting, ServingInv
<1>2. u # Plus /\ Minus # Plus /\ Minus \notin ReplyUnits
  BY UnitsDiffer DEF ReplyUnits
<1>3. CASE Repeats /\ client.waiting = "ack"
  <2>1. toClient # <<>> /\ Head(toClient) # Plus /\ Owed = <<Plus>>
    BY <1>2, <1>3 DEF Repeats, Takes, Owed
  <2>2. ~Running /\ ~Leaving /\ ~Replied
    <3>1. \A b : Head(<<Plus, b>>) = Plus /\ <<Plus>> \o <<b>> = <<Plus, b>> /\ Head(<<Plus>>) = Plus
      BY ShortStreams
    <3>2. toClient # <<Plus>> /\ \A b : toClient # <<Plus>> \o <<b>>
      BY <2>1, <3>1
    <3> QED BY <2>1, <3>2 DEF Running, Leaving, Replied
  <2>3. Refused
    BY <1>3, <2>1, <2>2 DEF Stage, Resting, Sent, Unheard
  <2> QED BY <2>3 DEF Refused, ServingInv
<1>4. CASE Accepts_Reply(u) \/ Rejects(u)
  <2>1. client.waiting = "reply" /\ toClient # <<>> /\ Owed = <<>>
    BY <1>4 DEF Accepts_Reply, Rejects, Takes, Owed
  <2>2. Replied
    BY <2>1 DEF Stage, Resting, Sent, Refused, Running, Unheard, Leaving
  <2> QED BY <2>2 DEF Replied, ServingInv
<1> QED BY <1>1, <1>3, <1>4

(***************************************************************************)
(* What the debugger puts into the stream: a unit behind acknowledgements, *)
(* or a Ctrl-C, or nothing; a reset empties it.                            *)
(***************************************************************************)
LEMMA ClientWrites ==
  ASSUME TypeOK, ServingInv, AskedInv, StageInv, Client, ~seen'.late
  PROVE /\ ~seen.late /\ seen'.overrun = seen.overrun /\ UNCHANGED <<phase, serving>>
        /\ \/ toServer' = toServer /\ client'.reset = client.reset
           \/ toServer' = Append(toServer, CtrlC) /\ client'.reset = client.reset
           \/ /\ Only(toServer, Acks) /\ serving = "none"
              /\ \E u \in ClientUnits : toServer' = Append(toServer, u)
           \/ toServer' = <<>> /\ client'.reset
<1> USE DEF ServerWaits, SameLink
<1>1. CASE Leaves \/ IsReset \/ SendsCtrlC \/ HearsAck
  BY <1>1 DEF Leaves, IsReset, SendsCtrlC, HearsAck, Takes
<1>2. ASSUME NEW u \in ReplyUnits, Ignores(u)
      PROVE UNCHANGED <<toServer, client, seen, phase, serving>>
  BY <1>2 DEF Ignores, Takes
<1>3. CASE Repeats /\ client.waiting # "ack"
  BY <1>3 DEF Repeats, Takes
<1>4. ASSUME NEW u \in ReplyUnits, NEW c \in Commands, NEW good \in BOOLEAN,
             \/ Sends(c, good) \/ (Repeats /\ client.waiting = "ack")
             \/ Accepts_Reply(u) \/ Rejects(u)
      PROVE /\ ~seen.late /\ seen'.overrun = seen.overrun /\ UNCHANGED <<phase, serving>>
            /\ Only(toServer, Acks) /\ serving = "none" /\ client'.reset = client.reset
            /\ toServer' = toServer \/ \E v \in ClientUnits : toServer' = Append(toServer, v)
  <2>1. /\ client.connected /\ ~seen.late /\ seen'.overrun = seen.overrun
        /\ client'.reset = client.reset /\ UNCHANGED <<phase, serving>>
    BY <1>4 DEF Sends, Repeats, Accepts_Reply, Rejects, Takes
  <2>2. Only(toServer, Acks) /\ serving = "none"
    BY <1>4, <2>1, SpeaksToRest DEF StageInv
  <2>3. client.waiting = "ack" => client.asked \in Commands
    BY DEF AskedInv
  <2>4. toServer' = toServer \/ \E v \in ClientUnits : toServer' = Append(toServer, v)
    BY <1>4, <2>3, UnitTypes DEF Sends, Repeats, Accepts_Reply, Rejects
  <2> QED BY <2>1, <2>2, <2>4
<1>5. Reply("OK", "D") \in ReplyUnits
  BY DEF ReplyUnits, Texts, Ops
<1>6. CASE \E c \in Commands, good \in BOOLEAN : Sends(c, good)
  BY <1>4, <1>5, <1>6
<1>7. CASE Repeats /\ client.waiting = "ack"
  <2>1. client.asked \in Commands /\ TRUE \in BOOLEAN
    BY <1>7 DEF AskedInv
  <2> QED BY <1>4, <1>5, <1>7, <2>1
<1>8. CASE \E u \in ReplyUnits : Accepts_Reply(u) \/ Rejects(u)
  <2>1. client.asked \in Commands /\ TRUE \in BOOLEAN
    BY <1>8 DEF AskedInv, Accepts_Reply, Rejects
  <2> QED BY <1>4, <1>8, <2>1
<1> QED BY <1>1, <1>2, <1>3, <1>6, <1>7, <1>8, ClientMoves

(***************************************************************************)
(* A stream behind which a unit is put, or of which the first is taken.    *)
(***************************************************************************)
LEMMA BehindAppended ==
  ASSUME NEW u \in ClientUnits, toServer \in Seq(ClientUnits), toServer' = Append(toServer, u),
         \/ u = CtrlC /\ CtrlCBehind
         \/ Only(toServer, Acks)
  PROVE CtrlCBehind'
<1> PICK n \in Nat : n = Len(toServer)
  OBVIOUS
<1>1. /\ Len(toServer') = n + 1 /\ toServer'[n + 1] = u
      /\ \A i \in 1 .. n : toServer'[i] = toServer[i]
  BY AppendUnit
<1>2. SUFFICES ASSUME NEW i \in 1 .. n + 1, NEW j \in 1 .. n + 1, i < j, toServer'[i].unit = "packet"
               PROVE toServer'[j] = CtrlC
  BY <1>1 DEF CtrlCBehind
<1>3. i \in 1 .. n /\ toServer[i].unit = "packet"
  BY <1>1, <1>2
<1>4. \A v \in Acks : v.unit # "packet"
  BY UnitsDiffer DEF Acks
<1>5. ~Only(toServer, Acks)
  BY <1>3, <1>4 DEF Only
<1>6. CASE j = n + 1
  BY <1>1, <1>5, <1>6
<1>7. CASE j \in 1 .. n
  BY <1>1, <1>2, <1>3, <1>5, <1>7 DEF CtrlCBehind
<1> QED BY <1>6, <1>7

(***************************************************************************)
(* Behind a packet that is taken off only Ctrl-C is left.                  *)
(***************************************************************************)
LEMMA BehindTail ==
  ASSUME toServer \in Seq(ClientUnits), toServer # <<>>, toServer' = Tail(toServer), CtrlCBehind
  PROVE /\ CtrlCBehind'
        /\ Head(toServer).unit = "packet" => Only(toServer', {CtrlC})
        /\ Only(toServer, {CtrlC}) => Only(toServer', {CtrlC})
<1> PICK n \in Nat : n = Len(toServer')
  OBVIOUS
<1>1. /\ Len(toServer) = n + 1 /\ Head(toServer) = toServer[1]
      /\ \A i \in 1 .. n : toServer'[i] = toServer[i + 1]
  BY TailUnits
<1>2. CtrlCBehind'
  <2> SUFFICES ASSUME NEW i \in 1 .. n, NEW j \in 1 .. n, i < j, toServer'[i].unit = "packet"
               PROVE toServer'[j] = CtrlC
    BY DEF CtrlCBehind
  <2>1. i + 1 \in 1 .. n + 1 /\ j + 1 \in 1 .. n + 1 /\ i + 1 < j + 1
    OBVIOUS
  <2> QED BY <1>1, <2>1 DEF CtrlCBehind
<1>3. ASSUME Head(toServer).unit = "packet" PROVE Only(toServer', {CtrlC})
  <2> SUFFICES ASSUME NEW j \in 1 .. n PROVE toServer'[j] = CtrlC
    BY DEF Only
  <2>1. 1 \in 1 .. n + 1 /\ j + 1 \in 1 .. n + 1 /\ 1 < j + 1
    OBVIOUS
  <2> QED BY <1>1, <1>3, <2>1 DEF CtrlCBehind
<1>4. ASSUME Only(toServer, {CtrlC}) PROVE Only(toServer', {CtrlC})
  <2> SUFFICES ASSUME NEW j \in 1 .. n PROVE toServer'[j] = CtrlC
    BY DEF Only
  <2>1. j + 1 \in 1 .. n + 1
    OBVIOUS
  <2> QED BY <1>1, <1>4, <2>1 DEF Only
<1> QED BY <1>2, <1>3, <1>4

(***************************************************************************)
(* Every step keeps the stream that way.                                   *)
(***************************************************************************)
LEMMA StreamStep ==
  ASSUME TypeOK, ServingInv, AskedInv, StageInv, StreamInv, [Next]_vars PROVE StreamInv'
<1> SUFFICES ASSUME ~seen'.late
             PROVE CtrlCBehind' /\ (serving' # "none" => Only(toServer', {CtrlC}))
  BY DEF StreamInv
<1>1. toServer \in Seq(ClientUnits) /\ CtrlC \in ClientUnits /\ CtrlC \in {CtrlC}
  BY UnitTypes DEF TypeOK
<1>2. CASE toServer' = toServer /\ ~seen.late /\ serving' \in {serving, "none"}
  BY <1>2 DEF StreamInv, CtrlCBehind, Only
<1>3. CASE Server
  <2>1. CtrlCBehind /\ (serving # "none" => Only(toServer, {CtrlC})) /\ ~seen.late
    BY <1>3, ServerReads DEF StreamInv
  <2>2. ASSUME NEW u, Reads(u), serving = "none", serving' = "none" \/ u.unit = "packet"
        PROVE CtrlCBehind' /\ (serving' # "none" => Only(toServer', {CtrlC}))
    <3>1. toServer # <<>> /\ Head(toServer) = u /\ toServer' = Tail(toServer)
      BY <2>2 DEF Reads
    <3> QED BY <1>1, <2>1, <2>2, <3>1, BehindTail
  <2>3. ASSUME serving' \in {serving, "none"}, toServer # <<>>, toServer' = Tail(toServer)
        PROVE CtrlCBehind' /\ (serving' # "none" => Only(toServer', {CtrlC}))
    BY <1>1, <2>1, <2>3, BehindTail
  <2> QED BY <1>2, <1>3, <2>1, <2>2, <2>3, ServerReads
<1>4. CASE Client
  <2>1. /\ ~seen.late /\ serving' = serving
        /\ CtrlCBehind /\ (serving # "none" => Only(toServer, {CtrlC}))
    BY <1>4, ClientWrites DEF StreamInv
  <2>2. CASE toServer' = Append(toServer, CtrlC)
    BY <1>1, <2>1, <2>2, BehindAppended, OnlyAppend
  <2>3. ASSUME NEW u \in ClientUnits, Only(toServer, Acks), serving = "none",
               toServer' = Append(toServer, u)
        PROVE CtrlCBehind' /\ serving' = "none"
    BY <1>1, <2>1, <2>3, BehindAppended
  <2>4. CASE toServer' = <<>>
    <3>1. Len(toServer') = 0
      BY <2>4
    <3> QED BY <3>1 DEF CtrlCBehind, Only
  <2> QED BY <1>2, <1>4, <2>1, <2>2, <2>3, <2>4, ClientWrites
<1>5. CASE UNCHANGED vars
  BY <1>2, <1>5 DEF vars, streams, serverVars
<1> QED BY <1>3, <1>4, <1>5 DEF Next, Over

----------------------------------------------------------------------------
(***************************************************************************)
(* The instruction a resume has executed over an unread Ctrl-C is its      *)
(* last: the Ctrl-C is still there, or the connection was reset, when the  *)
(* loop polls.                                                             *)
(***************************************************************************)
PollComes ==
  /\ phase = "after" \/ (phase = "head" /\ serving = "c")
  /\ toServer # <<>> \/ client.reset

OverrunInv ==
  ~seen.late =>
    /\ seen.overrun <= 1
    /\ serving # "none" /\ seen.overrun = 1 => PollComes

(***************************************************************************)
(* Every step keeps the loop that near to its poll.                        *)
(***************************************************************************)
LEMMA OverrunStep ==
  ASSUME TypeOK, ServingInv, AskedInv, StageInv, StreamInv, OverrunInv, [Next]_vars
  PROVE OverrunInv'
<1> SUFFICES ASSUME ~seen'.late
             PROVE seen'.overrun <= 1 /\ (serving' # "none" /\ seen'.overrun = 1 => PollComes')
  BY DEF OverrunInv
<1> seen \in [moved : BOOLEAN, late : BOOLEAN, refused : BOOLEAN, overrun : Nat]
    /\ toServer \in Seq(ClientUnits)
  BY DEF TypeOK
<1> USE DEF OverrunInv
<1>1. CASE Server
  <2>1. ~seen.late /\ UNCHANGED client
    <3>1. UNCHANGED client
      BY <1>1 DEF Server, SkipAck, RefuseDamaged, InterruptWhileStopped, EndOfStream, BrokenPipe,
                  Ask, StartNoAckMode, WriteRegisters, WriteSomeRegisters, SetBreakpoint,
                  EndSession, Resume, ReachMaxSteps, Interrupted, ArmAndWait, HitBreakpoint,
                  CallOnce, RoundOver
    <3> QED BY <1>1, <3>1, ServerReads
  <2>2. CASE serving' = "none" /\ seen'.overrun = seen.overrun
    BY <2>1, <2>2
  <2>3. \A n : (SeenAtStop(n)).overrun = seen.overrun
    BY DEF SeenAtStop
  <2>4. CASE \/ SkipAck \/ RefuseDamaged \/ InterruptWhileStopped \/ EndOfStream \/ BrokenPipe
             \/ \E c \in Commands : \/ Ask(c) \/ StartNoAckMode(c) \/ WriteRegisters(c)
                                    \/ WriteSomeRegisters(c) \/ SetBreakpoint(c) \/ EndSession(c)
    <3>1. UNCHANGED <<seen, serving>>
      BY <2>4 DEF SkipAck, RefuseDamaged, InterruptWhileStopped, EndOfStream, BrokenPipe, Ask,
                  StartNoAckMode, WriteRegisters, WriteSomeRegisters, SetBreakpoint, EndSession,
                  serverVars
    <3>2. phase = "read"
      BY <2>4 DEF SkipAck, RefuseDamaged, InterruptWhileStopped, EndOfStream, BrokenPipe, Ask,
                  StartNoAckMode, WriteRegisters, WriteSomeRegisters, SetBreakpoint, EndSession,
                  Accepts, Reads
    <3> QED BY <2>2, <3>1, <3>2 DEF ServingInv
  <2>5. ASSUME NEW c \in Commands, Resume(c) PROVE seen'.overrun = 0
    BY <2>5 DEF Resume
  <2>6. CASE ReachMaxSteps \/ Interrupted \/ HitBreakpoint
    BY <2>2, <2>3, <2>6 DEF ReachMaxSteps, Interrupted, HitBreakpoint, Stops
  <2>7. CASE ArmAndWait
    <3>1. CASE serving' = "none" /\ seen' = SeenAtStop(0)
      BY <2>2, <2>3, <3>1
    <3>2. CASE UNCHANGED <<serving, seen>>
      <4>1. phase = "head" /\ (serving = "c" => ~client.reset /\ ~CtrlCIsNext)
        BY <2>7 DEF ArmAndWait, NothingPolled, Polls
      <4>2. serving = "none" \/ seen.overrun # 1
        <5> SUFFICES ASSUME serving # "none", seen.overrun = 1 PROVE FALSE
          OBVIOUS
        <5>1. toServer # <<>> /\ ~CtrlCIsNext /\ Only(toServer, {CtrlC})
          BY <2>1, <4>1 DEF PollComes, StreamInv
        <5>2. Head(toServer) = toServer[1] /\ 1 \in 1 .. Len(toServer)
          BY <5>1
        <5> QED BY <5>1, <5>2 DEF CtrlCIsNext, Only
      <4> QED BY <2>1, <3>2, <4>2
    <3> QED BY <2>7, <3>1, <3>2 DEF ArmAndWait, ContinuesAt, Stops
  <2>8. CASE CallOnce
    <3>1. phase = "check" /\ phase' = "after" /\ serving' = serving /\ toServer' = toServer
      BY <2>8 DEF CallOnce, ContinuesAt
    <3>2. seen.overrun = 0
      BY <2>1, <3>1 DEF PollComes, ServingInv
    <3>3. seen'.overrun = IF Waiting(CtrlC) THEN 1 ELSE 0
      BY <2>8, <3>2 DEF CallOnce
    <3>4. Waiting(CtrlC) => toServer # <<>>
      BY DEF Waiting
    <3> QED BY <3>1, <3>3, <3>4 DEF PollComes
  <2>9. CASE RoundOver
    <3>1. \/ serving' = "none" /\ seen' = SeenAtStop(0)
          \/ /\ serving # "s" /\ phase' = "head"
             /\ UNCHANGED <<serving, seen, toServer>>
      BY <2>9 DEF RoundOver, ContinuesAt, Stops
    <3>2. CASE serving' = "none" /\ seen' = SeenAtStop(0)
      BY <2>2, <2>3, <3>2
    <3>3. CASE serving # "s" /\ phase' = "head" /\ UNCHANGED <<serving, seen, toServer>>
      <4>1. serving \in {"none", "s", "c"}
        BY DEF TypeOK
      <4> QED BY <2>1, <3>3, <4>1 DEF PollComes
    <3> QED BY <3>1, <3>2, <3>3
  <2> QED BY <1>1, <2>4, <2>5, <2>6, <2>7, <2>8, <2>9 DEF Server
<1>2. CASE Client
  <2>1. ~seen.late /\ seen'.overrun = seen.overrun /\ UNCHANGED <<phase, serving>>
    BY <1>2, ClientWrites
  <2>2. serving # "none" =>
          \/ toServer' # <<>> /\ toServer' = Append(toServer, CtrlC)
          \/ toServer' = toServer /\ client'.reset = client.reset
          \/ client'.reset
    BY <1>2, ClientWrites, AppendUnit, UnitTypes
  <2> QED BY <2>1, <2>2 DEF PollComes
<1>3. CASE UNCHANGED vars
  BY <1>3 DEF vars, streams, serverVars, PollComes
<1> QED BY <1>1, <1>2, <1>3 DEF Next, Over

(***************************************************************************)
(* The Ctrl-C of a debugger that waits for the stop takes effect before    *)
(* two more instructions are executed, however many Ctrl-C it sends.       *)
(***************************************************************************)
THEOREM InterruptIsPrompt == Spec => []PromptInterrupt
<1>1. Init => StreamInv /\ OverrunInv
  <2> SUFFICES ASSUME Init PROVE StreamInv /\ OverrunInv
    OBVIOUS
  <2>1. toServer = <<>> /\ Len(toServer) = 0 /\ serving = "none" /\ seen.overrun = 0
    BY DEF Init
  <2> QED BY <2>1 DEF StreamInv, CtrlCBehind, OverrunInv
<1>2. TypeOK /\ ServingInv /\ AskedInv /\ StageInv /\ StreamInv /\ OverrunInv /\ [Next]_vars
        => StreamInv' /\ OverrunInv'
  BY StreamStep, OverrunStep
<1>3. OverrunInv => PromptInterrupt
  BY DEF OverrunInv, PromptInterrupt
<1> QED BY <1>1, <1>2, <1>3, GdbTypes, GdbStages, PTL DEF Spec
=============================================================================
