------------------------- MODULE IoPluginHostProofs -------------------------
(***************************************************************************)
(* The plugin host for every library and every command line: a plugin's    *)
(* object is used while it exists, a program that ends has closed what it  *)
(* opened, and the ports are a memory.                                     *)
(***************************************************************************)
EXTENDS IoPluginHost, SequenceTheorems, TLAPS

Names == Callbacks \union {"dlclose"}
Phases == {"open", "resolve", "version", "loaded", "attached", "reset", "output", "run",
           "return", "exited", "crashed"}

HostType ==
  /\ library \in Library /\ phase \in Phases
  /\ handle \in BOOLEAN /\ api \in BOOLEAN /\ attached \in BOOLEAN
  /\ ioSpace \in [Ports -> Byte] /\ calls \in Seq(Names)

----------------------------------------------------------------------------
(***************************************************************************)
(* Where Load and main stand decides what the library has seen: nothing    *)
(* before its version is known, its create when the host works, and the    *)
(* calls of Close exactly when the handle is gone.                         *)
(***************************************************************************)
Ending == {"destroy", "dlclose"}

Created == "create" \in library.has => "create" \in Seen

Working == handle /\ api /\ Loads /\ Created

Absent == ~library.given /\ ~handle /\ ~api /\ calls = <<>>

Closed ==
  /\ library.given /\ ~handle /\ ~api
  /\ "dlclose" \in Seen
  /\ "create" \in Seen /\ "destroy" \in library.has => "destroy" \in Seen

Failed == Closed /\ ~Loads /\ exit = 1 /\ "reset" \notin Seen

Untouched == library.given /\ calls = <<>>

HostInv ==
  /\ phase = "open" => Untouched /\ ~handle /\ ~api
  /\ phase = "resolve" => Untouched /\ library.opens /\ handle /\ ~api
  /\ phase = "version" =>
       /\ Untouched /\ library.opens /\ library.exports /\ library.api # "null"
       /\ handle /\ api
  /\ phase = "loaded" => Working
  /\ phase \in {"attached", "reset", "output", "run"} => Working \/ Absent
  /\ phase = "return" => Working \/ Absent \/ Failed
  /\ phase = "exited" => Absent \/ Failed \/ (Closed /\ Loads)
  /\ phase \in {"open", "resolve", "version", "loaded", "exited"} => ~attached
  /\ attached => api
  /\ handle => Seen \cap Ending = {}

(***************************************************************************)
(* They hold before a library is loaded.                                   *)
(***************************************************************************)
LEMMA HostInit == Init => HostType /\ HostInv
<1> SUFFICES ASSUME Init PROVE HostType /\ HostInv
  OBVIOUS
<1>1. library \in Library /\ calls = <<>>
  BY LibrariesAssumption DEF Init
<1>2. HostType
  BY <1>1, PortsAssumption DEF Init, HostType, Phases, Library
<1>3. Seen = {}
  BY <1>1 DEF Seen, Before
<1>4. HostInv
  BY <1>1, <1>3 DEF Init, HostInv, Untouched, Absent
<1> QED BY <1>2, <1>4

----------------------------------------------------------------------------
(***************************************************************************)
(* What a sequence of calls has seen, and what ObjectLife asks of it.      *)
(***************************************************************************)
Said(s) == {s[j] : j \in 1 .. Len(s)}
SaidBefore(s, i) == {s[j] : j \in 1 .. i - 1}

Uses == {"reset", "read_port", "write_port", "after_instruction"}

Allowed(said, c) ==
  /\ said \cap Ending # {} => c = "dlclose"
  /\ c = "dlclose" => "dlclose" \notin said
  /\ c = "destroy" /\ Loads => ("create" \in library.has => "create" \in said)
  /\ c \in Uses => Loads /\ ("create" \in library.has => "create" \in said)

Life(s) == \A i \in 1 .. Len(s) : Allowed(SaidBefore(s, i), s[i])

(***************************************************************************)
(* The calls made as a list, each of them allowed by those before it.      *)
(***************************************************************************)
LEMMA LifeOfCalls ==
  ASSUME calls \in Seq(Names)
  PROVE Seen = Said(calls) /\ (ObjectLife <=> Life(calls))
<1>1. DOMAIN calls = 1 .. Len(calls) /\ Len(calls) \in Nat
  OBVIOUS
<1>2. Seen = Said(calls)
  BY <1>1 DEF Seen, Before, Said
<1>3. \A i : Before(i) = SaidBefore(calls, i)
  BY DEF Before, SaidBefore
<1>4. ObjectLife <=> Life(calls)
  BY <1>1, <1>3 DEF ObjectLife, Life, Allowed, Exists, Ending, Uses
<1> QED BY <1>2, <1>4

(***************************************************************************)
(* A call that may come keeps the life of the object in order.             *)
(***************************************************************************)
LEMMA LifeGoesOn ==
  ASSUME NEW s \in Seq(Names), NEW c \in Names, Life(s), Allowed(Said(s), c)
  PROVE /\ Append(s, c) \in Seq(Names)
        /\ Said(Append(s, c)) = Said(s) \union {c}
        /\ Life(Append(s, c))
<1> PICK n \in Nat : n = Len(s)
  OBVIOUS
<1> DEFINE t == Append(s, c)
<1>1. /\ t \in Seq(Names) /\ Len(t) = n + 1 /\ t[n + 1] = c
      /\ \A i \in 1 .. n : t[i] = s[i]
  OBVIOUS
<1> HIDE DEF t
<1>2. Said(t) = Said(s) \union {c}
  <2>1. \A i \in 1 .. n + 1 : i \in 1 .. n \/ i = n + 1
    OBVIOUS
  <2>2. \A i \in 1 .. n : i \in 1 .. n + 1
    OBVIOUS
  <2>3. n + 1 \in 1 .. n + 1
    OBVIOUS
  <2> QED BY <1>1, <2>1, <2>2, <2>3 DEF Said
<1>3. ASSUME NEW i \in 1 .. n + 1 PROVE Allowed(SaidBefore(t, i), t[i])
  <2>1. \A j \in 1 .. i - 1 : j \in 1 .. n
    OBVIOUS
  <2>2. SaidBefore(t, i) = SaidBefore(s, i)
    BY <1>1, <2>1 DEF SaidBefore
  <2>3. CASE i \in 1 .. n
    BY <1>1, <2>2, <2>3 DEF Life
  <2>4. CASE i = n + 1
    <3>1. SaidBefore(s, i) = Said(s)
      BY <2>4 DEF SaidBefore, Said
    <3> QED BY <1>1, <2>2, <2>4, <3>1
  <2> QED BY <2>3, <2>4
<1>4. Life(t)
  BY <1>1, <1>3 DEF Life
<1> QED BY <1>1, <1>2, <1>4 DEF t

(***************************************************************************)
(* What Close shows the library behind a sequence of calls: the object is  *)
(* destroyed before the library is unmapped, and both happen once.         *)
(***************************************************************************)
LEMMA CloseEffect ==
  ASSUME NEW s \in Seq(Names), Life(s), handle \in BOOLEAN, api => handle,
         handle => Said(s) \cap Ending = {},
         Exports("destroy") /\ Loads => ("create" \in library.has => "create" \in Said(s))
  PROVE /\ s \o CloseCalls \in Seq(Names) /\ Life(s \o CloseCalls)
        /\ Said(s \o CloseCalls) =
             Said(s) \union (IF Exports("destroy") THEN {"destroy"} ELSE {})
                     \union (IF handle THEN {"dlclose"} ELSE {})
<1>1. "destroy" \in Names /\ "dlclose" \in Names
  BY DEF Names, Callbacks
<1>2. CASE ~handle
  <2>1. CloseCalls = <<>>
    BY <1>2 DEF CloseCalls, Exports
  <2>2. s \o CloseCalls = s
    BY <2>1, ConcatEmptySeq
  <2> QED BY <1>2, <2>2 DEF Exports
<1>3. CASE handle /\ ~Exports("destroy")
  <2>1. CloseCalls = <<"dlclose">>
    BY <1>3 DEF CloseCalls
  <2>2. s \o CloseCalls = Append(s, "dlclose")
    BY <1>1, <2>1, AppendIsConcat
  <2>3. Allowed(Said(s), "dlclose")
    BY <1>3 DEF Allowed, Ending, Uses
  <2> QED BY <1>1, <1>3, <2>2, <2>3, LifeGoesOn
<1>4. CASE handle /\ Exports("destroy")
  <2> DEFINE t == Append(s, "destroy")
  <2>1. CloseCalls = <<"destroy">> \o <<"dlclose">>
    BY <1>4 DEF CloseCalls
  <2>2. Allowed(Said(s), "destroy")
    BY <1>4 DEF Allowed, Ending, Uses
  <2>3. t \in Seq(Names) /\ Said(t) = Said(s) \union {"destroy"} /\ Life(t)
    BY <1>1, <2>2, LifeGoesOn
  <2> HIDE DEF t
  <2>4. Allowed(Said(t), "dlclose")
    BY <1>4, <2>3 DEF Allowed, Ending, Uses
  <2>5. /\ Append(t, "dlclose") \in Seq(Names) /\ Life(Append(t, "dlclose"))
        /\ Said(Append(t, "dlclose")) = Said(t) \union {"dlclose"}
    BY <1>1, <2>3, <2>4, LifeGoesOn
  <2>6. s \o CloseCalls = Append(t, "dlclose")
    <3>1. <<"destroy">> \in Seq(Names) /\ <<"dlclose">> \in Seq(Names)
      BY <1>1
    <3>2. s \o CloseCalls = (s \o <<"destroy">>) \o <<"dlclose">>
      BY <2>1, <3>1, ConcatAssociative
    <3>3. s \o <<"destroy">> = t
      BY <1>1, AppendIsConcat DEF t
    <3>4. t \o <<"dlclose">> = Append(t, "dlclose")
      BY <1>1, <2>3, AppendIsConcat
    <3> QED BY <3>2, <3>3, <3>4
  <2> QED BY <1>4, <2>3, <2>5, <2>6
<1> QED BY <1>2, <1>3, <1>4

----------------------------------------------------------------------------
(***************************************************************************)
(* The same of the calls a step adds; the library stays what it is.        *)
(***************************************************************************)
LEMMA NewCalls ==
  ASSUME library' = library, NEW t \in Seq(Names), calls' = t, Life(t)
  PROVE calls' \in Seq(Names) /\ Seen' = Said(t) /\ ObjectLife'
<1>1. DOMAIN calls' = 1 .. Len(calls') /\ Len(calls') \in Nat
  OBVIOUS
<1>2. Seen' = Said(t)
  BY <1>1 DEF Seen, Before, Said
<1>3. ASSUME NEW i \in 1 .. Len(t) PROVE Allowed(SaidBefore(t, i), t[i])
  BY DEF Life
<1>4. ObjectLife'
  <2>1. (Loads' <=> Loads) /\ \A i : Before(i)' = SaidBefore(t, i)
    BY DEF Loads, Before, SaidBefore
  <2> QED BY <1>1, <1>3, <2>1 DEF ObjectLife, Allowed, Exists, Ending, Uses
<1> QED BY <1>2, <1>4

(***************************************************************************)
(* What every step keeps, and what it rests on.                            *)
(***************************************************************************)
HostOK == HostType /\ HostInv /\ ObjectLife

(***************************************************************************)
(* Steps that call nothing in the library keep it.                         *)
(***************************************************************************)
LEMMA QuietSteps ==
  ASSUME HostOK,
         \/ OpenFails \/ Open \/ Resolve \/ Attach \/ LoadBinary \/ OpenOutput \/ EndRun
         \/ UNCHANGED vars
  PROVE HostOK'
<1> USE DEF HostOK, HostType, HostInv, hostVars, portVars
<1>1. calls' = calls /\ library' = library
  BY DEF OpenFails, Open, Resolve, Attach, LoadBinary, OpenOutput, EndRun, vars
<1>2. Seen' = Seen /\ (Loads' <=> Loads) /\ ObjectLife'
  <2>1. /\ calls \in Seq(Names) /\ Life(calls) /\ Seen = Said(calls)
    BY LifeOfCalls
  <2> QED BY <1>1, <2>1, NewCalls DEF Loads
<1> USE DEF Phases, Untouched, Absent, Working, Created, Closed, Failed
<1>3. CASE OpenFails
  BY <1>1, <1>2, <1>3 DEF OpenFails
<1>4. CASE Open
  <2>1. Seen = {}
    BY <1>4 DEF Open, Seen, Before
  <2> QED BY <1>1, <1>2, <1>4, <2>1 DEF Open
<1>5. CASE Resolve
  BY <1>1, <1>2, <1>5 DEF Resolve
<1>6. CASE Attach
  BY <1>1, <1>2, <1>6 DEF Attach
<1>7. CASE LoadBinary \/ OpenOutput
  <2>1. library \in Library
    OBVIOUS
  <2>2. phase \in {"attached", "output"} /\ phase' \in {"return", "reset", "run"}
        /\ UNCHANGED <<library, hostVars, portVars, calls>>
    BY <1>7 DEF LoadBinary, OpenOutput
  <2> QED BY <1>1, <1>2, <2>2
<1>8. CASE EndRun
  BY <1>1, <1>2, <1>8 DEF EndRun
<1>9. CASE UNCHANGED vars
  BY <1>1, <1>2, <1>9 DEF vars
<1> QED BY <1>3, <1>4, <1>5, <1>6, <1>7, <1>8, <1>9

(***************************************************************************)
(* A plugin that cannot be used is closed before main sees the failure.    *)
(***************************************************************************)
LEMMA FailingSteps ==
  ASSUME HostOK, Unresolved \/ VersionMismatch \/ CreateFails PROVE HostOK'
<1> USE DEF HostOK, HostType
<1>1. /\ library' = library /\ calls = <<>> /\ handle /\ library.given /\ ~Loads
      /\ library \in Library /\ UNCHANGED portVars /\ ~attached
      /\ exit' = 1 /\ phase' = "return" /\ ~handle' /\ ~api'
      /\ handle' \in BOOLEAN /\ api' \in BOOLEAN
  BY DEF Unresolved, VersionMismatch, CreateFails, Fail, ClearFields, HostInv, Untouched, Loads,
         Library, Exports
<1>2. ASSUME NEW s \in Seq(Names), s \in {<<>>, <<"create">>}, calls' = s \o CloseCalls,
             s = <<"create">> => Exports("create")
      PROVE HostOK'
  <2>1. Said(s) \subseteq {"create"} /\ Life(s)
    <3>1. CASE s = <<>>
      BY <3>1 DEF Said, Life
    <3>2. CASE s = <<"create">>
      <4>1. Len(s) = 1 /\ s[1] = "create"
        BY <3>2
      <4>2. Allowed(SaidBefore(s, 1), "create")
        BY DEF Allowed, SaidBefore, Uses
      <4> QED BY <4>1, <4>2 DEF Said, Life
    <3> QED BY <1>2, <3>1, <3>2
  <2>2. \A c \in {"destroy", "dlclose", "reset"} : c \notin Said(s)
    BY <2>1
  <2> DEFINE t == s \o CloseCalls
  <2>3. /\ t \in Seq(Names) /\ Life(t)
        /\ Said(t) = Said(s) \union (IF Exports("destroy") THEN {"destroy"} ELSE {})
                             \union (IF handle THEN {"dlclose"} ELSE {})
    BY <1>1, <2>1, <2>2, CloseEffect DEF Ending
  <2> HIDE DEF t
  <2>4. calls' \in Seq(Names) /\ Seen' = Said(t) /\ ObjectLife'
    BY <1>1, <1>2, <2>3, NewCalls DEF t
  <2>5. "dlclose" \in Seen' /\ "reset" \notin Seen'
        /\ ("create" \in Seen' /\ "destroy" \in library.has => "destroy" \in Seen')
    <3>1. "create" \in Said(t) => api
      <4>1. Said(<<>>) = {}
        BY DEF Said
      <4>2. "create" \in Said(t) => "create" \in Said(s)
        BY <2>3
      <4> QED BY <1>2, <4>1, <4>2 DEF Exports
    <3> QED BY <1>1, <2>2, <2>3, <2>4, <3>1 DEF Exports
  <2>6. Failed'
    BY <1>1, <2>5 DEF Failed, Closed, Loads
  <2>7. HostInv'
    BY <1>1, <2>6 DEF HostInv, portVars
  <2> QED BY <1>1, <2>4, <2>7 DEF Phases, portVars
<1>3. CASE Unresolved \/ VersionMismatch
  <2>1. calls' = <<>> \o CloseCalls
    BY <1>1, <1>3 DEF Unresolved, VersionMismatch, Fail
  <2>2. <<>> \in Seq(Names) /\ <<>> # <<"create">>
    OBVIOUS
  <2> QED BY <1>2, <2>1, <2>2
<1>4. CASE CreateFails
  <2>1. "create" \in Names
    BY DEF Names, Callbacks
  <2>2. calls' = <<>> \o (<<"create">> \o CloseCalls) /\ Exports("create")
    BY <1>1, <1>4 DEF CreateFails, Fail
  <2>3. <<"create">> \in Seq(Names)
    BY <2>1
  <2>4. <<"create">> \o CloseCalls \in Seq(Names)
    <3> DEFINE first == IF Exports("destroy") THEN <<"destroy">> ELSE <<>>
               then == IF handle THEN <<"dlclose">> ELSE <<>>
    <3>1. first \in Seq(Names) /\ then \in Seq(Names)
      <4>1. <<"destroy">> \in Seq(Names) /\ <<"dlclose">> \in Seq(Names) /\ <<>> \in Seq(Names)
        BY DEF Names, Callbacks
      <4> QED BY <4>1
    <3>2. CloseCalls = first \o then
      BY DEF CloseCalls
    <3> HIDE DEF first, then
    <3> QED BY <2>3, <3>1, <3>2
  <2>5. <<>> \o (<<"create">> \o CloseCalls) = <<"create">> \o CloseCalls
    BY <2>4, ConcatEmptySeq
  <2> QED BY <1>2, <2>2, <2>3, <2>5
<1> QED BY <1>3, <1>4

(***************************************************************************)
(* A callback of a working host is one that may come.                      *)
(***************************************************************************)
LEMMA OneCall ==
  ASSUME HostOK, library' = library, NEW c \in Names \ Ending, Allowed(Seen, c),
         calls' = Append(calls, c)
  PROVE calls' \in Seq(Names) /\ Seen' = Seen \union {c} /\ ObjectLife'
<1>1. calls \in Seq(Names) /\ Life(calls) /\ Seen = Said(calls)
  BY LifeOfCalls DEF HostOK, HostType
<1>2. /\ Append(calls, c) \in Seq(Names) /\ Life(Append(calls, c))
      /\ Said(Append(calls, c)) = Said(calls) \union {c}
  BY <1>1, LifeGoesOn
<1> QED BY <1>1, <1>2, NewCalls

(***************************************************************************)
(* create is called once, for a plugin of the right version.               *)
(***************************************************************************)
LEMMA CreateStep ==
  ASSUME HostOK, Create PROVE HostOK'
<1> USE DEF HostOK, HostType
<1>1. /\ library' = library /\ Untouched /\ Loads /\ phase' = "loaded"
      /\ UNCHANGED <<handle, api, portVars>> /\ handle /\ api /\ ~attached /\ "create" \in Names
  BY DEF Create, HostInv, Loads, Exports, Untouched, Names, Callbacks
<1>2. Seen = {}
  BY <1>1 DEF Untouched, Seen, Before
<1>3. CASE Exports("create")
  <2>1. calls' = Append(calls, "create") /\ Allowed(Seen, "create")
    BY <1>2, <1>3 DEF Create, Allowed, Uses
  <2>2. calls' \in Seq(Names) /\ Seen' = {"create"} /\ ObjectLife'
    BY <1>1, <1>2, <2>1, OneCall DEF Ending
  <2>3. HostInv'
    BY <1>1, <2>2 DEF HostInv, Working, Created, Loads, Ending, portVars
  <2> QED BY <1>1, <2>2, <2>3 DEF Phases, portVars
<1>4. CASE ~Exports("create")
  <2>1. calls' = calls /\ "create" \notin library.has
    BY <1>1, <1>4 DEF Create, Exports
  <2>2. Seen' = {} /\ ObjectLife'
    <3>1. Life(calls) /\ Said(calls) = {}
      BY <1>2, LifeOfCalls
    <3> QED BY <1>1, <2>1, <3>1, NewCalls
  <2>3. HostInv'
    BY <1>1, <2>1, <2>2 DEF HostInv, Working, Created, Loads, Ending, portVars
  <2> QED BY <1>1, <2>1, <2>2, <2>3 DEF Phases, portVars
<1> QED BY <1>3, <1>4

(***************************************************************************)
(* The other callbacks find the object the plugin created.                 *)
(***************************************************************************)
LEMMA UseSteps ==
  ASSUME HostOK, Reset \/ AfterInstruction \/ \E p \in Ports : ReadPort(p) \/ WritePort(p)
  PROVE HostOK'
<1> USE DEF HostOK, HostType
<1>1. /\ library' = library /\ UNCHANGED <<handle, api, attached>>
      /\ phase \in {"reset", "run"} /\ phase' \in {"output", "run"}
      /\ calls' = calls \/ \E c \in Uses : Exports(c) /\ calls' = Append(calls, c)
  BY DEF Reset, AfterInstruction, ReadPort, WritePort, hostVars, portVars, Running, Answers,
         Observes, Uses
<1>2. ioSpace' \in [Ports -> Byte]
  <2>1. CASE Reset \/ AfterInstruction
    BY <2>1 DEF Reset, AfterInstruction, portVars
  <2>2. ASSUME NEW p \in Ports, ReadPort(p) \/ WritePort(p) PROVE ioSpace' \in [Ports -> Byte]
    BY <2>2 DEF ReadPort, WritePort
  <2> QED BY <2>1, <2>2
<1>3. Working \/ Absent
  BY <1>1 DEF HostInv
<1>4. CASE calls' = calls
  <2>1. Seen' = Seen /\ ObjectLife'
    BY <1>1, <1>4, LifeOfCalls, NewCalls
  <2>2. HostInv'
    BY <1>1, <1>3, <1>4, <2>1 DEF HostInv, Working, Absent, Created, Loads
  <2> QED BY <1>1, <1>2, <1>4, <2>1, <2>2 DEF Phases
<1>5. ASSUME NEW c \in Uses, Exports(c), calls' = Append(calls, c) PROVE HostOK'
  <2>1. Working /\ c \in Names \ Ending /\ Seen \cap Ending = {}
    BY <1>3, <1>5 DEF Absent, Exports, Uses, Names, Callbacks, Ending, HostInv, Working
  <2>2. Allowed(Seen, c)
    BY <2>1 DEF Allowed, Working, Created, Ending
  <2>3. calls' \in Seq(Names) /\ Seen' = Seen \union {c} /\ ObjectLife'
    BY <1>1, <1>5, <2>1, <2>2, OneCall
  <2>4. HostInv'
    BY <1>1, <2>1, <2>3 DEF HostInv, Working, Created, Loads
  <2> QED BY <1>1, <1>2, <2>3, <2>4 DEF Phases
<1> QED BY <1>1, <1>4, <1>5

(***************************************************************************)
(* At the end of main the destructor closes what is still open.            *)
(***************************************************************************)
LEMMA EndStep ==
  ASSUME HostOK, DestroyHost PROVE HostOK'
<1> USE DEF HostOK, HostType
<1>1. /\ library' = library /\ exit' = exit /\ calls' = calls \o CloseCalls
      /\ phase = "return" /\ phase' = "exited" /\ attached' = FALSE /\ ~handle' /\ ~api'
      /\ handle' \in BOOLEAN /\ api' \in BOOLEAN /\ ioSpace' = ioSpace
  BY DEF DestroyHost, ClearFields
<1>2. calls \in Seq(Names) /\ Life(calls) /\ Seen = Said(calls)
  BY LifeOfCalls
<1>3. (handle => Seen \cap Ending = {}) /\ (Working \/ Absent \/ Failed)
      /\ handle \in BOOLEAN
  BY <1>1 DEF HostInv
<1>4. (api => handle) /\ (api => Working)
  BY <1>3 DEF Working, Absent, Failed, Closed
<1>5. Exports("destroy") /\ Loads => ("create" \in library.has => "create" \in Said(calls))
  BY <1>2, <1>4 DEF Exports, Working, Created
<1> DEFINE t == calls \o CloseCalls
<1>6. handle => Said(calls) \cap Ending = {}
  BY <1>2, <1>3
<1>7. /\ t \in Seq(Names) /\ Life(t)
      /\ Said(t) = Said(calls) \union (IF Exports("destroy") THEN {"destroy"} ELSE {})
                               \union (IF handle THEN {"dlclose"} ELSE {})
  BY <1>2, <1>3, <1>4, <1>5, <1>6, CloseEffect
<1> HIDE DEF t
<1>8. calls' \in Seq(Names) /\ Seen' = Said(t) /\ ObjectLife'
  BY <1>1, <1>7, NewCalls DEF t
<1>9. Seen' = Seen \union (IF Exports("destroy") THEN {"destroy"} ELSE {})
                   \union (IF handle THEN {"dlclose"} ELSE {})
  BY <1>7, <1>8, LifeOfCalls
<1>10. CASE Working
  <2>1. Closed' /\ Loads'
    BY <1>1, <1>9, <1>10 DEF Closed, Working, Loads, Exports
  <2> QED BY <1>1, <1>8, <2>1 DEF HostInv, Phases
<1>11. CASE Absent
  <2>1. Seen' = {} /\ calls' = <<>>
    <3>1. CloseCalls = <<>>
      BY <1>11 DEF Absent, CloseCalls, Exports
    <3>2. calls' = <<>>
      BY <1>1, <1>11, <3>1, ConcatEmptySeq DEF Absent
    <3>3. Seen' = {}
      BY <3>2 DEF Seen, Before
    <3> QED BY <3>2, <3>3
  <2>2. Absent'
    BY <1>1, <1>11, <2>1 DEF Absent
  <2> QED BY <1>1, <1>8, <2>2 DEF HostInv, Phases
<1>12. CASE Failed
  <2>1. Seen' = Seen
    BY <1>9, <1>12 DEF Failed, Closed, Exports
  <2>2. Failed'
    BY <1>1, <1>12, <2>1 DEF Failed, Closed, Loads
  <2> QED BY <1>1, <1>8, <2>2 DEF HostInv, Phases
<1> QED BY <1>3, <1>10, <1>11, <1>12

(***************************************************************************)
(* Every step keeps all of it.                                             *)
(***************************************************************************)
LEMMA HostSteps == Spec => []HostOK
<1>1. Init => HostOK
  <2>1. Init => ObjectLife
    BY DEF Init, ObjectLife
  <2> QED BY <2>1, HostInit DEF HostOK
<1>2. HostOK /\ [Next]_vars => HostOK'
  BY QuietSteps, FailingSteps, CreateStep, UseSteps, EndStep DEF Next, Ended
<1> QED BY <1>1, <1>2, PTL DEF Spec

(***************************************************************************)
(* The plugin's object is used between its creation and its destruction,   *)
(* destroyed once, and never called once the library is unmapped, whatever *)
(* the library exports, wherever its loading fails and however main ends.  *)
(***************************************************************************)
THEOREM ObjectsLive == Spec => []ObjectLife
BY HostSteps, PTL DEF HostOK

(***************************************************************************)
(* A program that has ended leaves nothing behind: the handle is closed,   *)
(* what create made is destroyed, and a plugin that could not be loaded is *)
(* told by the exit code and was never reset.  That it does end is left to *)
(* EndsClosed.                                                             *)
(***************************************************************************)
THEOREM LeavesNothing == Spec => [](phase = "exited" => ClosedUp)
<1>1. HostOK => (phase = "exited" => ClosedUp)
  <2> SUFFICES ASSUME HostOK, phase = "exited" PROVE ClosedUp
    OBVIOUS
  <2>1. Absent \/ Failed \/ (Closed /\ Loads)
    BY DEF HostOK, HostInv
  <2>2. Absent => Seen = {}
    BY DEF Absent, Seen, Before
  <2> QED BY <2>1, <2>2 DEF ClosedUp, Absent, Failed, Closed, Loads
<1> QED BY <1>1, HostSteps, PTL

----------------------------------------------------------------------------
(***************************************************************************)
(* The ports implement the memory of PortMemory: the executor asks the     *)
(* plugin only if it was loaded and exports read_port, and whatever comes  *)
(* through a port is what io_space holds afterwards.                       *)
(***************************************************************************)
THEOREM PortsAreMemory == Spec => PortsRemember
<1> DEFINE answers == Loads /\ "read_port" \in library.has
<1>1. Init => Flat!Init
  <2> SUFFICES ASSUME Init PROVE Flat!Init
    OBVIOUS
  <2>1. library \in Library
    BY LibrariesAssumption DEF Init
  <2>2. answers \in BOOLEAN
    BY <2>1 DEF Loads, Library
  <2>3. ioSpace \in [Ports -> Byte] /\ access \in Flat!Access /\ access.kind = "none"
    BY PortsAssumption DEF Init, NoAccess, Flat!Access
  <2> QED BY <2>2, <2>3 DEF Flat!Init
<1>2. HostOK /\ [Next]_vars => [Flat!Next]_(Flat!vars)
  <2> SUFFICES ASSUME HostOK, [Next]_vars PROVE Flat!Next \/ UNCHANGED Flat!vars
    OBVIOUS
  <2>1. library' = library
    BY DEF Next, OpenFails, Open, Unresolved, Resolve, VersionMismatch, CreateFails, Create, Fail,
           Attach, LoadBinary, Reset, OpenOutput, ReadPort, WritePort, AfterInstruction, EndRun,
           DestroyHost, Ended, vars
  <2>2. UNCHANGED answers
    BY <2>1 DEF Loads
  <2>3. CASE UNCHANGED <<ioSpace, access>>
    BY <2>2, <2>3 DEF Flat!vars
  <2>4. ASSUME NEW p \in Ports, ReadPort(p) PROVE Flat!Next
    <3>1. PICK v \in Byte :
            /\ Answers \/ v = ioSpace[p]
            /\ ioSpace' = [ioSpace EXCEPT ![p] = IF attached THEN v ELSE ioSpace[p]]
            /\ Crossed("in", p, v)
      BY <2>4 DEF ReadPort
    <3>2. Answers => answers
      <4> SUFFICES ASSUME Answers PROVE answers
        OBVIOUS
      <4>1. phase = "run" /\ api /\ "read_port" \in library.has
        BY <2>4 DEF ReadPort, Running, Answers, Exports
      <4>2. Working
        BY <4>1 DEF HostOK, HostInv, Absent
      <4> QED BY <4>1, <4>2 DEF Working
    <3>3. ioSpace' = [ioSpace EXCEPT ![p] = v]
      <4>1. CASE attached
        BY <3>1, <4>1
      <4>2. CASE ~attached
        BY <3>1, <4>2 DEF Answers
      <4> QED BY <4>1, <4>2
    <3>4. Flat!Cross("in", p, v)
      BY <2>2, <3>1, <3>3 DEF Flat!Cross, Crossed
    <3>5. answers \/ v = ioSpace[p]
      BY <3>1, <3>2
    <3> HIDE DEF answers
    <3>6. Flat!Input(p)
      BY <3>4, <3>5 DEF Flat!Input, answers
    <3> QED BY <3>6 DEF Flat!Next
  <2>5. ASSUME NEW p \in Ports, WritePort(p) PROVE Flat!Next
    <3>1. PICK v \in Byte : ioSpace' = [ioSpace EXCEPT ![p] = v] /\ Crossed("out", p, v)
      BY <2>5 DEF WritePort
    <3>2. Flat!Cross("out", p, v)
      BY <2>2, <3>1 DEF Flat!Cross, Crossed
    <3> QED BY <3>2 DEF Flat!Next, Flat!Output
  <2>6. \/ UNCHANGED <<ioSpace, access>>
        \/ \E p \in Ports : ReadPort(p) \/ WritePort(p)
    BY DEF Next, OpenFails, Open, Unresolved, Resolve, VersionMismatch, CreateFails, Create, Fail,
           Attach, LoadBinary, Reset, OpenOutput, AfterInstruction, EndRun, DestroyHost, Ended,
           vars, portVars
  <2> QED BY <2>3, <2>4, <2>5, <2>6
<1> QED BY <1>1, <1>2, HostSteps, PTL DEF Spec, PortsRemember, Flat!Spec
=============================================================================
