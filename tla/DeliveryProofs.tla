---------------------------- MODULE DeliveryProofs ---------------------------
(***************************************************************************)
(* A remote ref delivers at most once, accounts for every message, loses   *)
(* none without a cause and, with one permit, keeps the order of each      *)
(* connection: for every number of messages, capacities and faults.        *)
(***************************************************************************)
EXTENDS RemoteDelivery, ChannelLemmas, FiniteSetTheorems, TLAPS

\* Whoever waits to pass a message on has one, and nobody else has; connections
\* are opened one after another.
Shape ==
    /\ wmsg # NONE <=> wpc = "write"
    /\ bmsg # NONE <=> bpc = "send"
    /\ \A c \in Conn : hmsg[c] # NONE <=> hpc[c] = "permit"
    /\ \A c \in Conn : c > conn => hpc[c] = "none"
    /\ wpc \in {"recv", "write"} => conn \in Conn

LEMMA ConstantFacts ==
    /\ N \in Nat /\ MaxFaults \in Nat
    /\ SendCap \in Nat \ {0} /\ BridgeCap \in Nat \ {0} /\ Cap \in Nat \ {0}
    /\ \A c \in Conn : c \in Nat /\ c # NONE
    /\ \A m \in Msg : m \in Nat /\ m # NONE
    /\ 1 \in Conn
BY ConstantsAssumption DEF Conn, Msg, NONE

-----------------------------------------------------------------------------
(* Types                                                                   *)

LEMMA TypeInit == Init => TypeOK
BY ConstantFacts, ConstantsAssumption DEF Init, TypeOK, NONE, Bad

LEMMA TypeStep == TypeOK /\ Shape /\ [Next]_vars => TypeOK'
<1> SUFFICES ASSUME TypeOK, Shape, [Next]_vars PROVE TypeOK'
  OBVIOUS
<1> USE ConstantFacts
<1>1. ASSUME NEW k \in {"ok"} \cup Bad, Send(k) PROVE TypeOK'
  <2>1. sent + 1 \in Msg /\ sent' \in 0 .. N
    BY <1>1 DEF Send, TypeOK, Msg
  <2>2. queue' \in Seq(Msg) /\ Len(queue') <= SendCap
    BY <1>1, <2>1, Push DEF Send, TypeOK
  <2>3. kind' \in [Msg -> {"ok"} \cup Bad]
    BY <1>1 DEF Send, TypeOK
  <2> QED BY <1>1, <2>1, <2>2, <2>3, ZenonT(30) DEF Send, TypeOK, network, node, served
<1>2. ASSUME DropRefs PROVE TypeOK'
  BY <1>2, ZenonT(30) DEF DropRefs, TypeOK, writer, network, node, served
<1>3. ASSUME Connect PROVE TypeOK'
  BY <1>3 DEF Connect, Accept, TypeOK, sender, served
<1>4. ASSUME ConnectErr PROVE TypeOK'
  BY <1>4 DEF ConnectErr, TypeOK, sender, network, node, served
<1>5. ASSUME Retry PROVE TypeOK'
  <2>1. ToSet(queue) \subseteq Msg
    BY DEF TypeOK, ToSet
  <2>2. /\ queue' \in Seq(Msg) /\ Len(queue') <= SendCap /\ lost' \subseteq Msg
        /\ wpc' \in {"connect", "sleep", "recv", "write", "done"}
    <3>1. CASE refs /\ wpc' = "connect" /\ UNCHANGED <<queue, lost>>
      BY <3>1 DEF TypeOK
    <3>2. CASE wpc' = "done" /\ queue' = <<>> /\ lost' = lost \cup ToSet(queue)
      BY <2>1, <3>2 DEF TypeOK
    <3> QED BY <1>5, <3>1, <3>2 DEF Retry
  <2> QED BY <1>5, <2>2 DEF Retry, TypeOK, sender, network, node, served
<1>6. ASSUME Recv PROVE TypeOK'
  <2>1. Head(queue) \in Msg /\ Tail(queue) \in Seq(Msg) /\ Len(Tail(queue)) <= SendCap
    BY <1>6, Pop DEF Recv, TypeOK
  <2> QED BY <1>6, <2>1 DEF Recv, TypeOK, sender, network, node, served
<1>7. ASSUME RecvNone PROVE TypeOK'
  BY <1>7 DEF RecvNone, CloseStream, TypeOK, sender, node, served
<1>8. ASSUME WriteOk PROVE TypeOK'
  <2>1. wmsg \in Msg /\ conn \in Conn
    BY <1>8 DEF WriteOk, Written, Shape, TypeOK
  <2>2. Append(wire[conn], wmsg) \in Seq(Msg)
    BY <2>1 DEF TypeOK
  <2>3. wire' \in [Conn -> Seq(Msg)] /\ lost' \subseteq Msg
    <3>1. CASE wire' = [wire EXCEPT ![conn] = Append(@, wmsg)] /\ UNCHANGED lost
      BY <2>1, <2>2, <3>1 DEF TypeOK
    <3>2. CASE lost' = lost \cup {wmsg} /\ UNCHANGED wire
      BY <2>1, <3>2 DEF TypeOK
    <3> QED BY <1>8, <3>1, <3>2 DEF WriteOk
  <2>4. via' \in [Msg -> Conn \cup {NONE}]
    BY <1>8, <2>1 DEF WriteOk, TypeOK
  <2> QED BY <1>8, <2>3, <2>4 DEF WriteOk, Written, TypeOK, sender, node, served
<1>9. ASSUME WriteErr PROVE TypeOK'
  <2>1. wmsg \in Msg
    BY <1>9 DEF WriteErr, Written, Shape, TypeOK
  <2> QED BY <1>9, <2>1 DEF WriteErr, Written, CloseStream, TypeOK, sender, node, served
<1>10. ASSUME NEW c \in Conn, ReadFrame(c) PROVE TypeOK'
  <2>1. Head(wire[c]) \in Msg /\ Tail(wire[c]) \in Seq(Msg)
    BY <1>10, Pop DEF ReadFrame, TypeOK
  <2>2. wire' \in [Conn -> Seq(Msg)] /\ hmsg' \in [Conn -> Msg \cup {NONE}]
    BY <1>10, <2>1 DEF ReadFrame, TypeOK
  <2> QED BY <1>10, <2>2, ZenonT(30) DEF ReadFrame, TypeOK, sender, writer, served
<1>11. ASSUME NEW c \in Conn, ReadErr(c) \/ ReadEof(c) \/ ReadTimeout(c) \/ Break(c) PROVE TypeOK'
  <2>1. ToSet(wire[c]) \subseteq Msg
    BY DEF TypeOK, ToSet
  <2>2. wire' \in [Conn -> Seq(Msg)] /\ lost' \subseteq Msg
    <3>1. wire' = [wire EXCEPT ![c] = <<>>] /\ lost' = lost \cup ToSet(wire[c])
      BY <1>11 DEF ReadErr, ReadEof, ReadTimeout, Hangup, Break
    <3> QED BY <2>1, <3>1 DEF TypeOK
  <2>3. faults' \in 0 .. MaxFaults
    <3>1. UNCHANGED faults \/ (faults < MaxFaults /\ faults' = faults + 1)
      BY <1>11 DEF ReadErr, ReadEof, ReadTimeout, Break
    <3>2. faults \in 0 .. MaxFaults
      BY DEF TypeOK
    <3> QED BY <3>1, <3>2
  <2>4. CASE Hangup(c)
    BY <2>2, <2>3, <2>4, SMTT(30) DEF Hangup, TypeOK, sender, writer, served
  <2>5. CASE Break(c)
    BY <2>2, <2>3, <2>5, SMTT(30) DEF Break, TypeOK, sender, writer, node, served
  <2> QED BY <1>11, <2>4, <2>5 DEF ReadErr, ReadEof, ReadTimeout
<1>12. ASSUME NEW c \in Conn, SpawnDispatch(c) PROVE TypeOK'
  BY <1>12, ZenonT(30) DEF SpawnDispatch, TypeOK, sender, writer, network, served
<1>13. ASSUME NEW m \in Msg, Lookup(m) PROVE TypeOK'
  <2>1. task' \in [Msg -> {"none", "lookup", "send"}] /\ lost' \subseteq Msg
    <3>1. CASE task' = [task EXCEPT ![m] = "send"] /\ UNCHANGED lost
      BY <3>1 DEF TypeOK
    <3>2. CASE task' = [task EXCEPT ![m] = "none"] /\ lost' = lost \cup {m}
      BY <3>2 DEF TypeOK
    <3> QED BY <1>13, <3>1, <3>2 DEF Lookup
  <2> QED BY <1>13, <2>1 DEF Lookup, TypeOK, sender, writer, network, served
<1>14. ASSUME NEW m \in Msg, Dispatch(m) PROVE TypeOK'
  <2>1. bridge' \in Seq(Msg) /\ Len(bridge') <= BridgeCap /\ lost' \subseteq Msg
    <3>1. CASE Len(bridge) < BridgeCap /\ bridge' = Append(bridge, m) /\ UNCHANGED lost
      BY <3>1, Push DEF TypeOK
    <3>2. CASE lost' = lost \cup {m} /\ UNCHANGED bridge
      BY <3>2 DEF TypeOK
    <3> QED BY <1>14, <3>1, <3>2 DEF Dispatch
  <2> QED BY <1>14, <2>1, SMTT(30) DEF Dispatch, TypeOK, sender, writer, network
<1>15. ASSUME Register \/ Unregister PROVE TypeOK'
  BY <1>15 DEF Register, Unregister, TypeOK, sender, writer, network, served
<1>16. ASSUME BridgeRecv PROVE TypeOK'
  <2>1. Head(bridge) \in Msg /\ Tail(bridge) \in Seq(Msg) /\ Len(Tail(bridge)) <= BridgeCap
    BY <1>16, Pop DEF BridgeRecv, TypeOK
  <2> QED BY <1>16, <2>1 DEF BridgeRecv, TypeOK, sender, writer, network, node
<1>17. ASSUME BridgeSend PROVE TypeOK'
  <2>1. bmsg \in Msg
    BY <1>17 DEF BridgeSend, Shape, TypeOK
  <2>2. mailbox' \in Seq(Msg) /\ Len(mailbox') <= Cap
    BY <1>17, <2>1, Push DEF BridgeSend, TypeOK
  <2> QED BY <1>17, <2>2 DEF BridgeSend, TypeOK, sender, writer, network, node
<1>18. ASSUME BridgeSendErr \/ BridgeClosed PROVE TypeOK'
  <2>1. ToSet(bridge) \cup Held(bmsg) \subseteq Msg
    BY DEF TypeOK, ToSet, Held
  <2>2. BridgeEnds
    BY <1>18 DEF BridgeSendErr, BridgeClosed
  <2> QED
    BY <2>1, <2>2 DEF BridgeEnds, TypeOK, sender, writer, network, node
<1>19. ASSUME Handle PROVE TypeOK'
  <2>1. /\ Head(mailbox) \in Msg /\ Tail(mailbox) \in Seq(Msg) /\ Len(Tail(mailbox)) <= Cap
    BY <1>19, Pop DEF Handle, TypeOK
  <2>2. Append(handled, Head(mailbox)) \in Seq(Msg)
    BY <2>1 DEF TypeOK
  <2> QED BY <1>19, <2>1, <2>2, ZenonT(30) DEF Handle, TypeOK, sender, writer, network, node
<1>20. ASSUME ActorExit PROVE TypeOK'
  <2>1. ToSet(mailbox) \subseteq Msg
    BY DEF TypeOK, ToSet
  <2>2. mailbox' \in Seq(Msg) /\ Len(mailbox') <= Cap /\ lost' \subseteq Msg /\ actorUp' \in BOOLEAN
    <3>1. mailbox' = <<>> /\ lost' = lost \cup ToSet(mailbox) /\ actorUp' = FALSE
      BY <1>20 DEF ActorExit
    <3>2. lost \subseteq Msg
      BY DEF TypeOK
    <3>3. mailbox' \in Seq(Msg) /\ Len(mailbox') = 0
      BY <3>1
    <3>4. Len(mailbox') <= Cap
      BY <3>3
    <3> QED BY <2>1, <3>1, <3>2, <3>3, <3>4
  <2> QED BY <1>20, <2>2 DEF ActorExit, TypeOK, sender, writer, network, node
<1>21. ASSUME UNCHANGED vars PROVE TypeOK'
  BY <1>21 DEF vars, TypeOK, sender, writer, network, node, served
<1> HIDE ConstantFacts
<1> QED
  BY <1>1, <1>2, <1>3, <1>4, <1>5, <1>6, <1>7, <1>8, <1>9, <1>10, <1>11, <1>12, <1>13, <1>14,
     <1>15, <1>16, <1>17, <1>18, <1>19, <1>20, <1>21
     DEF Next, WriteLoop, HandleConn, DispatchTask, Bridge

LEMMA ShapeInit == Init => Shape
BY ConstantFacts DEF Init, Shape, NONE

\* A task holds a message exactly while it is at the await that needs it.
LEMMA ShapeStep == TypeOK /\ Shape /\ [Next]_vars => Shape'
<1> SUFFICES ASSUME TypeOK, Shape, [Next]_vars PROVE Shape'
  OBVIOUS
<1> USE ConstantFacts
<1> DEFINE Kept == UNCHANGED <<wmsg, wpc, bmsg, bpc, hmsg, hpc, conn>>
<1>0. ASSUME Kept PROVE Shape'
  BY <1>0 DEF Shape
<1>1. ASSUME NEW k \in {"ok"} \cup Bad, Send(k) PROVE Shape'
  BY <1>0, <1>1 DEF Send, network, node, served
<1>2. ASSUME DropRefs \/ Register \/ Unregister \/ Handle \/ ActorExit \/ UNCHANGED vars PROVE Shape'
  BY <1>0, <1>2 DEF DropRefs, Register, Unregister, Handle, ActorExit, vars, writer, node, served
<1>3. ASSUME Connect PROVE Shape'
  <2>1. /\ conn' = conn + 1 /\ conn + 1 \in Conn /\ conn \in Nat /\ wpc = "connect" /\ wpc' = "recv"
        /\ hpc' = [hpc EXCEPT ![conn + 1] = "read"] /\ UNCHANGED <<wmsg, bmsg, bpc, hmsg>>
    BY <1>3 DEF Connect, Accept, TypeOK, served, NONE
  <2>2. hpc[conn + 1] = "none"
    BY <2>1 DEF Shape
  <2> QED BY <2>1, <2>2 DEF Shape, TypeOK
<1>4. ASSUME ConnectErr \/ Retry \/ RecvNone PROVE Shape'
  BY <1>4 DEF ConnectErr, Retry, RecvNone, Shape, node, served
<1>5. ASSUME Recv PROVE Shape'
  <2>1. Head(queue) \in Msg
    BY <1>5, Pop DEF Recv, TypeOK
  <2> QED BY <1>5, <2>1 DEF Recv, Shape, node, served
<1>6. ASSUME WriteOk \/ WriteErr PROVE Shape'
  BY <1>6 DEF WriteOk, WriteErr, Written, Shape, node, served
<1>7. ASSUME NEW c \in Conn, ReadFrame(c) PROVE Shape'
  <2>1. Head(wire[c]) \in Msg
    BY <1>7, Pop DEF ReadFrame, TypeOK
  <2> QED BY <1>7, <2>1 DEF ReadFrame, Shape, TypeOK, writer, served
<1>8. ASSUME NEW c \in Conn, ReadErr(c) \/ ReadEof(c) \/ ReadTimeout(c) PROVE Shape'
  <2>1. Hangup(c)
    BY <1>8 DEF ReadErr, ReadEof, ReadTimeout
  <2> QED BY <2>1 DEF Hangup, Shape, TypeOK, writer, served
<1>9. ASSUME NEW c \in Conn, Break(c) PROVE Shape'
  BY <1>0, <1>9 DEF Break, writer, node, served
<1>10. ASSUME NEW c \in Conn, SpawnDispatch(c) PROVE Shape'
  BY <1>10 DEF SpawnDispatch, Shape, TypeOK, writer, served
<1>11. ASSUME NEW m \in Msg, DispatchTask(m) PROVE Shape'
  BY <1>0, <1>11 DEF DispatchTask, Lookup, Dispatch, writer, served
<1>12. ASSUME BridgeRecv PROVE Shape'
  <2>1. Head(bridge) \in Msg
    BY <1>12, Pop DEF BridgeRecv, TypeOK
  <2> QED BY <1>12, <2>1 DEF BridgeRecv, Shape, writer, node
<1>13. ASSUME BridgeSend \/ BridgeSendErr \/ BridgeClosed PROVE Shape'
  BY <1>13 DEF BridgeSend, BridgeSendErr, BridgeClosed, BridgeEnds, Shape, writer, node
<1> HIDE ConstantFacts
<1> QED
  BY <1>1, <1>2, <1>3, <1>4, <1>5, <1>6, <1>7, <1>8, <1>9, <1>10, <1>11, <1>12, <1>13
     DEF Next, WriteLoop, HandleConn, Bridge

-----------------------------------------------------------------------------
(* Where a message is                                                      *)

\* The channels, without repeated messages.
Channel(q) == q \in Seq(Msg) /\ IsInjective(q)

Unrepeated ==
    /\ Channel(queue) /\ Channel(bridge) /\ Channel(mailbox) /\ Channel(handled)
    /\ \A c \in Conn : Channel(wire[c])

Single(m) == IF m <= sent THEN \E p \in Place : Where(m) = {p} ELSE Where(m) = {}

Placed == Unrepeated /\ \A m \in Msg : Single(m)

\* One place per message is what ExactlyOnePlace says.
LEMMA PlacedMeans == TypeOK => (Placed <=> ExactlyOnePlace)
<1> SUFFICES ASSUME TypeOK PROVE Placed <=> ExactlyOnePlace
  OBVIOUS
<1>1. /\ queue \in Seq(Msg) /\ bridge \in Seq(Msg) /\ mailbox \in Seq(Msg) /\ handled \in Seq(Msg)
      /\ \A c \in Conn : wire[c] \in Seq(Msg)
  BY DEF TypeOK
<1>2. Unrepeated <=> \A s \in {queue, bridge, mailbox, handled} \cup {wire[c] : c \in Conn} : IsInjective(s)
  BY <1>1 DEF Unrepeated, Channel
<1> QED BY <1>2 DEF Placed, ExactlyOnePlace, Single

OnQueue     == <<"queue", NONE>>
AtWriter    == <<"writer", NONE>>
OnWire(c)   == <<"wire", c>>
AtReader(c) == <<"read", c>>
InTask      == <<"task", NONE>>
OnBridge    == <<"bridge", NONE>>
Passing     == <<"passing", NONE>>
InMailbox   == <<"mailbox", NONE>>
IsHandled   == <<"handled", NONE>>
IsLost      == <<"lost", NONE>>

\* The places are these, and they differ.
LEMMA PlaceFacts ==
    /\ OnQueue \in Place /\ OnQueue[1] = "queue"
    /\ AtWriter \in Place /\ AtWriter[1] = "writer"
    /\ \A c \in Conn : OnWire(c) \in Place /\ OnWire(c)[1] = "wire" /\ OnWire(c)[2] = c
    /\ \A c \in Conn : AtReader(c) \in Place /\ AtReader(c)[1] = "read" /\ AtReader(c)[2] = c
    /\ InTask \in Place /\ InTask[1] = "task"
    /\ OnBridge \in Place /\ OnBridge[1] = "bridge"
    /\ Passing \in Place /\ Passing[1] = "passing"
    /\ InMailbox \in Place /\ InMailbox[1] = "mailbox"
    /\ IsHandled \in Place /\ IsHandled[1] = "handled"
    /\ IsLost \in Place /\ IsLost[1] = "lost"
BY DEF Place, OnQueue, AtWriter, OnWire, AtReader, InTask, OnBridge, Passing, InMailbox, IsHandled, IsLost

LEMMA PlaceCases ==
    ASSUME NEW p \in Place
    PROVE  \/ p \in {OnQueue, AtWriter, InTask, OnBridge, Passing, InMailbox, IsHandled, IsLost}
           \/ \E c \in Conn : p = OnWire(c) \/ p = AtReader(c)
BY DEF Place, OnQueue, AtWriter, OnWire, AtReader, InTask, OnBridge, Passing, InMailbox, IsHandled, IsLost

LEMMA AtFacts ==
    /\ At(OnQueue) = ToSet(queue) /\ At(AtWriter) = Held(wmsg)
    /\ \A c \in Conn : At(OnWire(c)) = ToSet(wire[c]) /\ At(AtReader(c)) = Held(hmsg[c])
    /\ At(InTask) = InFlight /\ At(OnBridge) = ToSet(bridge) /\ At(Passing) = Held(bmsg)
    /\ At(InMailbox) = ToSet(mailbox) /\ At(IsHandled) = ToSet(handled) /\ At(IsLost) = lost
BY PlaceFacts DEF At

LEMMA AtFactsNext ==
    /\ At(OnQueue)' = ToSet(queue') /\ At(AtWriter)' = Held(wmsg')
    /\ \A c \in Conn : At(OnWire(c))' = ToSet(wire'[c]) /\ At(AtReader(c))' = Held(hmsg'[c])
    /\ At(InTask)' = InFlight' /\ At(OnBridge)' = ToSet(bridge') /\ At(Passing)' = Held(bmsg')
    /\ At(InMailbox)' = ToSet(mailbox') /\ At(IsHandled)' = ToSet(handled') /\ At(IsLost)' = lost'
BY PlaceFacts DEF At

\* Messages of one or several places are brought to another one.
LEMMA Brought ==
    ASSUME \A m \in Msg : Single(m), sent' = sent, NEW t \in Place, NEW S,
           \A m \in S : Where(m) # {},
           At(t)' = At(t) \cup S, \A p \in Place \ {t} : At(p)' = At(p) \ S
    PROVE  \A m \in Msg : Single(m)'
<1> SUFFICES ASSUME NEW m \in Msg PROVE Single(m)'
  OBVIOUS
<1>1. CASE m \in S
  <2>1. m <= sent
    BY <1>1 DEF Single
  <2>2. Where(m)' = {t}
    BY <1>1 DEF Where
  <2> QED BY <2>1, <2>2 DEF Single
<1>2. CASE m \notin S
  <2>1. Where(m)' = Where(m)
    BY <1>2 DEF Where
  <2>2. Single(m)
    OBVIOUS
  <2> QED BY <2>1, <2>2 DEF Single
<1> QED BY <1>1, <1>2

\* Messages move from one place to another.
LEMMA Relocated ==
    ASSUME \A m \in Msg : Single(m), sent' = sent, NEW s \in Place, NEW t \in Place, s # t,
           NEW S, S \subseteq Msg, S \subseteq At(s),
           At(s)' = At(s) \ S, At(t)' = At(t) \cup S,
           \A p \in Place \ {s, t} : At(p)' = At(p)
    PROVE  \A m \in Msg : Single(m)'
<1>1. \A m \in S : Where(m) # {}
  BY DEF Where
<1>2. ASSUME NEW p \in Place \ {t} PROVE At(p)' = At(p) \ S
  <2>1. CASE p = s
    BY <2>1
  <2>2. CASE p # s
    <3>1. ASSUME NEW m \in S PROVE m \notin At(p)
      <4>1. Single(m) /\ s \in Where(m)
        BY DEF Where
      <4>2. PICK q \in Place : Where(m) = {q}
        BY <4>1 DEF Single
      <4> QED BY <2>2, <4>1, <4>2 DEF Where
    <3>2. At(p)' = At(p)
      BY <2>2
    <3> QED BY <3>1, <3>2
  <2> QED BY <2>1, <2>2
<1> QED BY <1>1, <1>2, Brought

\* A message that was in one place is in no channel it is put into.
LEMMA NotThere ==
    ASSUME Placed, NEW s \in Place, NEW t \in Place, s # t, NEW m \in Msg, m \in At(s)
    PROVE  m \notin At(t)
<1>1. PICK q \in Place : Where(m) = {q}
  BY DEF Placed, Single, Where
<1> QED BY <1>1 DEF Where

LEMMA ChannelPush ==
    ASSUME NEW q, Channel(q), NEW x \in Msg, x \notin ToSet(q)
    PROVE  Channel(Append(q, x)) /\ ToSet(Append(q, x)) = ToSet(q) \cup {x}
<1>1. /\ q \in Seq(Msg) /\ Append(q, x) \in Seq(Msg) /\ Len(q) \in Nat
      /\ DOMAIN q = 1 .. Len(q) /\ DOMAIN Append(q, x) = 1 .. Len(q) + 1
      /\ \A k \in DOMAIN q : Append(q, x)[k] = q[k]
      /\ Append(q, x)[Len(q) + 1] = x /\ ToSet(Append(q, x)) = ToSet(q) \cup {x}
  BY Push DEF Channel
<1>2. \A k \in DOMAIN q : q[k] # x
  BY DEF ToSet
<1>3. \A a, b \in DOMAIN q : q[a] = q[b] => a = b
  BY DEF Channel, IsInjective
<1>4. \A k \in DOMAIN Append(q, x) : k \in DOMAIN q \/ k = Len(q) + 1
  BY <1>1
<1>5. IsInjective(Append(q, x))
  BY <1>1, <1>2, <1>3, <1>4 DEF IsInjective
<1> QED BY <1>1, <1>5 DEF Channel

LEMMA ChannelPop ==
    ASSUME NEW q, Channel(q), q # <<>>
    PROVE  /\ Channel(Tail(q)) /\ ToSet(Tail(q)) = ToSet(q) \ {Head(q)}
           /\ Head(q) \in Msg /\ Head(q) \in ToSet(q)
<1>1. q \in Seq(Msg) /\ IsInjective(q)
  BY DEF Channel
<1>2. /\ Head(q) \in Msg /\ Head(q) = q[1] /\ 1 \in DOMAIN q /\ Tail(q) \in Seq(Msg)
      /\ IsInjective(Tail(q)) /\ ToSet(Tail(q)) = ToSet(q) \ {Head(q)}
  BY <1>1, Pop
<1> QED BY <1>2 DEF Channel, ToSet

LEMMA ChannelEmpty == Channel(<<>>) /\ ToSet(<<>>) = {}
BY DEF Channel, IsInjective, ToSet

\* Nothing is accepted at the start.
LEMMA PlacedInit == Init => Placed
<1> SUFFICES ASSUME Init PROVE Placed
  OBVIOUS
<1>1. Unrepeated
  BY ChannelEmpty DEF Init, Unrepeated
<1>2. ASSUME NEW p \in Place PROVE At(p) = {}
  BY PlaceCases, AtFacts, ChannelEmpty DEF Init, Held, InFlight
<1>3. \A m \in Msg : Where(m) = {} /\ ~(m <= sent)
  BY <1>2, ConstantFacts DEF Where, Init, Msg
<1> QED BY <1>1, <1>3 DEF Placed, Single

\* What a step does to the places: a message is accepted, messages are lost, or
\* one message goes to the next place on its way.
Accepts ==
    /\ sent + 1 \in Msg /\ sent \in Nat /\ sent' = sent + 1 /\ via' = via
    /\ At(OnQueue)' = At(OnQueue) \cup {sent + 1}
    /\ \A p \in Place \ {OnQueue} : At(p)' = At(p)

Loses(S) ==
    /\ sent' = sent /\ \A m \in Msg \ S : via'[m] = via[m]
    /\ \A m \in S : Where(m) # {}
    /\ At(IsLost)' = At(IsLost) \cup S
    /\ \A p \in Place \ {IsLost} : At(p)' = At(p) \ S

Hops(x, s, t) ==
    /\ sent' = sent /\ x \in At(s)
    /\ At(s)' = At(s) \ {x} /\ At(t)' = At(t) \cup {x}
    /\ \A p \in Place \ {s, t} : At(p)' = At(p)

Forwards(x) ==
    \/ \E c \in Conn : Hops(x, AtWriter, OnWire(c)) /\ via' = [via EXCEPT ![x] = c]
    \/ /\ via' = via
       /\ \/ queue # <<>> /\ x = Head(queue) /\ Hops(x, OnQueue, AtWriter)
          \/ \E c \in Conn : wire[c] # <<>> /\ x = Head(wire[c]) /\ Hops(x, OnWire(c), AtReader(c))
          \/ \E c \in Conn : PermitFree /\ Hops(x, AtReader(c), InTask)
          \/ Hops(x, InTask, OnBridge)
          \/ bridge # <<>> /\ x = Head(bridge) /\ Hops(x, OnBridge, Passing)
          \/ Hops(x, Passing, InMailbox)
          \/ mailbox # <<>> /\ x = Head(mailbox) /\ Hops(x, InMailbox, IsHandled)

StepKind == Accepts \/ (\E S \in SUBSET Msg : Loses(S)) \/ \E x \in Msg : Forwards(x)

\* Messages that leave one place for the lost ones, and nothing else, are lost.
LEMMA LostFrom ==
    ASSUME Placed, sent' = sent, NEW s \in Place, s # IsLost,
           NEW S \in SUBSET Msg, S \subseteq At(s), \A m \in Msg \ S : via'[m] = via[m],
           At(s)' = At(s) \ S, At(IsLost)' = At(IsLost) \cup S,
           \A p \in Place \ {s, IsLost} : At(p)' = At(p)
    PROVE  Loses(S)
<1>1. \A m \in S : Where(m) # {}
  BY DEF Where
<1>2. ASSUME NEW p \in Place \ {IsLost} PROVE At(p)' = At(p) \ S
  BY NotThere
<1> QED BY <1>1, <1>2 DEF Loses

LEMMA Steps == TypeOK /\ Shape /\ Placed /\ [Next]_vars => Unrepeated' /\ StepKind
<1> SUFFICES ASSUME TypeOK, Shape, Placed, [Next]_vars PROVE Unrepeated' /\ StepKind
  OBVIOUS
<1> DEFINE Goal == Unrepeated' /\ StepKind
<1>0. /\ Channel(queue) /\ Channel(bridge) /\ Channel(mailbox) /\ Channel(handled)
      /\ \A c \in Conn : Channel(wire[c])
  BY DEF Placed, Unrepeated
<1>a. \A x \in Msg : Held(x) = {x} /\ x # NONE
  BY ConstantFacts DEF Held
<1>b. Held(NONE) = {}
  BY DEF Held
<1>1. ASSUME UNCHANGED <<sent, queue, wmsg, wire, hmsg, InFlight, bridge, bmsg, mailbox, handled, lost, via>>
      PROVE  Goal
  <2>1. \A p \in Place : At(p)' = At(p)
    BY <1>1, PlaceCases, AtFacts, AtFactsNext
  <2>2. Unrepeated'
    BY <1>0, <1>1 DEF Unrepeated
  <2>3. Loses({})
    BY <1>1, <2>1, PlaceFacts DEF Loses
  <2> QED BY <2>2, <2>3 DEF StepKind
<1>2. ASSUME NEW k \in {"ok"} \cup Bad, Send(k) PROVE Goal
  <2>1. /\ sent + 1 \in Msg /\ sent \in Nat /\ sent' = sent + 1 /\ queue' = Append(queue, sent + 1)
        /\ UNCHANGED <<wmsg, wire, hmsg, task, bridge, bmsg, mailbox, handled, lost, via>>
    BY <1>2, ConstantFacts DEF Send, TypeOK, Msg, network, node, served
  <2>2. Where(sent + 1) = {}
    BY <2>1 DEF Placed, Single
  <2>3. sent + 1 \notin ToSet(queue)
    BY <2>2, PlaceFacts, AtFacts DEF Where
  <2>4. Channel(queue') /\ ToSet(queue') = ToSet(queue) \cup {sent + 1}
    BY <1>0, <2>1, <2>3, ChannelPush
  <2>5. InFlight' = InFlight
    BY <2>1 DEF InFlight
  <2>6. ASSUME NEW p \in Place, p # OnQueue PROVE At(p)' = At(p)
    BY <2>1, <2>5, <2>6, PlaceCases, AtFacts, AtFactsNext
  <2>7. At(OnQueue)' = At(OnQueue) \cup {sent + 1} /\ OnQueue \in Place
    BY <2>4, AtFacts, AtFactsNext, PlaceFacts
  <2>8. Unrepeated'
    BY <1>0, <2>1, <2>4 DEF Unrepeated
  <2> QED BY <2>1, <2>6, <2>7, <2>8 DEF StepKind, Accepts
<1>3. ASSUME DropRefs \/ Connect \/ ConnectErr \/ RecvNone \/ Register \/ Unregister \/ UNCHANGED vars
      PROVE  Goal
  <2>1. UNCHANGED <<sent, queue, wmsg, wire, hmsg, task, bridge, bmsg, mailbox, handled, lost, via>>
    BY <1>3 DEF DropRefs, Connect, ConnectErr, RecvNone, Register, Unregister, vars,
                sender, writer, network, node, served
  <2> QED BY <1>1, <2>1 DEF InFlight
<1>4. ASSUME Retry PROVE Goal
  <2>1. CASE refs /\ UNCHANGED <<queue, lost>>
    <3>1. UNCHANGED <<sent, queue, wmsg, wire, hmsg, task, bridge, bmsg, mailbox, handled, lost, via>>
      BY <1>4, <2>1 DEF Retry, sender, network, node, served
    <3> QED BY <1>1, <3>1 DEF InFlight
  <2>2. CASE queue' = <<>> /\ lost' = lost \cup ToSet(queue)
    <3>1. UNCHANGED <<sent, wmsg, wire, hmsg, task, bridge, bmsg, mailbox, handled, via>>
      BY <1>4 DEF Retry, sender, network, node, served
    <3>2. InFlight' = InFlight /\ ToSet(queue) \subseteq Msg /\ ToSet(queue') = {} /\ Channel(queue')
      BY <1>0, <2>2, <3>1, ChannelEmpty DEF InFlight, Channel, ToSet
    <3>3. \A p \in Place \ {OnQueue, IsLost} : At(p)' = At(p)
      BY <3>1, <3>2, PlaceCases, AtFacts, AtFactsNext
    <3>4. Loses(ToSet(queue)) /\ ToSet(queue) \in SUBSET Msg
      <4>1. OnQueue \in Place /\ IsLost \in Place /\ OnQueue # IsLost
        BY PlaceFacts
      <4>2. /\ ToSet(queue) \subseteq Msg /\ ToSet(queue) \subseteq At(OnQueue)
            /\ At(OnQueue)' = At(OnQueue) \ ToSet(queue) /\ At(IsLost)' = At(IsLost) \cup ToSet(queue)
        BY <1>0, <2>2, <3>1, <3>2, <3>3, AtFacts, AtFactsNext
      <4> QED BY <1>0, <2>2, <3>1, <3>2, <3>3, <4>1, <4>2, LostFrom
    <3> QED BY <1>0, <3>1, <3>2, <3>4 DEF Unrepeated, StepKind, Forwards
  <2> QED BY <1>4, <2>1, <2>2 DEF Retry
<1>5. ASSUME Recv PROVE Goal
  <2>1. /\ queue # <<>> /\ wmsg = NONE /\ wmsg' = Head(queue) /\ queue' = Tail(queue)
        /\ UNCHANGED <<sent, wire, hmsg, task, bridge, bmsg, mailbox, handled, lost, via>>
    BY <1>5 DEF Recv, Shape, sender, network, node, served
  <2>2. /\ Channel(queue') /\ ToSet(queue') = ToSet(queue) \ {Head(queue)}
        /\ Head(queue) \in Msg /\ Head(queue) \in ToSet(queue)
    BY <1>0, <2>1, ChannelPop
  <2>3. InFlight' = InFlight /\ Held(wmsg) = {} /\ Held(wmsg') = {Head(queue)}
    BY <1>a, <1>b, <2>1, <2>2 DEF InFlight
  <2>4. \A p \in Place \ {OnQueue, AtWriter} : At(p)' = At(p)
    BY <2>1, <2>3, PlaceCases, AtFacts, AtFactsNext
  <2>5. Hops(Head(queue), OnQueue, AtWriter) /\ Head(queue) \in Msg
    <3>1. OnQueue \in Place /\ AtWriter \in Place /\ OnQueue # AtWriter
      BY PlaceFacts
    <3>2. /\ {Head(queue)} \subseteq Msg /\ {Head(queue)} \subseteq At(OnQueue)
          /\ At(OnQueue)' = At(OnQueue) \ {Head(queue)} /\ At(AtWriter)' = At(AtWriter) \cup {Head(queue)}
      BY <1>0, <2>1, <2>2, <2>3, <2>4, AtFacts, AtFactsNext
    <3> QED BY <1>0, <2>1, <2>2, <2>3, <2>4, <3>1, <3>2 DEF Hops
  <2> QED BY <1>0, <2>1, <2>2, <2>5 DEF Unrepeated, StepKind, Forwards
<1>6. ASSUME WriteOk \/ WriteErr PROVE Goal
  <2>1. /\ wmsg \in Msg /\ wmsg' = NONE /\ conn \in Conn
        /\ UNCHANGED <<sent, queue, hmsg, task, bridge, bmsg, mailbox, handled>>
        /\ \A m \in Msg \ {wmsg} : via'[m] = via[m]
    BY <1>6, ConstantFacts DEF WriteOk, WriteErr, Written, Shape, TypeOK, sender, node, served
  <2>2. InFlight' = InFlight /\ Held(wmsg) = {wmsg} /\ Held(wmsg') = {}
    BY <1>a, <1>b, <2>1 DEF InFlight
  <2>3. CASE wire' = [wire EXCEPT ![conn] = Append(@, wmsg)] /\ UNCHANGED lost /\ via' = [via EXCEPT ![wmsg] = conn]
    <3>0. PICK c \in Conn : c = conn
      BY <2>1
    <3>1. wmsg \notin ToSet(wire[c])
      BY <2>1, <2>2, NotThere, AtFacts, PlaceFacts
    <3>2. wire'[c] = Append(wire[c], wmsg) /\ \A d \in Conn \ {c} : wire'[d] = wire[d]
      BY <2>1, <2>3, <3>0 DEF TypeOK
    <3>3. Channel(wire'[c]) /\ ToSet(wire'[c]) = ToSet(wire[c]) \cup {wmsg}
      BY <1>0, <2>1, <3>1, <3>2, ChannelPush
    <3>4. ASSUME NEW p \in Place \ {AtWriter, OnWire(c)} PROVE At(p)' = At(p)
      BY <2>1, <2>2, <2>3, <3>2, PlaceCases, AtFacts, AtFactsNext
    <3>5. Hops(wmsg, AtWriter, OnWire(c)) /\ wmsg \in Msg
      <4>1. AtWriter \in Place /\ OnWire(c) \in Place /\ AtWriter # OnWire(c)
        BY <2>1, PlaceFacts
      <4>2. /\ {wmsg} \subseteq Msg /\ {wmsg} \subseteq At(AtWriter)
            /\ At(AtWriter)' = At(AtWriter) \ {wmsg} /\ At(OnWire(c))' = At(OnWire(c)) \cup {wmsg}
        BY <1>0, <2>1, <2>2, <3>3, <3>4, AtFacts, AtFactsNext
      <4> QED BY <1>0, <2>1, <2>2, <3>3, <3>4, <4>1, <4>2 DEF Hops
    <3> QED BY <1>0, <2>1, <3>0, <3>2, <3>3, <3>5, <2>3 DEF Unrepeated, StepKind, Forwards
  <2>4. CASE lost' = lost \cup {wmsg} /\ UNCHANGED wire
    <3>1. \A p \in Place \ {AtWriter, IsLost} : At(p)' = At(p)
      BY <2>1, <2>2, <2>4, PlaceCases, AtFacts, AtFactsNext
    <3>2. Loses({wmsg}) /\ {wmsg} \in SUBSET Msg
      <4>1. AtWriter \in Place /\ IsLost \in Place /\ AtWriter # IsLost
        BY PlaceFacts
      <4>2. /\ {wmsg} \subseteq Msg /\ {wmsg} \subseteq At(AtWriter)
            /\ At(AtWriter)' = At(AtWriter) \ {wmsg} /\ At(IsLost)' = At(IsLost) \cup {wmsg}
        BY <1>0, <2>1, <2>2, <2>4, <3>1, AtFacts, AtFactsNext
      <4> QED BY <1>0, <2>1, <2>2, <2>4, <3>1, <4>1, <4>2, LostFrom
    <3> QED BY <1>0, <2>1, <2>4, <3>2 DEF Unrepeated, StepKind, Forwards
  <2> QED BY <1>6, <2>3, <2>4 DEF WriteOk, WriteErr
<1>7. ASSUME NEW c \in Conn, ReadErr(c) \/ ReadEof(c) \/ ReadTimeout(c) \/ Break(c) PROVE Goal
  <2>1. /\ wire' = [wire EXCEPT ![c] = <<>>] /\ lost' = lost \cup ToSet(wire[c])
        /\ UNCHANGED <<sent, queue, wmsg, hmsg, task, bridge, bmsg, mailbox, handled, via>>
    BY <1>7 DEF ReadErr, ReadEof, ReadTimeout, Hangup, Break, sender, writer, node, served
  <2>2. /\ wire'[c] = <<>> /\ \A d \in Conn \ {c} : wire'[d] = wire[d]
        /\ InFlight' = InFlight /\ ToSet(wire[c]) \subseteq Msg
    BY <1>0, <2>1 DEF TypeOK, InFlight, ToSet
  <2>3. ASSUME NEW p \in Place \ {OnWire(c), IsLost} PROVE At(p)' = At(p)
    BY <2>1, <2>2, PlaceCases, AtFacts, AtFactsNext
  <2>4. Loses(ToSet(wire[c])) /\ ToSet(wire[c]) \in SUBSET Msg
    <3>1. OnWire(c) \in Place /\ IsLost \in Place /\ OnWire(c) # IsLost
      BY PlaceFacts
    <3>2. /\ ToSet(wire[c]) \subseteq Msg /\ ToSet(wire[c]) \subseteq At(OnWire(c))
          /\ At(OnWire(c))' = At(OnWire(c)) \ ToSet(wire[c]) /\ At(IsLost)' = At(IsLost) \cup ToSet(wire[c])
      BY <1>0, <2>1, <2>2, <2>3, ChannelEmpty, AtFacts, AtFactsNext
    <3> QED BY <1>0, <2>1, <2>2, <2>3, ChannelEmpty, <3>1, <3>2, LostFrom
  <2> QED BY <1>0, <2>1, <2>2, <2>4, ChannelEmpty DEF Unrepeated, StepKind, Forwards
<1>8. ASSUME NEW c \in Conn, ReadFrame(c) PROVE Goal
  <2>1. /\ wire[c] # <<>> /\ hmsg[c] = NONE
        /\ hmsg'[c] = Head(wire[c]) /\ \A d \in Conn \ {c} : hmsg'[d] = hmsg[d]
        /\ wire'[c] = Tail(wire[c]) /\ \A d \in Conn \ {c} : wire'[d] = wire[d]
        /\ UNCHANGED <<sent, queue, wmsg, task, bridge, bmsg, mailbox, handled, lost, via>>
    BY <1>8 DEF ReadFrame, Shape, TypeOK, sender, writer, served
  <2>2. /\ Channel(wire'[c]) /\ ToSet(wire'[c]) = ToSet(wire[c]) \ {Head(wire[c])}
        /\ Head(wire[c]) \in Msg /\ Head(wire[c]) \in ToSet(wire[c])
    BY <1>0, <2>1, ChannelPop
  <2>3. InFlight' = InFlight /\ Held(hmsg[c]) = {} /\ Held(hmsg'[c]) = {Head(wire[c])}
    BY <1>a, <1>b, <2>1, <2>2 DEF InFlight
  <2>4. ASSUME NEW p \in Place \ {OnWire(c), AtReader(c)} PROVE At(p)' = At(p)
    BY <2>1, <2>3, PlaceCases, AtFacts, AtFactsNext
  <2>5. Hops(Head(wire[c]), OnWire(c), AtReader(c)) /\ Head(wire[c]) \in Msg
    <3>1. OnWire(c) \in Place /\ AtReader(c) \in Place /\ OnWire(c) # AtReader(c)
      BY PlaceFacts
    <3>2. /\ {Head(wire[c])} \subseteq Msg /\ {Head(wire[c])} \subseteq At(OnWire(c))
          /\ At(OnWire(c))' = At(OnWire(c)) \ {Head(wire[c])} /\ At(AtReader(c))' = At(AtReader(c)) \cup {Head(wire[c])}
      BY <1>0, <2>1, <2>2, <2>3, <2>4, AtFacts, AtFactsNext
    <3> QED BY <1>0, <2>1, <2>2, <2>3, <2>4, <3>1, <3>2 DEF Hops
  <2> QED BY <1>0, <2>1, <2>2, <2>5 DEF Unrepeated, StepKind, Forwards
<1>9. ASSUME NEW c \in Conn, SpawnDispatch(c) PROVE Goal
  <2>1. /\ hmsg[c] \in Msg /\ hmsg'[c] = NONE /\ \A d \in Conn \ {c} : hmsg'[d] = hmsg[d]
        /\ task' = [task EXCEPT ![hmsg[c]] = "lookup"] /\ PermitFree
        /\ UNCHANGED <<sent, queue, wmsg, wire, bridge, bmsg, mailbox, handled, lost, via>>
    BY <1>9 DEF SpawnDispatch, Shape, TypeOK, sender, writer, network, served
  <2>2. InFlight' = InFlight \cup {hmsg[c]}
    BY <2>1 DEF InFlight, TypeOK
  <2>3. Held(hmsg[c]) = {hmsg[c]} /\ Held(hmsg'[c]) = {}
    BY <1>a, <1>b, <2>1
  <2>4. ASSUME NEW p \in Place \ {InTask, AtReader(c)} PROVE At(p)' = At(p)
    BY <2>1, PlaceCases, AtFacts, AtFactsNext
  <2>5. Hops(hmsg[c], AtReader(c), InTask) /\ hmsg[c] \in Msg
    <3>1. AtReader(c) \in Place /\ InTask \in Place /\ AtReader(c) # InTask
      BY PlaceFacts
    <3>2. /\ {hmsg[c]} \subseteq Msg /\ {hmsg[c]} \subseteq At(AtReader(c))
          /\ At(AtReader(c))' = At(AtReader(c)) \ {hmsg[c]} /\ At(InTask)' = At(InTask) \cup {hmsg[c]}
      BY <1>0, <2>1, <2>2, <2>3, <2>4, AtFacts, AtFactsNext
    <3> QED BY <1>0, <2>1, <2>2, <2>3, <2>4, <3>1, <3>2 DEF Hops
  <2> QED BY <1>0, <2>1, <2>5 DEF Unrepeated, StepKind, Forwards
<1>10. ASSUME NEW m \in Msg, Lookup(m) PROVE Goal
  <2>1. task[m] = "lookup" /\ UNCHANGED <<sent, queue, wmsg, wire, hmsg, bridge, bmsg, mailbox, handled, via>>
    BY <1>10 DEF Lookup, sender, writer, network, served
  <2>2. CASE task' = [task EXCEPT ![m] = "send"] /\ UNCHANGED lost
    <3>1. InFlight' = InFlight
      BY <2>1, <2>2 DEF InFlight, TypeOK
    <3> QED BY <1>1, <2>1, <2>2, <3>1
  <2>3. CASE task' = [task EXCEPT ![m] = "none"] /\ lost' = lost \cup {m}
    <3>1. InFlight' = InFlight \ {m} /\ m \in InFlight
      BY <2>1, <2>3 DEF InFlight, TypeOK
    <3>2. \A p \in Place \ {InTask, IsLost} : At(p)' = At(p)
      BY <2>1, PlaceCases, AtFacts, AtFactsNext
    <3>3. Loses({m}) /\ {m} \in SUBSET Msg
      <4>1. InTask \in Place /\ IsLost \in Place /\ InTask # IsLost
        BY PlaceFacts
      <4>2. /\ {m} \subseteq Msg /\ {m} \subseteq At(InTask)
            /\ At(InTask)' = At(InTask) \ {m} /\ At(IsLost)' = At(IsLost) \cup {m}
        BY <1>0, <2>1, <2>3, <3>1, <3>2, AtFacts, AtFactsNext
      <4> QED BY <1>0, <2>1, <2>3, <3>1, <3>2, <4>1, <4>2, LostFrom
    <3> QED BY <1>0, <2>1, <3>3 DEF Unrepeated, StepKind, Forwards
  <2> QED BY <1>10, <2>2, <2>3 DEF Lookup
<1>11. ASSUME NEW m \in Msg, Dispatch(m) PROVE Goal
  <2>1. /\ task[m] = "send" /\ task' = [task EXCEPT ![m] = "none"]
        /\ UNCHANGED <<sent, queue, wmsg, wire, hmsg, bmsg, mailbox, handled, via>>
    BY <1>11 DEF Dispatch, sender, writer, network
  <2>2. InFlight' = InFlight \ {m} /\ m \in InFlight
    BY <2>1 DEF InFlight, TypeOK
  <2>3. CASE bridge' = Append(bridge, m) /\ UNCHANGED lost
    <3>1. m \notin ToSet(bridge)
      BY <2>2, NotThere, AtFacts, PlaceFacts
    <3>2. Channel(bridge') /\ ToSet(bridge') = ToSet(bridge) \cup {m}
      BY <1>0, <2>3, <3>1, ChannelPush
    <3>3. \A p \in Place \ {InTask, OnBridge} : At(p)' = At(p)
      BY <2>1, <2>3, PlaceCases, AtFacts, AtFactsNext
    <3>4. Hops(m, InTask, OnBridge) /\ m \in Msg
      <4>1. InTask \in Place /\ OnBridge \in Place /\ InTask # OnBridge
        BY PlaceFacts
      <4>2. /\ {m} \subseteq Msg /\ {m} \subseteq At(InTask)
            /\ At(InTask)' = At(InTask) \ {m} /\ At(OnBridge)' = At(OnBridge) \cup {m}
        BY <1>0, <2>1, <2>2, <3>2, <3>3, AtFacts, AtFactsNext
      <4> QED BY <1>0, <2>1, <2>2, <3>2, <3>3, <4>1, <4>2 DEF Hops
    <3> QED BY <1>0, <2>1, <3>2, <3>4 DEF Unrepeated, StepKind, Forwards
  <2>4. CASE lost' = lost \cup {m} /\ UNCHANGED bridge
    <3>1. \A p \in Place \ {InTask, IsLost} : At(p)' = At(p)
      BY <2>1, <2>4, PlaceCases, AtFacts, AtFactsNext
    <3>2. Loses({m}) /\ {m} \in SUBSET Msg
      <4>1. InTask \in Place /\ IsLost \in Place /\ InTask # IsLost
        BY PlaceFacts
      <4>2. /\ {m} \subseteq Msg /\ {m} \subseteq At(InTask)
            /\ At(InTask)' = At(InTask) \ {m} /\ At(IsLost)' = At(IsLost) \cup {m}
        BY <1>0, <2>1, <2>2, <2>4, <3>1, AtFacts, AtFactsNext
      <4> QED BY <1>0, <2>1, <2>2, <2>4, <3>1, <4>1, <4>2, LostFrom
    <3> QED BY <1>0, <2>1, <2>4, <3>2 DEF Unrepeated, StepKind, Forwards
  <2> QED BY <1>11, <2>3, <2>4 DEF Dispatch
<1>12. ASSUME BridgeRecv PROVE Goal
  <2>1. /\ bridge # <<>> /\ bmsg = NONE /\ bmsg' = Head(bridge) /\ bridge' = Tail(bridge)
        /\ UNCHANGED <<sent, queue, wmsg, wire, hmsg, task, mailbox, handled, lost, via>>
    BY <1>12 DEF BridgeRecv, Shape, sender, writer, network, node
  <2>2. /\ Channel(bridge') /\ ToSet(bridge') = ToSet(bridge) \ {Head(bridge)}
        /\ Head(bridge) \in Msg /\ Head(bridge) \in ToSet(bridge)
    BY <1>0, <2>1, ChannelPop
  <2>3. InFlight' = InFlight /\ Held(bmsg) = {} /\ Held(bmsg') = {Head(bridge)}
    BY <1>a, <1>b, <2>1, <2>2 DEF InFlight
  <2>4. \A p \in Place \ {OnBridge, Passing} : At(p)' = At(p)
    BY <2>1, <2>3, PlaceCases, AtFacts, AtFactsNext
  <2>5. Hops(Head(bridge), OnBridge, Passing) /\ Head(bridge) \in Msg
    <3>1. OnBridge \in Place /\ Passing \in Place /\ OnBridge # Passing
      BY PlaceFacts
    <3>2. /\ {Head(bridge)} \subseteq Msg /\ {Head(bridge)} \subseteq At(OnBridge)
          /\ At(OnBridge)' = At(OnBridge) \ {Head(bridge)} /\ At(Passing)' = At(Passing) \cup {Head(bridge)}
      BY <1>0, <2>1, <2>2, <2>3, <2>4, AtFacts, AtFactsNext
    <3> QED BY <1>0, <2>1, <2>2, <2>3, <2>4, <3>1, <3>2 DEF Hops
  <2> QED BY <1>0, <2>1, <2>2, <2>5 DEF Unrepeated, StepKind, Forwards
<1>13. ASSUME BridgeSend PROVE Goal
  <2>1. /\ bmsg \in Msg /\ bmsg' = NONE /\ mailbox' = Append(mailbox, bmsg)
        /\ UNCHANGED <<sent, queue, wmsg, wire, hmsg, task, bridge, handled, lost, via>>
    BY <1>13 DEF BridgeSend, Shape, TypeOK, sender, writer, network, node
  <2>2. InFlight' = InFlight /\ Held(bmsg) = {bmsg} /\ Held(bmsg') = {}
    BY <1>a, <1>b, <2>1 DEF InFlight
  <2>3. bmsg \notin ToSet(mailbox)
    BY <2>1, <2>2, NotThere, AtFacts, PlaceFacts
  <2>4. Channel(mailbox') /\ ToSet(mailbox') = ToSet(mailbox) \cup {bmsg}
    BY <1>0, <2>1, <2>3, ChannelPush
  <2>5. \A p \in Place \ {Passing, InMailbox} : At(p)' = At(p)
    BY <2>1, <2>2, PlaceCases, AtFacts, AtFactsNext
  <2>6. Hops(bmsg, Passing, InMailbox) /\ bmsg \in Msg
    <3>1. Passing \in Place /\ InMailbox \in Place /\ Passing # InMailbox
      BY PlaceFacts
    <3>2. /\ {bmsg} \subseteq Msg /\ {bmsg} \subseteq At(Passing)
          /\ At(Passing)' = At(Passing) \ {bmsg} /\ At(InMailbox)' = At(InMailbox) \cup {bmsg}
      BY <1>0, <2>1, <2>2, <2>4, <2>5, AtFacts, AtFactsNext
    <3> QED BY <1>0, <2>1, <2>2, <2>4, <2>5, <3>1, <3>2 DEF Hops
  <2> QED BY <1>0, <2>1, <2>4, <2>6 DEF Unrepeated, StepKind, Forwards
<1>14. ASSUME BridgeSendErr \/ BridgeClosed PROVE Goal
  <2>1. /\ bridge' = <<>> /\ bmsg' = NONE /\ lost' = lost \cup ToSet(bridge) \cup Held(bmsg)
        /\ UNCHANGED <<sent, queue, wmsg, wire, hmsg, task, mailbox, handled, via>>
    BY <1>14 DEF BridgeSendErr, BridgeClosed, BridgeEnds, sender, writer, network, node
  <2> DEFINE S == ToSet(bridge) \cup Held(bmsg)
  <2>2. InFlight' = InFlight /\ ToSet(bridge') = {} /\ Held(bmsg') = {} /\ Channel(bridge')
    BY <1>b, <2>1, ChannelEmpty DEF InFlight
  <2>3. S \subseteq Msg
    BY DEF TypeOK, ToSet, Held
  <2>4. \A m \in S : Where(m) # {}
    BY PlaceFacts, AtFacts DEF Where
  <2>5. ASSUME NEW p \in Place \ {OnBridge, Passing}, NEW m \in S PROVE m \notin At(p)
    BY <2>3, PlaceFacts, AtFacts, NotThere
  <2>6. At(OnBridge)' = At(OnBridge) \ S /\ At(Passing)' = At(Passing) \ S /\ At(IsLost)' = At(IsLost) \cup S
    BY <2>1, <2>2, AtFacts, AtFactsNext
  <2>7. \A p \in Place \ {OnBridge, Passing, IsLost} : At(p)' = At(p)
    BY <2>1, <2>2, PlaceCases, AtFacts, AtFactsNext
  <2> HIDE DEF S
  <2>8. \A p \in Place \ {IsLost} : At(p)' = At(p) \ S
    BY <2>5, <2>6, <2>7
  <2>9. Loses(S)
    BY <2>1, <2>4, <2>6, <2>8 DEF Loses
  <2> QED BY <1>0, <2>1, <2>2, <2>3, <2>9 DEF Unrepeated, StepKind
<1>15. ASSUME Handle PROVE Goal
  <2>1. /\ mailbox # <<>> /\ handled' = Append(handled, Head(mailbox)) /\ mailbox' = Tail(mailbox)
        /\ UNCHANGED <<sent, queue, wmsg, wire, hmsg, task, bridge, bmsg, lost, via>>
    BY <1>15 DEF Handle, sender, writer, network, node
  <2>2. /\ Channel(mailbox') /\ ToSet(mailbox') = ToSet(mailbox) \ {Head(mailbox)}
        /\ Head(mailbox) \in Msg /\ Head(mailbox) \in ToSet(mailbox) /\ InFlight' = InFlight
    BY <1>0, <2>1, ChannelPop DEF InFlight
  <2>3. Head(mailbox) \notin ToSet(handled)
    BY <2>2, NotThere, AtFacts, PlaceFacts
  <2>4. Channel(handled') /\ ToSet(handled') = ToSet(handled) \cup {Head(mailbox)}
    BY <1>0, <2>1, <2>2, <2>3, ChannelPush
  <2>5. \A p \in Place \ {InMailbox, IsHandled} : At(p)' = At(p)
    BY <2>1, <2>2, PlaceCases, AtFacts, AtFactsNext
  <2>6. Hops(Head(mailbox), InMailbox, IsHandled) /\ Head(mailbox) \in Msg
    <3>1. InMailbox \in Place /\ IsHandled \in Place /\ InMailbox # IsHandled
      BY PlaceFacts
    <3>2. /\ {Head(mailbox)} \subseteq Msg /\ {Head(mailbox)} \subseteq At(InMailbox)
          /\ At(InMailbox)' = At(InMailbox) \ {Head(mailbox)} /\ At(IsHandled)' = At(IsHandled) \cup {Head(mailbox)}
      BY <1>0, <2>1, <2>2, <2>4, <2>5, AtFacts, AtFactsNext
    <3> QED BY <1>0, <2>1, <2>2, <2>4, <2>5, <3>1, <3>2 DEF Hops
  <2> QED BY <1>0, <2>1, <2>2, <2>4, <2>6 DEF Unrepeated, StepKind, Forwards
<1>16. ASSUME ActorExit PROVE Goal
  <2>1. /\ mailbox' = <<>> /\ lost' = lost \cup ToSet(mailbox)
        /\ UNCHANGED <<sent, queue, wmsg, wire, hmsg, task, bridge, bmsg, handled, via>>
    BY <1>16 DEF ActorExit, sender, writer, network, node
  <2>2. InFlight' = InFlight /\ ToSet(mailbox) \subseteq Msg /\ ToSet(mailbox') = {} /\ Channel(mailbox')
    BY <1>0, <2>1, ChannelEmpty DEF InFlight, Channel, ToSet
  <2>3. \A p \in Place \ {InMailbox, IsLost} : At(p)' = At(p)
    BY <2>1, <2>2, PlaceCases, AtFacts, AtFactsNext
  <2>4. Loses(ToSet(mailbox)) /\ ToSet(mailbox) \in SUBSET Msg
    <3>1. InMailbox \in Place /\ IsLost \in Place /\ InMailbox # IsLost
      BY PlaceFacts
    <3>2. /\ ToSet(mailbox) \subseteq Msg /\ ToSet(mailbox) \subseteq At(InMailbox)
          /\ At(InMailbox)' = At(InMailbox) \ ToSet(mailbox) /\ At(IsLost)' = At(IsLost) \cup ToSet(mailbox)
      BY <1>0, <2>1, <2>2, <2>3, AtFacts, AtFactsNext
    <3> QED BY <1>0, <2>1, <2>2, <2>3, <3>1, <3>2, LostFrom
  <2> QED BY <1>0, <2>1, <2>2, <2>4 DEF Unrepeated, StepKind, Forwards
<1> QED
  BY <1>2, <1>3, <1>4, <1>5, <1>6, <1>7, <1>8, <1>9, <1>10, <1>11, <1>12, <1>13, <1>14, <1>15, <1>16
     DEF Next, WriteLoop, HandleConn, DispatchTask, Bridge

\* Every step moves a message from one place to one place.
LEMMA PlacedStep == TypeOK /\ Shape /\ Placed /\ [Next]_vars => Placed'
<1> SUFFICES ASSUME TypeOK, Shape, Placed, [Next]_vars PROVE \A m \in Msg : Single(m)'
  BY Steps DEF Placed
<1>0. \A m \in Msg : Single(m)
  BY DEF Placed
<1>1. ASSUME Accepts PROVE \A m \in Msg : Single(m)'
  <2> SUFFICES ASSUME NEW m \in Msg PROVE Single(m)'
    OBVIOUS
  <2>1. CASE m = sent + 1
    <3>1. Where(m) = {}
      BY <1>0, <1>1, <2>1 DEF Accepts, Single
    <3>2. Where(m)' = {OnQueue} /\ OnQueue \in Place
      BY <1>1, <2>1, <3>1, PlaceFacts DEF Accepts, Where
    <3> QED BY <1>1, <2>1, <3>2 DEF Accepts, Single
  <2>2. CASE m # sent + 1
    <3>1. Where(m)' = Where(m)
      BY <1>1, <2>2 DEF Accepts, Where
    <3>2. m <= sent' <=> m <= sent
      BY <1>1, <2>2, ConstantFacts DEF Accepts
    <3>3. Single(m)
      BY <1>0
    <3> QED BY <3>1, <3>2, <3>3 DEF Single
  <2> QED BY <2>1, <2>2
<1>2. ASSUME NEW S \in SUBSET Msg, Loses(S) PROVE \A m \in Msg : Single(m)'
  BY <1>0, <1>2, Brought, PlaceFacts DEF Loses
<1>3. ASSUME NEW x \in Msg, NEW s \in Place, NEW t \in Place, s # t, Hops(x, s, t)
      PROVE  \A m \in Msg : Single(m)'
  <2>1. {x} \subseteq Msg /\ {x} \subseteq At(s)
    BY <1>3 DEF Hops
  <2> QED BY <1>0, <1>3, <2>1, Relocated DEF Hops
<1>4. ASSUME NEW x \in Msg, Forwards(x) PROVE \A m \in Msg : Single(m)'
  <2>1. ASSUME NEW c \in Conn
        PROVE  AtWriter # OnWire(c) /\ OnWire(c) # AtReader(c) /\ AtReader(c) # InTask
    BY PlaceFacts
  <2>2. /\ OnQueue # AtWriter /\ InTask # OnBridge /\ OnBridge # Passing /\ Passing # InMailbox
        /\ InMailbox # IsHandled
    BY PlaceFacts
  <2> QED BY <1>3, <1>4, <2>1, <2>2, PlaceFacts DEF Forwards
<1> QED BY <1>1, <1>2, <1>4, Steps DEF StepKind

LEMMA AtType == TypeOK => \A p \in Place : At(p) \subseteq Msg
<1> SUFFICES ASSUME TypeOK, NEW p \in Place PROVE At(p) \subseteq Msg
  OBVIOUS
<1>1. \A q \in Seq(Msg) : ToSet(q) \subseteq Msg
  BY DEF ToSet
<1>2. \A x \in Msg \cup {NONE} : Held(x) \subseteq Msg
  BY DEF Held
<1>3. /\ ToSet(queue) \subseteq Msg /\ ToSet(bridge) \subseteq Msg /\ ToSet(mailbox) \subseteq Msg
      /\ ToSet(handled) \subseteq Msg /\ \A c \in Conn : ToSet(wire[c]) \subseteq Msg
  BY <1>1 DEF TypeOK
<1>4. Held(wmsg) \subseteq Msg /\ Held(bmsg) \subseteq Msg /\ \A c \in Conn : Held(hmsg[c]) \subseteq Msg
  BY <1>2 DEF TypeOK
<1>5. InFlight \subseteq Msg /\ lost \subseteq Msg
  BY DEF InFlight, TypeOK
<1> QED BY <1>3, <1>4, <1>5, PlaceCases, AtFacts

-----------------------------------------------------------------------------
(* The connection a message goes over                                      *)

\* A message has no connection until it is written, and what a connection
\* carries was written to it.
Routed ==
    /\ \A m \in Msg : m > sent => via[m] = NONE
    /\ \A m \in At(OnQueue) \cup At(AtWriter) : via[m] = NONE
    /\ \A c \in Conn : \A m \in At(OnWire(c)) \cup At(AtReader(c)) : via[m] = c

LEMMA RoutedInit == Init => Routed
<1> SUFFICES ASSUME Init PROVE Routed
  OBVIOUS
<1>1. \A m \in Msg : via[m] = NONE
  BY DEF Init
<1>2. ASSUME NEW p \in Place PROVE At(p) = {}
  BY PlaceCases, AtFacts, ChannelEmpty DEF Init, Held, InFlight
<1> QED BY <1>1, <1>2, PlaceFacts DEF Routed

\* Messages on a wire or with its reader were sent over that connection, those
\* before the write over none.
LEMMA RoutedStep == TypeOK /\ Shape /\ Placed /\ Routed /\ [Next]_vars => Routed'
<1> SUFFICES ASSUME TypeOK, Shape, Placed, Routed, [Next]_vars PROVE Routed'
  OBVIOUS
<1> USE PlaceFacts
<1>0. \A p \in Place : At(p) \subseteq Msg
  BY AtType
<1>1. ASSUME Accepts PROVE Routed'
  <2>1. \A m \in Msg : m > sent' => m > sent
    BY <1>1, ConstantFacts DEF Accepts
  <2>2. via[sent + 1] = NONE
    BY <1>1 DEF Accepts, Routed
  <2>3. \A p \in Place : p # OnQueue => At(p)' = At(p)
    BY <1>1 DEF Accepts
  <2>4. via' = via /\ At(OnQueue)' = At(OnQueue) \cup {sent + 1}
    BY <1>1 DEF Accepts
  <2> QED BY <2>1, <2>2, <2>3, <2>4 DEF Routed
<1>2. ASSUME NEW S \in SUBSET Msg, Loses(S) PROVE Routed'
  <2>1. /\ \A p \in Place \ {IsLost} : At(p)' = At(p) \ S
        /\ sent' = sent /\ \A m \in Msg \ S : via'[m] = via[m]
    BY <1>2 DEF Loses
  <2>2. \A m \in Msg : m > sent => m \notin S
    <3>1. ASSUME NEW m \in Msg, m > sent, m \in S PROVE FALSE
      <4>1. Single(m) /\ Where(m) # {} /\ ~(m <= sent)
        BY <1>2, <3>1, ConstantFacts DEF Placed, Loses, TypeOK
      <4> QED BY <4>1 DEF Single
    <3> QED BY <3>1
  <2> QED BY <1>0, <2>1, <2>2 DEF Routed
<1>3. ASSUME NEW x \in Msg, NEW s \in Place, NEW t \in Place, s # t, Hops(x, s, t),
             \A m \in Msg \ {x} : via'[m] = via[m],
             t \in {OnQueue, AtWriter} => via'[x] = NONE,
             \A c \in Conn : t \in {OnWire(c), AtReader(c)} => via'[x] = c
      PROVE  Routed'
  <2>1. \A p \in Place : p # t => At(p)' \subseteq At(p) /\ x \notin At(p)'
    BY <1>3, NotThere DEF Hops
  <2>2. At(t)' = At(t) \cup {x} /\ sent' = sent
    BY <1>3 DEF Hops
  <2>3. \A m \in Msg : m > sent => m # x
    <3>1. ASSUME x > sent PROVE FALSE
      <4>1. Single(x) /\ Where(x) # {} /\ ~(x <= sent)
        BY <1>3, <3>1, ConstantFacts DEF Placed, Hops, TypeOK, Where
      <4> QED BY <4>1 DEF Single
    <3> QED BY <3>1
  <2>4. \A m \in At(OnQueue)' \cup At(AtWriter)' : via'[m] = NONE
    BY <1>0, <1>3, <2>1, <2>2 DEF Routed
  <2>5. ASSUME NEW c \in Conn, NEW m \in At(OnWire(c))' \cup At(AtReader(c))' PROVE via'[m] = c
    BY <1>0, <1>3, <2>1, <2>2 DEF Routed
  <2> QED BY <1>3, <2>2, <2>3, <2>4, <2>5 DEF Routed
<1>4. ASSUME NEW x \in Msg, Forwards(x) PROVE Routed'
  <2>1. ASSUME NEW c \in Conn, Hops(x, AtWriter, OnWire(c)), via' = [via EXCEPT ![x] = c] PROVE Routed'
    <3>1. via'[x] = c /\ \A m \in Msg \ {x} : via'[m] = via[m]
      BY <2>1 DEF TypeOK
    <3> QED BY <1>3, <2>1, <3>1
  <2>2. ASSUME Hops(x, OnQueue, AtWriter), via' = via PROVE Routed'
    <3>1. via[x] = NONE
      BY <2>2 DEF Hops, Routed
    <3> QED BY <1>3, <2>2, <3>1
  <2>3. ASSUME NEW c \in Conn, Hops(x, OnWire(c), AtReader(c)), via' = via PROVE Routed'
    <3>1. via[x] = c
      BY <2>3 DEF Hops, Routed
    <3> QED BY <1>3, <2>3, <3>1
  <2>4. ASSUME NEW s \in Place, NEW t \in {InTask, OnBridge, Passing, InMailbox, IsHandled}, s # t,
               Hops(x, s, t), via' = via
        PROVE  Routed'
    BY <1>3, <2>4
  <2> QED BY <1>4, <2>1, <2>2, <2>3, <2>4 DEF Forwards
<1> QED BY <1>1, <1>2, <1>4, Steps DEF StepKind

-----------------------------------------------------------------------------
(* The order of a connection                                               *)

\* The way of a message, from the actor back to the queue of the ref.
Level(p) ==
    CASE p[1] = "handled" -> 1
      [] p[1] = "mailbox" -> 2
      [] p[1] = "passing" -> 3
      [] p[1] = "bridge"  -> 4
      [] p[1] = "task"    -> 5
      [] p[1] = "read"    -> 6
      [] p[1] = "wire"    -> 7
      [] p[1] = "writer"  -> 8
      [] p[1] = "queue"   -> 9

\* Two messages go over one connection, or the second is still to be written.
Related(v, x, y) == v[x] = v[y] \/ v[y] = NONE

Ahead ==
    \A p, q \in Place \ {IsLost} : Level(p) < Level(q) =>
        \A x \in At(p), y \in At(q) : Related(via, x, y) => x < y

Sorted(s, v) == \A i, j \in DOMAIN s : i < j /\ Related(v, s[i], s[j]) => s[i] < s[j]

InOrder ==
    limit = 1 =>
        /\ Ahead
        /\ \A x, y \in InFlight : x = y
        /\ Sorted(queue, via) /\ Sorted(bridge, via) /\ Sorted(mailbox, via) /\ Sorted(handled, via)
        /\ \A c \in Conn : Sorted(wire[c], via)

LEMMA LevelFacts ==
    /\ Level(IsHandled) = 1 /\ Level(InMailbox) = 2 /\ Level(Passing) = 3 /\ Level(OnBridge) = 4
    /\ Level(InTask) = 5 /\ Level(AtWriter) = 8 /\ Level(OnQueue) = 9
    /\ \A c \in Conn : Level(AtReader(c)) = 6 /\ Level(OnWire(c)) = 7
    /\ \A p \in Place \ {IsLost} : Level(p) \in 1 .. 9
<1>1. /\ Level(IsHandled) = 1 /\ Level(InMailbox) = 2 /\ Level(Passing) = 3 /\ Level(OnBridge) = 4
      /\ Level(InTask) = 5 /\ Level(AtWriter) = 8 /\ Level(OnQueue) = 9
      /\ \A c \in Conn : Level(AtReader(c)) = 6 /\ Level(OnWire(c)) = 7
  BY PlaceFacts DEF Level
<1>2. \A p \in Place \ {IsLost} : Level(p) \in 1 .. 9
  BY <1>1, PlaceCases
<1> QED BY <1>1, <1>2

LEMMA SortedEmpty == \A v : Sorted(<<>>, v)
BY DEF Sorted

LEMMA SortedSame ==
    ASSUME NEW s, NEW v, NEW w, Sorted(s, v), \A m \in ToSet(s) : w[m] = v[m]
    PROVE  Sorted(s, w)
BY DEF Sorted, ToSet, Related

\* Pushing a message younger than all in a channel keeps it in order.
LEMMA SortedPush ==
    ASSUME NEW s \in Seq(Msg), NEW x \in Msg, NEW v, Sorted(s, v),
           \A y \in ToSet(s) : Related(v, y, x) => y < x
    PROVE  Sorted(Append(s, x), v)
<1>1. /\ Len(s) \in Nat /\ DOMAIN s = 1 .. Len(s) /\ DOMAIN Append(s, x) = 1 .. Len(s) + 1
      /\ \A k \in DOMAIN s : Append(s, x)[k] = s[k]
      /\ Append(s, x)[Len(s) + 1] = x
  BY Push
<1>2. \A k \in DOMAIN s : s[k] \in ToSet(s)
  BY DEF ToSet
<1>3. ASSUME NEW i \in DOMAIN Append(s, x), NEW j \in DOMAIN Append(s, x), i < j,
             Related(v, Append(s, x)[i], Append(s, x)[j])
      PROVE  Append(s, x)[i] < Append(s, x)[j]
  <2>1. i \in DOMAIN s /\ Append(s, x)[i] = s[i]
    BY <1>1, <1>3
  <2>2. CASE j = Len(s) + 1
    BY <1>1, <1>2, <1>3, <2>1, <2>2
  <2>3. CASE j # Len(s) + 1
    <3>1. j \in DOMAIN s /\ Append(s, x)[j] = s[j]
      BY <1>1, <2>3
    <3> QED BY <1>3, <2>1, <3>1 DEF Sorted
  <2> QED BY <2>2, <2>3
<1> QED BY <1>3 DEF Sorted

\* Popping the oldest keeps the rest in order.
LEMMA SortedPop ==
    ASSUME NEW s \in Seq(Msg), s # <<>>, NEW v, Sorted(s, v)
    PROVE  /\ Sorted(Tail(s), v)
           /\ \A y \in ToSet(s) \ {Head(s)} : Related(v, Head(s), y) => Head(s) < y
<1>1. /\ Head(s) = s[1] /\ 1 \in DOMAIN s /\ Len(s) \in Nat /\ DOMAIN s = 1 .. Len(s)
      /\ DOMAIN Tail(s) = 1 .. Len(s) - 1
      /\ \A k \in DOMAIN Tail(s) : k + 1 \in DOMAIN s /\ k + 1 # 1 /\ Tail(s)[k] = s[k + 1]
  BY Pop
<1>2. ASSUME NEW i \in DOMAIN Tail(s), NEW j \in DOMAIN Tail(s), i < j, Related(v, Tail(s)[i], Tail(s)[j])
      PROVE  Tail(s)[i] < Tail(s)[j]
  <2>1. i + 1 < j + 1
    BY <1>1, <1>2
  <2> QED BY <1>1, <1>2, <2>1 DEF Sorted
<1>3. ASSUME NEW y \in ToSet(s) \ {Head(s)}, Related(v, Head(s), y) PROVE Head(s) < y
  <2>1. PICK k \in DOMAIN s : y = s[k]
    BY <1>3 DEF ToSet
  <2>2. 1 < k
    BY <1>1, <1>3, <2>1
  <2> QED BY <1>1, <1>3, <2>1, <2>2 DEF Sorted
<1> QED BY <1>2, <1>3 DEF Sorted

\* With one permit a dispatch task is alone.
LEMMA Alone == TypeOK /\ limit = 1 /\ PermitFree => InFlight = {}
<1> SUFFICES ASSUME TypeOK, limit = 1, PermitFree PROVE InFlight = {}
  OBVIOUS
<1>1. IsFiniteSet(Msg)
  BY FS_Interval, ConstantFacts DEF Msg
<1>2. IsFiniteSet(InFlight)
  BY <1>1, FS_Subset DEF InFlight
<1>3. Cardinality(InFlight) \in Nat /\ Cardinality(InFlight) < 1
  BY <1>2, FS_CardinalityType DEF PermitFree
<1>4. Cardinality(InFlight) = 0
  BY <1>3
<1> QED BY <1>2, <1>4, FS_EmptySet

\* A message that goes to the next place, ahead of all that stay behind it.
LEMMA HopsAhead ==
    ASSUME TypeOK, Placed, Ahead, NEW x \in Msg, NEW s \in Place \ {IsLost}, NEW t \in Place \ {IsLost},
           Hops(x, s, t), Level(s) = Level(t) + 1,
           \A m \in Msg \ {x} : via'[m] = via[m], via'[x] = via[x] \/ via[x] = NONE,
           \A q \in Place \ {IsLost} : Level(q) >= Level(s) =>
               \A y \in At(q) \ {x} : Related(via', x, y) => x < y
    PROVE  Ahead'
<1> USE LevelFacts
<1>1. \A p \in Place : At(p) \subseteq Msg
  BY AtType
<1>2. s # t
  OBVIOUS
<1>3. \A p \in Place : p # t => At(p)' \subseteq At(p) /\ x \notin At(p)'
  BY <1>2, NotThere DEF Hops
<1>4. At(t)' = At(t) \cup {x} /\ x \in At(s)
  BY DEF Hops
<1>5. ASSUME NEW p \in Place \ {IsLost}, NEW q \in Place \ {IsLost}, Level(p) < Level(q),
             NEW u \in At(p)', NEW v \in At(q)', Related(via', u, v)
      PROVE  u < v
  <2>1. CASE u = x
    <3>1. p = t /\ q # t
      BY <1>3, <1>5, <2>1
    <3>2. v \in At(q) /\ v # x
      BY <1>3, <1>5, <3>1
    <3>3. Level(q) >= Level(s)
      BY <1>5, <3>1
    <3> QED BY <1>5, <2>1, <3>2, <3>3
  <2>2. CASE u # x /\ v = x
    <3>1. q = t /\ p # t
      BY <1>3, <1>5, <2>2
    <3>2. u \in At(p) /\ u \in Msg /\ via'[u] = via[u]
      BY <1>1, <1>3, <1>5, <2>2, <3>1
    <3>3. Level(p) < Level(s)
      BY <1>5, <3>1
    <3>4. Related(via, u, x)
      BY <1>5, <2>2, <3>2 DEF Related
    <3> QED BY <1>4, <1>5, <2>2, <3>2, <3>3, <3>4 DEF Ahead
  <2>3. CASE u # x /\ v # x
    <3>1. u \in At(p) /\ v \in At(q)
      BY <1>3, <1>4, <1>5, <2>3
    <3>2. Related(via, u, v)
      BY <1>1, <1>5, <2>3, <3>1 DEF Related
    <3> QED BY <1>5, <3>1, <3>2 DEF Ahead
  <2> QED BY <2>1, <2>2, <2>3
<1> QED BY <1>5 DEF Ahead

\* Without a write, it is enough to be ahead of what shares the place.
LEMMA HopsFirst ==
    ASSUME TypeOK, Placed, Ahead, NEW x \in Msg, NEW s \in Place \ {IsLost}, NEW t \in Place \ {IsLost},
           Hops(x, s, t), Level(s) = Level(t) + 1, via' = via,
           \A q \in Place \ {IsLost} : Level(q) = Level(s) =>
               \A y \in At(q) \ {x} : Related(via, x, y) => x < y
    PROVE  Ahead'
<1>1. ASSUME NEW q \in Place \ {IsLost}, Level(q) >= Level(s), NEW y \in At(q) \ {x}, Related(via, x, y)
      PROVE  x < y
  <2>1. CASE Level(q) = Level(s)
    BY <1>1, <2>1
  <2>2. CASE Level(q) > Level(s)
    <3>1. x \in At(s) /\ Level(s) < Level(q)
      BY <2>2, LevelFacts DEF Hops
    <3> QED BY <1>1, <3>1 DEF Ahead
  <2> QED BY <1>1, <2>1, <2>2, LevelFacts
<1> QED BY <1>1, HopsAhead

\* A message further down the path is older, step by step.
LEMMA AheadStep ==
    ASSUME TypeOK, Shape, Placed, Routed, InOrder, limit = 1, [Next]_vars
    PROVE  Ahead'
<1>0. \A p \in Place : At(p) \subseteq Msg
  BY AtType
<1>a. /\ Ahead /\ (\A x, y \in InFlight : x = y)
      /\ Sorted(queue, via) /\ Sorted(bridge, via) /\ Sorted(mailbox, via) /\ Sorted(handled, via)
      /\ \A c \in Conn : Sorted(wire[c], via)
  BY DEF InOrder
<1>b. /\ queue \in Seq(Msg) /\ bridge \in Seq(Msg) /\ mailbox \in Seq(Msg)
      /\ \A c \in Conn : wire[c] \in Seq(Msg)
  BY DEF TypeOK
<1>c. /\ OnQueue # IsLost /\ AtWriter # IsLost /\ InTask # IsLost /\ OnBridge # IsLost
      /\ Passing # IsLost /\ InMailbox # IsLost /\ IsHandled # IsLost
      /\ \A c \in Conn : OnWire(c) # IsLost /\ AtReader(c) # IsLost
  BY PlaceFacts
<1>d. \A x : \A y \in Held(x) : y = x
  BY DEF Held
<1>1. ASSUME Accepts PROVE Ahead'
  <2>1. ASSUME NEW p \in Place, NEW x \in At(p) PROVE x < sent + 1
    <3>1. Single(x) /\ Where(x) # {} /\ x \in Msg
      BY <1>0 DEF Placed, Where
    <3>2. x <= sent
      BY <3>1 DEF Single
    <3> QED BY <1>1, <3>1, <3>2, ConstantFacts DEF Accepts
  <2>2. ASSUME NEW p \in Place \ {IsLost}, NEW q \in Place \ {IsLost}, Level(p) < Level(q),
               NEW x \in At(p)', NEW y \in At(q)', Related(via', x, y)
        PROVE  x < y
    <3>1. p # OnQueue /\ x \in At(p) /\ via' = via
      BY <1>1, <2>2, LevelFacts DEF Accepts
    <3>2. CASE y = sent + 1
      BY <2>1, <3>1, <3>2
    <3>3. CASE y # sent + 1
      <4>1. y \in At(q)
        BY <1>1, <2>2, <3>3 DEF Accepts
      <4> QED BY <1>a, <2>2, <3>1, <4>1 DEF Ahead
    <3> QED BY <3>2, <3>3
  <2> QED BY <2>2 DEF Ahead
<1>2. ASSUME NEW S \in SUBSET Msg, Loses(S) PROVE Ahead'
  <2>1. ASSUME NEW p \in Place \ {IsLost}, NEW q \in Place \ {IsLost}, Level(p) < Level(q),
               NEW x \in At(p)', NEW y \in At(q)', Related(via', x, y)
        PROVE  x < y
    <3>1. x \in At(p) /\ y \in At(q) /\ via'[x] = via[x] /\ via'[y] = via[y]
      BY <1>0, <1>2, <2>1 DEF Loses
    <3> QED BY <1>a, <2>1, <3>1 DEF Ahead, Related
  <2> QED BY <2>1 DEF Ahead
<1>3. ASSUME NEW x \in Msg, NEW c \in Conn, Hops(x, AtWriter, OnWire(c)), via' = [via EXCEPT ![x] = c]
      PROVE  Ahead'
  <2>1. /\ via'[x] = c /\ (\A m \in Msg \ {x} : via'[m] = via[m]) /\ via[x] = NONE /\ x \in At(AtWriter)
    BY <1>3 DEF TypeOK, Routed, Hops
  <2>2. ASSUME NEW q \in Place \ {IsLost}, Level(q) >= Level(AtWriter), NEW y \in At(q) \ {x} PROVE x < y
    <3>1. q = AtWriter \/ q = OnQueue
      BY <2>2, PlaceCases, LevelFacts
    <3>2. q # AtWriter
      BY <1>d, <2>1, <2>2, AtFacts
    <3>3. via[y] = NONE
      BY <2>2, <3>1, <3>2 DEF Routed
    <3> QED BY <1>a, <1>c, <2>1, <2>2, <3>1, <3>2, <3>3, PlaceFacts, LevelFacts DEF Ahead, Related
  <2>3. Level(AtWriter) = Level(OnWire(c)) + 1
    BY LevelFacts
  <2> QED BY <1>3, <1>a, <1>c, <2>1, <2>2, <2>3, HopsAhead, PlaceFacts
<1>4. ASSUME NEW x \in Msg, queue # <<>>, x = Head(queue), Hops(x, OnQueue, AtWriter), via' = via PROVE Ahead'
  <2>1. \A q \in Place \ {IsLost} : Level(q) = Level(OnQueue) => q = OnQueue
    BY PlaceCases, LevelFacts
  <2>2. \A y \in At(OnQueue) \ {x} : Related(via, x, y) => x < y
    BY <1>4, <1>a, <1>b, SortedPop, AtFacts
  <2>3. Level(OnQueue) = Level(AtWriter) + 1
    BY LevelFacts
  <2> QED BY <1>4, <1>a, <1>c, <2>1, <2>2, <2>3, HopsFirst, PlaceFacts
<1>5. ASSUME NEW x \in Msg, NEW c \in Conn, wire[c] # <<>>, x = Head(wire[c]),
             Hops(x, OnWire(c), AtReader(c)), via' = via
      PROVE  Ahead'
  <2>1. ASSUME NEW q \in Place \ {IsLost}, Level(q) = Level(OnWire(c)), NEW y \in At(q) \ {x},
               Related(via, x, y)
        PROVE  x < y
    <3>1. PICK d \in Conn : q = OnWire(d)
      BY <2>1, PlaceCases, LevelFacts
    <3>2. via[x] = c /\ via[y] = d /\ d # NONE
      BY <1>5, <2>1, <3>1, ConstantFacts DEF Routed, Hops
    <3>3. d = c
      BY <2>1, <3>2 DEF Related
    <3>4. \A z \in At(OnWire(c)) \ {x} : Related(via, x, z) => x < z
      BY <1>5, <1>a, <1>b, SortedPop, AtFacts
    <3> QED BY <2>1, <3>1, <3>3, <3>4
  <2>2. Level(OnWire(c)) = Level(AtReader(c)) + 1
    BY LevelFacts
  <2> QED BY <1>5, <1>a, <1>c, <2>1, <2>2, HopsFirst, PlaceFacts
<1>6. ASSUME NEW x \in Msg, NEW c \in Conn, Hops(x, AtReader(c), InTask), via' = via PROVE Ahead'
  <2>1. ASSUME NEW q \in Place \ {IsLost}, Level(q) = Level(AtReader(c)), NEW y \in At(q) \ {x},
               Related(via, x, y)
        PROVE  x < y
    <3>1. PICK d \in Conn : q = AtReader(d)
      BY <2>1, PlaceCases, LevelFacts
    <3>2. via[x] = c /\ via[y] = d /\ d # NONE
      BY <1>6, <2>1, <3>1, ConstantFacts DEF Routed, Hops
    <3>3. d = c
      BY <2>1, <3>2 DEF Related
    <3>4. x = hmsg[c] /\ y = hmsg[c]
      BY <1>6, <1>d, <2>1, <3>1, <3>3, AtFacts DEF Hops
    <3> QED BY <2>1, <3>4
  <2>2. Level(AtReader(c)) = Level(InTask) + 1
    BY LevelFacts
  <2> QED BY <1>6, <1>a, <1>c, <2>1, <2>2, HopsFirst, PlaceFacts
<1>7. ASSUME NEW x \in Msg, Hops(x, InTask, OnBridge), via' = via PROVE Ahead'
  <2>1. \A q \in Place \ {IsLost} : Level(q) = Level(InTask) => q = InTask
    BY PlaceCases, LevelFacts
  <2>2. \A y \in At(InTask) : y = x
    BY <1>7, <1>a, AtFacts DEF Hops
  <2>3. Level(InTask) = Level(OnBridge) + 1
    BY LevelFacts
  <2> QED BY <1>7, <1>a, <1>c, <2>1, <2>2, <2>3, HopsFirst, PlaceFacts
<1>8. ASSUME NEW x \in Msg, bridge # <<>>, x = Head(bridge), Hops(x, OnBridge, Passing), via' = via PROVE Ahead'
  <2>1. \A q \in Place \ {IsLost} : Level(q) = Level(OnBridge) => q = OnBridge
    BY PlaceCases, LevelFacts
  <2>2. \A y \in At(OnBridge) \ {x} : Related(via, x, y) => x < y
    BY <1>8, <1>a, <1>b, SortedPop, AtFacts
  <2>3. Level(OnBridge) = Level(Passing) + 1
    BY LevelFacts
  <2> QED BY <1>8, <1>a, <1>c, <2>1, <2>2, <2>3, HopsFirst, PlaceFacts
<1>9. ASSUME NEW x \in Msg, Hops(x, Passing, InMailbox), via' = via PROVE Ahead'
  <2>1. \A q \in Place \ {IsLost} : Level(q) = Level(Passing) => q = Passing
    BY PlaceCases, LevelFacts
  <2>2. \A y \in At(Passing) : y = x
    BY <1>9, <1>d, AtFacts DEF Hops
  <2>3. Level(Passing) = Level(InMailbox) + 1
    BY LevelFacts
  <2> QED BY <1>9, <1>a, <1>c, <2>1, <2>2, <2>3, HopsFirst, PlaceFacts
<1>10. ASSUME NEW x \in Msg, mailbox # <<>>, x = Head(mailbox), Hops(x, InMailbox, IsHandled), via' = via
       PROVE  Ahead'
  <2>1. \A q \in Place \ {IsLost} : Level(q) = Level(InMailbox) => q = InMailbox
    BY PlaceCases, LevelFacts
  <2>2. \A y \in At(InMailbox) \ {x} : Related(via, x, y) => x < y
    BY <1>10, <1>a, <1>b, SortedPop, AtFacts
  <2>3. Level(InMailbox) = Level(IsHandled) + 1
    BY LevelFacts
  <2> QED BY <1>10, <1>a, <1>c, <2>1, <2>2, <2>3, HopsFirst, PlaceFacts
<1>11. ASSUME NEW x \in Msg, Forwards(x) PROVE Ahead'
  BY <1>3, <1>4, <1>5, <1>6, <1>7, <1>8, <1>9, <1>10, <1>11 DEF Forwards
<1> QED BY <1>1, <1>2, <1>11, Steps DEF StepKind

\* Within each channel, and in the one task.
LEMMA SortedStep ==
    ASSUME TypeOK, Shape, Placed, Routed, InOrder, limit = 1, [Next]_vars
    PROVE  /\ \A x, y \in InFlight' : x = y
           /\ Sorted(queue', via') /\ Sorted(bridge', via') /\ Sorted(mailbox', via') /\ Sorted(handled', via')
           /\ \A c \in Conn : Sorted(wire'[c], via')
<1> DEFINE Goal == /\ \A x, y \in InFlight' : x = y
                   /\ Sorted(queue', via') /\ Sorted(bridge', via') /\ Sorted(mailbox', via')
                   /\ Sorted(handled', via') /\ \A c \in Conn : Sorted(wire'[c], via')
<1>0. \A p \in Place : At(p) \subseteq Msg
  BY AtType
<1>a. /\ Ahead /\ (\A x, y \in InFlight : x = y)
      /\ Sorted(queue, via) /\ Sorted(bridge, via) /\ Sorted(mailbox, via) /\ Sorted(handled, via)
      /\ \A c \in Conn : Sorted(wire[c], via)
  BY DEF InOrder
<1>b. /\ queue \in Seq(Msg) /\ bridge \in Seq(Msg) /\ mailbox \in Seq(Msg) /\ handled \in Seq(Msg)
      /\ \A c \in Conn : wire[c] \in Seq(Msg)
  BY DEF TypeOK
<1>c. /\ OnQueue \in Place \ {IsLost} /\ AtWriter \in Place \ {IsLost} /\ InTask \in Place \ {IsLost}
      /\ OnBridge \in Place \ {IsLost} /\ Passing \in Place \ {IsLost}
      /\ InMailbox \in Place \ {IsLost} /\ IsHandled \in Place \ {IsLost}
      /\ \A c \in Conn : OnWire(c) \in Place \ {IsLost} /\ AtReader(c) \in Place \ {IsLost}
  BY PlaceFacts
<1>d. \A x \in Msg : x \in Held(x)
  BY ConstantFacts DEF Held
<1>1. ASSUME NEW k \in {"ok"} \cup Bad, Send(k) PROVE Goal
  <2>1. /\ sent + 1 \in Msg /\ sent \in Nat /\ queue' = Append(queue, sent + 1)
        /\ UNCHANGED <<via, bridge, mailbox, handled, wire, task>>
    BY <1>1, ConstantFacts DEF Send, TypeOK, Msg, network, node, served
  <2>2. ASSUME NEW y \in ToSet(queue) PROVE y < sent + 1
    <3>1. Single(y) /\ Where(y) # {} /\ y \in Msg
      BY <1>0, <1>c, AtFacts DEF Placed, Where
    <3>2. y <= sent
      BY <3>1 DEF Single
    <3> QED BY <2>1, <3>1, <3>2, ConstantFacts
  <2>3. Sorted(queue', via)
    BY <1>a, <1>b, <2>1, <2>2, SortedPush
  <2> QED BY <1>a, <2>1, <2>3 DEF InFlight
<1>3. ASSUME DropRefs \/ Connect \/ ConnectErr \/ RecvNone \/ Register \/ Unregister \/ Retry \/ Recv
             \/ UNCHANGED vars
      PROVE  Goal
  <2>1. UNCHANGED <<via, bridge, mailbox, handled, wire, task>>
    BY <1>3 DEF DropRefs, Connect, ConnectErr, RecvNone, Register, Unregister, Retry, Recv, vars,
                sender, writer, network, node, served
  <2>2. queue' = queue \/ queue' = <<>> \/ (queue # <<>> /\ queue' = Tail(queue))
    BY <1>3 DEF DropRefs, Connect, ConnectErr, RecvNone, Register, Unregister, Retry, Recv, vars,
                sender, writer, network, node, served
  <2>3. Sorted(queue', via)
    BY <1>a, <1>b, <2>2, SortedPop, SortedEmpty
  <2> QED BY <1>a, <2>1, <2>3 DEF InFlight
<1>4. ASSUME WriteOk \/ WriteErr PROVE Goal
  <2>1. /\ wmsg \in Msg /\ conn \in Conn /\ UNCHANGED <<queue, bridge, mailbox, handled, task>>
        /\ \A m \in Msg \ {wmsg} : via'[m] = via[m]
    BY <1>4, ConstantFacts DEF WriteOk, WriteErr, Written, Shape, TypeOK, node, served
  <2>2. wmsg \in At(AtWriter) /\ via[wmsg] = NONE
    BY <1>d, <2>1, AtFacts DEF Routed
  <2>3. ASSUME NEW p \in Place, p # AtWriter PROVE \A m \in At(p) : via'[m] = via[m]
    BY <1>0, <1>c, <2>1, <2>2, <2>3, NotThere
  <2>4. Sorted(queue, via') /\ Sorted(bridge, via') /\ Sorted(mailbox, via') /\ Sorted(handled, via')
    BY <1>a, <1>c, <2>3, SortedSame, AtFacts, PlaceFacts
  <2>5. \A c \in Conn : Sorted(wire[c], via')
    BY <1>a, <1>c, <2>3, SortedSame, AtFacts, PlaceFacts
  <2>6. \A c \in Conn : Sorted(wire'[c], via')
    <3>1. CASE wire' = [wire EXCEPT ![conn] = Append(@, wmsg)]
      <4>1. ASSUME NEW y \in ToSet(wire[conn]) PROVE y < wmsg
        <5>1. y \in At(OnWire(conn)) /\ Level(OnWire(conn)) < Level(AtWriter)
          BY <2>1, AtFacts, LevelFacts
        <5> QED BY <1>a, <1>c, <2>1, <2>2, <5>1 DEF Ahead, Related
      <4>2. Sorted(Append(wire[conn], wmsg), via')
        BY <1>b, <2>1, <2>5, <4>1, SortedPush
      <4>3. wire'[conn] = Append(wire[conn], wmsg) /\ \A c \in Conn \ {conn} : wire'[c] = wire[c]
        BY <2>1, <3>1 DEF TypeOK
      <4> QED BY <2>5, <4>2, <4>3
    <3>2. CASE UNCHANGED wire
      BY <2>5, <3>2
    <3> QED BY <1>4, <3>1, <3>2 DEF WriteOk, WriteErr
  <2> QED BY <1>a, <2>1, <2>4, <2>6 DEF InFlight
<1>5. ASSUME NEW c \in Conn, ReadFrame(c) \/ ReadErr(c) \/ ReadEof(c) \/ ReadTimeout(c) \/ Break(c)
      PROVE  Goal
  <2>1. UNCHANGED <<queue, via, bridge, mailbox, handled, task>>
    BY <1>5 DEF ReadFrame, ReadErr, ReadEof, ReadTimeout, Hangup, Break, writer, node, served
  <2>2. /\ wire'[c] = <<>> \/ (wire[c] # <<>> /\ wire'[c] = Tail(wire[c]))
        /\ \A d \in Conn \ {c} : wire'[d] = wire[d]
    BY <1>5 DEF ReadFrame, ReadErr, ReadEof, ReadTimeout, Hangup, Break, TypeOK
  <2>3. Sorted(wire'[c], via)
    BY <1>a, <1>b, <2>2, SortedPop, SortedEmpty
  <2> QED BY <1>a, <2>1, <2>2, <2>3 DEF InFlight
<1>6. ASSUME NEW c \in Conn, SpawnDispatch(c) PROVE Goal
  <2>1. /\ UNCHANGED <<queue, via, bridge, mailbox, handled, wire>> /\ PermitFree
        /\ hmsg[c] \in Msg /\ task' = [task EXCEPT ![hmsg[c]] = "lookup"]
    BY <1>6 DEF SpawnDispatch, Shape, TypeOK, writer, network, served
  <2>2. InFlight = {}
    BY <2>1, Alone
  <2>3. InFlight' \subseteq {hmsg[c]}
    BY <2>1, <2>2 DEF InFlight, TypeOK
  <2> QED BY <1>a, <2>1, <2>3
<1>7. ASSUME NEW m \in Msg, Lookup(m) PROVE Goal
  <2>1. UNCHANGED <<queue, via, bridge, mailbox, handled, wire>>
    BY <1>7 DEF Lookup, writer, network, served
  <2>2. InFlight' \subseteq InFlight
    BY <1>7 DEF Lookup, InFlight, TypeOK
  <2> QED BY <1>a, <2>1, <2>2
<1>8. ASSUME NEW m \in Msg, Dispatch(m) PROVE Goal
  <2>1. UNCHANGED <<queue, via, mailbox, handled, wire>> /\ m \in InFlight
    BY <1>8 DEF Dispatch, InFlight, writer, network
  <2>2. InFlight' \subseteq InFlight
    BY <1>8 DEF Dispatch, InFlight, TypeOK
  <2>3. \A y \in ToSet(bridge) : Related(via, y, m) => y < m
    BY <1>a, <1>c, <2>1, AtFacts, LevelFacts DEF Ahead
  <2>4. Sorted(bridge', via)
    <3>1. bridge' = bridge \/ bridge' = Append(bridge, m)
      BY <1>8 DEF Dispatch
    <3> QED BY <1>a, <1>b, <2>3, <3>1, SortedPush
  <2> QED BY <1>a, <2>1, <2>2, <2>4
<1>9. ASSUME BridgeRecv \/ BridgeSendErr \/ BridgeClosed PROVE Goal
  <2>1. UNCHANGED <<queue, via, mailbox, handled, wire, task>>
    BY <1>9 DEF BridgeRecv, BridgeSendErr, BridgeClosed, BridgeEnds, writer, network, node
  <2>2. bridge' = <<>> \/ (bridge # <<>> /\ bridge' = Tail(bridge))
    BY <1>9 DEF BridgeRecv, BridgeSendErr, BridgeClosed, BridgeEnds
  <2>3. Sorted(bridge', via)
    BY <1>a, <1>b, <2>2, SortedPop, SortedEmpty
  <2> QED BY <1>a, <2>1, <2>3 DEF InFlight
<1>10. ASSUME BridgeSend PROVE Goal
  <2>1. /\ UNCHANGED <<queue, via, bridge, handled, wire, task>> /\ mailbox' = Append(mailbox, bmsg)
        /\ bmsg \in Msg
    BY <1>10 DEF BridgeSend, Shape, TypeOK, writer, network, node
  <2>2. \A y \in ToSet(mailbox) : Related(via, y, bmsg) => y < bmsg
    BY <1>a, <1>c, <1>d, <2>1, AtFacts, LevelFacts DEF Ahead
  <2>3. Sorted(mailbox', via)
    BY <1>a, <1>b, <2>1, <2>2, SortedPush
  <2> QED BY <1>a, <2>1, <2>3 DEF InFlight
<1>11. ASSUME Handle PROVE Goal
  <2>1. /\ UNCHANGED <<queue, via, bridge, wire, task>> /\ mailbox # <<>>
        /\ mailbox' = Tail(mailbox) /\ handled' = Append(handled, Head(mailbox))
    BY <1>11 DEF Handle, writer, network, node
  <2>2. Head(mailbox) \in Msg /\ Head(mailbox) \in ToSet(mailbox)
    BY <2>1, ChannelPop DEF Placed, Unrepeated
  <2>3. \A y \in ToSet(handled) : Related(via, y, Head(mailbox)) => y < Head(mailbox)
    BY <1>a, <1>c, <2>2, AtFacts, LevelFacts DEF Ahead
  <2>4. Sorted(handled', via) /\ Sorted(mailbox', via)
    BY <1>a, <1>b, <2>1, <2>2, <2>3, SortedPush, SortedPop
  <2> QED BY <1>a, <2>1, <2>4 DEF InFlight
<1>12. ASSUME ActorExit PROVE Goal
  <2>1. UNCHANGED <<queue, via, bridge, handled, wire, task>> /\ mailbox' = <<>>
    BY <1>12 DEF ActorExit, writer, network, node
  <2> QED BY <1>a, <2>1, SortedEmpty DEF InFlight
<1> QED
  BY <1>1, <1>3, <1>4, <1>5, <1>6, <1>7, <1>8, <1>9, <1>10, <1>11, <1>12
     DEF Next, WriteLoop, HandleConn, DispatchTask, Bridge

LEMMA InOrderInit == Init => InOrder
<1> SUFFICES ASSUME Init PROVE InOrder
  OBVIOUS
<1>1. ASSUME NEW p \in Place PROVE At(p) = {}
  BY PlaceCases, AtFacts, ChannelEmpty DEF Init, Held, InFlight
<1>2. Ahead
  BY <1>1 DEF Ahead
<1>3. InFlight = {}
  BY DEF Init, InFlight
<1> QED BY <1>2, <1>3, SortedEmpty DEF Init, InOrder

\* With one permit no step lets a message pass an earlier one of its
\* connection.
LEMMA InOrderStep == TypeOK /\ Shape /\ Placed /\ Routed /\ InOrder /\ [Next]_vars => InOrder'
<1> SUFFICES ASSUME TypeOK, Shape, Placed, Routed, InOrder, [Next]_vars, limit' = 1 PROVE InOrder'
  BY DEF InOrder
<1>1. limit' = limit
  BY DEF Next, WriteLoop, HandleConn, DispatchTask, Bridge, Send, DropRefs, Connect, ConnectErr, Retry,
         Recv, RecvNone, WriteOk, WriteErr, Written, ReadFrame, ReadErr, ReadEof, ReadTimeout, Hangup,
         Break, SpawnDispatch, Lookup, Dispatch, Register, Unregister, BridgeRecv, BridgeSend,
         BridgeSendErr, BridgeClosed, BridgeEnds, Handle, ActorExit, vars, node
<1> QED BY <1>1, AheadStep, SortedStep DEF InOrder

-----------------------------------------------------------------------------
(* Theorems                                                                *)

IInv == TypeOK /\ Shape /\ Placed /\ Routed /\ InOrder

LEMMA Invariance == Spec => []IInv
<1>1. Init => IInv
  BY TypeInit, ShapeInit, PlacedInit, RoutedInit, InOrderInit DEF IInv
<1>2. IInv /\ [Next]_vars => IInv'
  BY TypeStep, ShapeStep, PlacedStep, RoutedStep, InOrderStep DEF IInv
<1> QED BY <1>1, <1>2, PTL DEF Spec

\* Type correctness: no channel between a ref and a served actor exceeds its
\* capacity.
THEOREM DeliveryTypeCorrect == Spec => []TypeOK
<1>1. IInv => TypeOK
  BY DEF IInv
<1> QED BY <1>1, Invariance, PTL

\* At most once and nothing unaccounted for, over every history of reconnects,
\* hangups, concurrent dispatch tasks and dying actors.
THEOREM OnePlace == Spec => []ExactlyOnePlace
<1>1. IInv => ExactlyOnePlace
  BY PlacedMeans DEF IInv
<1> QED BY <1>1, Invariance, PTL

\* With max_in_flight 1 the served actor handles the messages of a connection in
\* the order in which the ref sent them.
THEOREM FifoWithOnePermit == Spec => []FifoPerConnection
<1>1. IInv => FifoPerConnection
  BY DEF IInv, InOrder, Sorted, Related, FifoPerConnection
<1> QED BY <1>1, Invariance, PTL

\* What one step loses has a cause.
LossExplained ==
    \A m \in lost' \ lost :
        \/ kind[m] = "oversized"
        \/ \E c \in Conn : via[m] = c /\ Dead(c)'
        \/ m = wmsg /\ Dead(conn)
        \/ m \in InFlight /\ table # "registered"
        \/ ~actorUp' \/ bpc = "done"
        \/ wpc = "sleep" /\ ~refs

\* Every step that loses a message has one of the causes.
LEMMA LossStep == TypeOK /\ Shape /\ Routed /\ [Next]_vars => LossExplained
<1> SUFFICES ASSUME TypeOK, Shape, Routed, [Next]_vars PROVE LossExplained
  OBVIOUS
<1>1. ASSUME UNCHANGED lost PROVE LossExplained
  BY <1>1 DEF LossExplained
<1>2. ASSUME NEW k \in {"ok"} \cup Bad, Send(k) PROVE LossExplained
  BY <1>1, <1>2 DEF Send
<1>3. ASSUME DropRefs \/ Connect \/ ConnectErr \/ RecvNone \/ Recv \/ Register \/ Unregister
             \/ BridgeRecv \/ BridgeSend \/ Handle \/ UNCHANGED vars
      PROVE  LossExplained
  BY <1>1, <1>3 DEF DropRefs, Connect, ConnectErr, RecvNone, Recv, Register, Unregister,
                    BridgeRecv, BridgeSend, Handle, vars
<1>4. ASSUME Retry PROVE LossExplained
  BY <1>4 DEF Retry, LossExplained
<1>5. ASSUME WriteOk \/ WriteErr PROVE LossExplained
  BY <1>5 DEF WriteOk, WriteErr, LossExplained
<1>6. ASSUME NEW c \in Conn, ReadErr(c) \/ ReadEof(c) \/ ReadTimeout(c) \/ Break(c) PROVE LossExplained
  <2>1. lost' = lost \cup ToSet(wire[c]) /\ Dead(c)'
    BY <1>6 DEF ReadErr, ReadEof, ReadTimeout, Hangup, Break, Dead, TypeOK
  <2>2. \A m \in ToSet(wire[c]) : via[m] = c
    BY AtFacts DEF Routed
  <2> QED BY <2>1, <2>2 DEF LossExplained
<1>7. ASSUME NEW c \in Conn, ReadFrame(c) \/ SpawnDispatch(c) PROVE LossExplained
  BY <1>1, <1>7 DEF ReadFrame, SpawnDispatch
<1>8. ASSUME NEW m \in Msg, DispatchTask(m) PROVE LossExplained
  BY <1>8 DEF DispatchTask, Lookup, Dispatch, InFlight, LossExplained
<1>9. ASSUME BridgeSendErr \/ BridgeClosed PROVE LossExplained
  <2>1. CASE BridgeSendErr
    BY <2>1, Zenon DEF BridgeSendErr, BridgeEnds, LossExplained
  <2>2. CASE BridgeClosed
    <3>1. ToSet(bridge) = {} /\ Held(bmsg) = {}
      BY <2>2, ChannelEmpty DEF BridgeClosed, Shape, Held
    <3>2. lost' = lost
      BY <2>2, <3>1 DEF BridgeClosed, BridgeEnds
    <3> QED BY <1>1, <3>2
  <2> QED BY <1>9, <2>1, <2>2
<1>10. ASSUME ActorExit PROVE LossExplained
  BY <1>10 DEF ActorExit, LossExplained
<1> QED
  BY <1>2, <1>3, <1>4, <1>5, <1>6, <1>7, <1>8, <1>9, <1>10
     DEF Next, WriteLoop, HandleConn, DispatchTask, Bridge

\* A message is lost only to its own size, its own connection, a missing target, a
\* dead actor or an abandoned ref; never because of another message's fate.
THEOREM LossesExplained == Spec => LossHasCause
<1>1. IInv /\ [Next]_vars => [LossExplained]_vars
  BY LossStep DEF IInv
<1> QED BY <1>1, Invariance, PTL DEF Spec, LossHasCause, LossExplained
=============================================================================
