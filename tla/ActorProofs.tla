---------------------------- MODULE ActorProofs -----------------------------
(***************************************************************************)
(* The actor task for every set of actors, monitors, capacities, budgets   *)
(* and mixes of trapping: types, in-flight counts, signals to the          *)
(* supervisor, monitors and links.                                         *)
(***************************************************************************)
EXTENDS ActorRuntime, FiniteSetTheorems, TLAPS

-----------------------------------------------------------------------------
(* Sequences and envelopes                                                 *)

LEMMA HeadTail ==
    ASSUME NEW S, NEW q \in Seq(S), q # <<>>
    PROVE  /\ Head(q) \in S /\ Tail(q) \in Seq(S)
           /\ Len(q) \in Nat \ {0} /\ Len(Tail(q)) = Len(q) - 1
OBVIOUS

LEMMA AppendType ==
    ASSUME NEW S, NEW q \in Seq(S), NEW x \in S
    PROVE  /\ Append(q, x) \in Seq(S) /\ Append(q, x) # <<>>
           /\ Len(Append(q, x)) = Len(q) + 1 /\ Len(q) \in Nat
OBVIOUS

\* What Contains says after a push and after a pop.
LEMMA ContainsAppend ==
    ASSUME NEW S, NEW q \in Seq(S), NEW x \in S, NEW y
    PROVE  Contains(Append(q, x), y) <=> Contains(q, y) \/ x = y
<1>1. /\ Len(q) \in Nat /\ Len(Append(q, x)) = Len(q) + 1
      /\ Append(q, x)[Len(q) + 1] = x
      /\ \A i \in 1 .. Len(q) : Append(q, x)[i] = q[i]
  OBVIOUS
<1>2. 1 .. Len(q) + 1 = (1 .. Len(q)) \cup {Len(q) + 1}
  BY <1>1
<1> QED BY <1>1, <1>2 DEF Contains

LEMMA ContainsTail ==
    ASSUME NEW S, NEW q \in Seq(S), q # <<>>, NEW y
    PROVE  /\ Contains(Tail(q), y) => Contains(q, y)
           /\ Contains(q, y) => Head(q) = y \/ Contains(Tail(q), y)
<1>1. /\ Len(q) \in Nat \ {0} /\ Len(Tail(q)) = Len(q) - 1 /\ Head(q) = q[1]
      /\ \A i \in 1 .. Len(q) - 1 : Tail(q)[i] = q[i + 1]
  OBVIOUS
<1>2. ASSUME NEW i \in 1 .. Len(q), q[i] = y PROVE Head(q) = y \/ Contains(Tail(q), y)
  <2>1. CASE i = 1
    BY <1>1, <1>2, <2>1
  <2>2. CASE i # 1
    <3>1. i - 1 \in 1 .. Len(Tail(q)) /\ Tail(q)[i - 1] = q[i]
      BY <1>1, <2>2
    <3> QED BY <1>2, <3>1 DEF Contains
  <2> QED BY <2>1, <2>2
<1>3. ASSUME NEW i \in 1 .. Len(Tail(q)), Tail(q)[i] = y PROVE Contains(q, y)
  <2>1. i + 1 \in 1 .. Len(q) /\ q[i + 1] = y
    BY <1>1, <1>3
  <2> QED BY <2>1 DEF Contains
<1> QED BY <1>2, <1>3 DEF Contains

LEMMA ContainsType ==
    ASSUME NEW S, NEW q \in Seq(S), NEW y, Contains(q, y)
    PROVE  y \in S
BY DEF Contains

LEMMA ContainsEmpty == \A y : ~Contains(<<>>, y)
BY DEF Contains

LEMMA EnvelopeFields ==
    ASSUME NEW e \in Envelope
    PROVE  /\ e.kind \in CallKinds
           /\ e.kind \in {"Link", "Unlink"} => e.peer \in Actor
           /\ e.kind = "Monitor" => e.token \in Token
           /\ e.kind = "Upgrade" => e.trap \in Traps
BY DEF Envelope, CallKinds

LEMMA EnvelopeTypes ==
    /\ \A b \in Actor : [kind |-> "Link", peer |-> b] \in Envelope
    /\ \A t \in Token : [kind |-> "Monitor", token |-> t] \in Envelope
    /\ \A a \in Actor : LinkMsg(a) \in ControlMsg /\ LinkedExitMsg(a) \in ControlMsg
BY DEF Envelope, ControlMsg, LinkMsg, LinkedExitMsg

\* The orders in which a link set can be walked visit each peer.
LEMMA WalkOrder ==
    ASSUME NEW S \in SUBSET Actor, NEW order \in SetToSeqs(S)
    PROVE  /\ order \in Seq(Actor)
           /\ \A b \in S : Contains(order, b)
<1> DEFINE n == Cardinality(S)
<1>1. IsFiniteSet(S) /\ n \in Nat
  BY FS_Subset, FS_CardinalityType, ConstantsAssumption
<1>2. order \in [1 .. n -> S] /\ \A i, j \in 1 .. n : i # j => order[i] # order[j]
  BY DEF SetToSeqs
<1>3. order \in Injection(1 .. n, S)
  BY <1>2 DEF Injection, IsInjective
<1>4. Cardinality(1 .. n) = n
  BY <1>1, FS_Interval
<1>5. order \in Surjection(1 .. n, S)
  BY <1>1, <1>3, <1>4, FS_Injection
<1>6. order \in Seq(Actor) /\ Len(order) = n
  BY <1>1, <1>2
<1>7. ASSUME NEW b \in S PROVE Contains(order, b)
  BY <1>5, <1>6 DEF Surjection, Contains
<1> QED BY <1>6, <1>7

-----------------------------------------------------------------------------
(* Types and the in-flight count                                           *)

LEMMA PcFacts ==
    /\ "unborn" \in PC /\ "exited" \in PC /\ "aborted" \in PC /\ "pre_start" \in PC
    /\ "control" \in PC /\ "mailbox" \in PC /\ "reverse_link" \in PC /\ "handle" \in PC
    /\ "notify" \in PC /\ "post_stop" \in PC /\ "propagate" \in PC
BY DEF PC, Live, Loop, Exiting

LEMMA ReasonFacts ==
    /\ "Normal" \in Reason /\ "Shutdown" \in Reason /\ "Killed" \in Reason /\ "Linked" \in Reason
    /\ "UpgradeError" \in Reason /\ "Error" \in Reason /\ "HandleTimeout" \in Reason
BY DEF Reason, HandleFailure

\* A task that moves on, with or without an exit reason.
LEMMA BreakType ==
    ASSUME TypeOK, NEW a \in Actor, NEW r \in Reason, NEW next \in PC, Break(a, r, next)
    PROVE  pc' \in [Actor -> PC] /\ reason' \in [Actor -> {"none"} \cup Reason]
BY DEF Break, TypeOK

LEMMA MoveType ==
    ASSUME TypeOK, NEW a \in Actor, NEW next \in PC, pc' = [pc EXCEPT ![a] = next]
    PROVE  pc' \in [Actor -> PC]
BY DEF TypeOK

LEMMA CallType ==
    ASSUME TypeOK, NEW kind \in CallKinds, Call(kind)
    PROVE  calls' \in [CallKinds -> Nat]
BY DEF Call, TypeOK

\* A task that ends.
LEMMA DropTaskType ==
    ASSUME TypeOK, NEW a \in Actor, NEW S, DropTask(a, S)
    PROVE  /\ mailbox' \in [Actor -> Seq(Envelope)] /\ control' \in [Actor -> Seq(ControlMsg)]
           /\ \A b \in Actor : Len(mailbox'[b]) <= Cap /\ Len(control'[b]) <= Cap
           /\ monitors' \in [Actor -> SUBSET Token]
           /\ oneshot' \in [Token -> {"unused", "pending", "closed"} \cup Reason]
<1>1. <<>> \in Seq(Envelope) /\ <<>> \in Seq(ControlMsg) /\ Len(<<>>) = 0 /\ Cap \in Nat
  BY ConstantsAssumption
<1> QED BY <1>1 DEF DropTask, Close, TypeOK

\* A stored link, and perhaps a reverse link to be sent.
LEMMA InsertLinkType ==
    ASSUME TypeOK, NEW a \in Actor, NEW peer \in Actor, InsertLink(a, peer)
    PROVE  /\ pc' \in [Actor -> PC] /\ links' \in [Actor -> SUBSET Actor]
           /\ outbox' \in [Actor -> Seq(Actor)]
<1>1. <<peer>> \in Seq(Actor)
  OBVIOUS
<1>2. pc' \in [Actor -> PC]
  BY PcFacts, ZenonT(30) DEF InsertLink, TypeOK
<1>3. links' \in [Actor -> SUBSET Actor]
  BY DEF InsertLink, TypeOK
<1>4. outbox' \in [Actor -> Seq(Actor)]
  <2>1. outbox \in [Actor -> Seq(Actor)] /\ (outbox' = outbox \/ outbox' = [outbox EXCEPT ![a] = <<peer>>])
    BY DEF InsertLink, TypeOK
  <2> QED BY <1>1, <2>1
<1> QED BY <1>2, <1>3, <1>4

\* An envelope that is taken out of the mailbox.
LEMMA TakeType ==
    ASSUME TypeOK, NEW a \in Actor, NEW kind, Take(a, kind)
    PROVE  /\ Head(mailbox[a]) \in Envelope /\ Head(mailbox[a]).kind = kind
           /\ mailbox' \in [Actor -> Seq(Envelope)] /\ late' \in [Actor -> Nat]
           /\ \A b \in Actor : Len(mailbox'[b]) <= Cap
           /\ UNCHANGED <<control, registry, refs, calls, signals, supUp, told, trapped>>
<1>1. /\ Head(mailbox[a]) \in Envelope /\ Tail(mailbox[a]) \in Seq(Envelope)
      /\ Len(Tail(mailbox[a])) <= Cap
  <2>1. mailbox[a] \in Seq(Envelope) /\ mailbox[a] # <<>> /\ Len(mailbox[a]) <= Cap
    BY DEF Take, TypeOK
  <2> QED BY <2>1, HeadTail, ConstantsAssumption
<1> QED BY <1>1 DEF Take, TypeOK, super

\* A control message that is taken, or sent.
LEMMA TakeControlType ==
    ASSUME TypeOK, NEW a \in Actor, TakeControl(a)
    PROVE  /\ Head(control[a]).peer \in Actor
           /\ control' \in [Actor -> Seq(ControlMsg)] /\ late' \in [Actor -> Nat]
           /\ \A b \in Actor : Len(control'[b]) <= Cap
<1>1. /\ Head(control[a]) \in ControlMsg /\ Tail(control[a]) \in Seq(ControlMsg)
      /\ Len(Tail(control[a])) <= Cap
  <2>1. control[a] \in Seq(ControlMsg) /\ control[a] # <<>> /\ Len(control[a]) <= Cap
    BY DEF TakeControl, TypeOK
  <2> QED BY <2>1, HeadTail, ConstantsAssumption
<1> QED BY <1>1 DEF TakeControl, TypeOK, ControlMsg

LEMMA SendControlType ==
    ASSUME TypeOK, NEW a \in Actor, NEW m \in ControlMsg, SendControl(a, m)
    PROVE  /\ Head(outbox[a]) \in Actor
           /\ control' \in [Actor -> Seq(ControlMsg)] /\ outbox' \in [Actor -> Seq(Actor)]
           /\ \A b \in Actor : Len(control'[b]) <= Cap
<1> DEFINE p == Head(outbox[a])
<1>1. p \in Actor /\ Tail(outbox[a]) \in Seq(Actor)
  <2>1. outbox[a] \in Seq(Actor) /\ outbox[a] # <<>>
    BY DEF SendControl, TypeOK
  <2> QED BY <2>1, HeadTail
<1>2. outbox' \in [Actor -> Seq(Actor)]
  BY <1>1 DEF SendControl, TypeOK
<1>3. CASE ~Reachable(p)
  BY <1>1, <1>2, <1>3 DEF SendControl, TypeOK
<1>4. CASE Reachable(p)
  <2>1. Len(control[p]) < Cap /\ control' = [control EXCEPT ![p] = Append(@, m)]
    BY <1>4 DEF SendControl
  <2>2. Append(control[p], m) \in Seq(ControlMsg) /\ Len(Append(control[p], m)) <= Cap
    <3>1. control[p] \in Seq(ControlMsg)
      BY <1>1 DEF TypeOK
    <3> QED BY <3>1, <2>1, AppendType, ConstantsAssumption
  <2> QED BY <1>1, <1>2, <2>1, <2>2 DEF TypeOK
<1> QED BY <1>3, <1>4

LEMMA PostType ==
    ASSUME TypeOK, NEW a \in Actor, NEW e \in Envelope, Post(a, e)
    PROVE  /\ mailbox' \in [Actor -> Seq(Envelope)] /\ calls' \in [CallKinds -> Nat]
           /\ \A b \in Actor : Len(mailbox'[b]) <= Cap
<1>1. e.kind \in CallKinds
  BY EnvelopeFields
<1>2. Append(mailbox[a], e) \in Seq(Envelope) /\ Len(Append(mailbox[a], e)) <= Cap
  <2>1. mailbox[a] \in Seq(Envelope) /\ Len(mailbox[a]) < Cap
    BY DEF Post, TypeOK
  <2> QED BY <2>1, AppendType, ConstantsAssumption
<1> QED BY <1>1, <1>2, SMTT(30) DEF Post, Call, TypeOK

LEMMA TypeInit == Init => TypeOK /\ InFlightExact
<1> SUFFICES ASSUME Init PROVE TypeOK /\ InFlightExact
  OBVIOUS
<1>1. /\ <<>> \in Seq(Envelope) /\ <<>> \in Seq(ControlMsg) /\ <<>> \in Seq(Actor)
      /\ Len(<<>>) = 0 /\ Cap \in Nat /\ SigCap \in Nat
  BY ConstantsAssumption
<1> QED BY <1>1, PcFacts DEF Init, TypeOK, InFlightExact

\* in_flight goes up and down with the handle of the task.
LEMMA InFlightStep == TypeOK /\ InFlightExact /\ [Next]_vars => InFlightExact'
<1> SUFFICES ASSUME TypeOK, InFlightExact, [Next]_vars PROVE InFlightExact'
  OBVIOUS
<1>1. ASSUME NEW a \in Actor, NEW s \in PC \ {"handle"}, UNCHANGED inFlight,
             pc' = [pc EXCEPT ![a] = s], pc[a] # "handle", pc[a] # "aborted"
      PROVE  InFlightExact'
  BY <1>1 DEF InFlightExact, TypeOK
<1>2. ASSUME NEW a \in Actor, NEW s \in PC \ {"handle"},
             inFlight' = [inFlight EXCEPT ![a] = 0], pc' = [pc EXCEPT ![a] = s]
      PROVE  InFlightExact'
  BY <1>2 DEF InFlightExact, TypeOK
<1>3. ASSUME NEW a \in Actor, NEW s \in PC \ {"handle"}, LeaveHandle(a), pc' = [pc EXCEPT ![a] = s]
      PROVE  InFlightExact'
  BY <1>3 DEF InFlightExact, TypeOK, LeaveHandle
<1>4. ASSUME UNCHANGED <<pc, inFlight>> PROVE InFlightExact'
  BY <1>4 DEF InFlightExact
<1>5. ASSUME NEW a \in Actor, Client(a) PROVE InFlightExact'
  <2>1. CASE Spawn(a)
    BY <2>1, <1>1, PcFacts DEF Spawn
  <2>2. ASSUME NEW e, Post(a, e) PROVE InFlightExact'
    BY <2>2, <1>4 DEF Post
  <2>3. ASSUME NEW t, MonitorClosed(a, t) PROVE InFlightExact'
    BY <2>3, <1>4 DEF MonitorClosed
  <2>4. CASE DropRefs(a)
    BY <2>4, <1>4 DEF DropRefs
  <2> QED BY <1>5, <2>1, <2>2, <2>3, <2>4 DEF Client, Request, Link, Monitor
<1>6. ASSUME NEW a \in Actor, Step(a) PROVE InFlightExact'
  <2>1. CASE PreStartErr(a) \/ Unregister(a)
    BY <2>1, <1>2, PcFacts DEF PreStartErr, Unregister
  <2>2. CASE HandleOk(a) \/ HandleErr(a) \/ HandleTimeout(a)
    BY <2>2, <1>3, PcFacts DEF HandleOk, HandleErr, HandleTimeout, Break
  <2>3. CASE TakeMsg(a)
    BY <2>3, SMTT(30) DEF TakeMsg, Take, InFlightExact, TypeOK
  <2>4. CASE PreStartOk(a) \/ ControlPending(a) \/ Park(a) \/ MailboxClosed(a)
    BY <2>4, <1>1, PcFacts DEF PreStartOk, ControlPending, Park, MailboxClosed, Break
  <2>5. CASE RecvLink(a) \/ RecvLinkedExit(a)
    BY <2>5, <1>1, <1>4, PcFacts DEF RecvLink, RecvLinkedExit, TakeControl, InsertLink, Break
  <2>6. CASE TakeLink(a) \/ TakeUnlink(a) \/ TakeMonitor(a) \/ TakeDemonitor(a)
    BY <2>6, <1>1, PcFacts DEF TakeLink, TakeUnlink, TakeMonitor, TakeDemonitor, Take, InsertLink
  <2>7. CASE TakeUpgrade(a) \/ TakeStop(a) \/ TakeKill(a)
    BY <2>7, <1>1, PcFacts DEF TakeUpgrade, TakeStop, TakeKill, Take, Break
  <2>8. CASE NotifySupervisor(a) \/ PostStop(a) \/ SendReverseLink(a)
    BY <2>8, <1>1, PcFacts DEF NotifySupervisor, PostStop, SendReverseLink, SendControl
  <2>9. CASE Propagate(a)
    BY <2>9, <1>4 DEF Propagate, SendControl
  <2> QED BY <1>6, <2>1, <2>2, <2>3, <2>4, <2>5, <2>6, <2>7, <2>8, <2>9 DEF Step, TakeEnvelope
<1>7. ASSUME NEW a \in Actor, Abort(a) PROVE InFlightExact'
  BY <1>7 DEF Abort, InFlightExact, TypeOK
<1>8. ASSUME SupervisorRecv \/ SupervisorGone \/ UNCHANGED vars PROVE InFlightExact'
  BY <1>8, <1>4 DEF SupervisorRecv, SupervisorGone, vars
<1> QED BY <1>5, <1>6, <1>7, <1>8 DEF Next

\* The step leaves everything task `b' owns alone, its control channel excepted.
Untouched(b) ==
    /\ pc'[b] = pc[b] /\ reason'[b] = reason[b] /\ (b \in registry' <=> b \in registry)
    /\ mailbox'[b] = mailbox[b] /\ monitors'[b] = monitors[b] /\ links'[b] = links[b]
    /\ outbox'[b] = outbox[b] /\ trap'[b] = trap[b] /\ trapped'[b] = trapped[b]
    /\ late'[b] = late[b] /\ refs'[b] = refs[b] /\ inFlight'[b] = inFlight[b]

\* The control channels, seen from a step of task `a'.
ControlStep(a, b) ==
    \/ control'[b] = control[b]
    \/ /\ Reachable(b) /\ outbox[a] # <<>> /\ Head(outbox[a]) = b
       /\ \/ pc[a] = "reverse_link" /\ control'[b] = Append(control[b], LinkMsg(a))
          \/ pc[a] = "propagate" /\ control'[b] = Append(control[b], LinkedExitMsg(a))

\* A task and its clients reach other tasks through their control channels only.
LEMMA Locality ==
    ASSUME TypeOK, NEW a \in Actor, Client(a) \/ Step(a) \/ Abort(a), NEW b \in Actor \ {a}
    PROVE  Untouched(b) /\ ControlStep(a, b)
<1> DEFINE Goal == Untouched(b) /\ ControlStep(a, b)
<1> USE DEF Untouched, ControlStep, TypeOK
<1>1. CASE Spawn(a)
  BY <1>1 DEF Spawn, chans, watch, super, history
<1>2. ASSUME NEW e, Post(a, e) PROVE Goal
  BY <1>2 DEF Post, super
<1>3. ASSUME NEW t, MonitorClosed(a, t) PROVE Goal
  BY <1>3 DEF MonitorClosed, chans, super, history
<1>4. CASE DropRefs(a)
  BY <1>4 DEF DropRefs, chans, watch, super, history
<1>5. CASE PreStartOk(a) \/ ControlPending(a) \/ Park(a)
  BY <1>5 DEF PreStartOk, ControlPending, Park, chans, watch, client, super, history
<1>6. CASE PreStartErr(a)
  BY <1>6 DEF PreStartErr, DropTask, client, super, history
<1>7. CASE MailboxClosed(a)
  BY <1>7 DEF MailboxClosed, Break, chans, watch, client, super, history
<1>8. CASE RecvLink(a)
  BY <1>8 DEF RecvLink, TakeControl, InsertLink, watch, client, super
<1>9. CASE RecvLinkedExit(a)
  BY <1>9 DEF RecvLinkedExit, TakeControl, Break, watch, client, super
<1>10. CASE TakeMsg(a)
  BY <1>10 DEF TakeMsg, Take, watch, super
<1>11. CASE TakeLink(a)
  BY <1>11 DEF TakeLink, InsertLink, Take, watch, super
<1>12. CASE TakeUnlink(a) \/ TakeMonitor(a)
  BY <1>12 DEF TakeUnlink, TakeMonitor, Take, watch, super
<1>13. CASE TakeDemonitor(a)
  BY <1>13 DEF TakeDemonitor, Take, watch, super
<1>14. CASE TakeUpgrade(a)
  BY <1>14, SMTT(30) DEF TakeUpgrade, Take, Break, watch, super
<1>15. CASE TakeStop(a) \/ TakeKill(a)
  BY <1>15 DEF TakeStop, TakeKill, Take, Break, watch, super
<1>16. CASE HandleOk(a) \/ HandleErr(a) \/ HandleTimeout(a)
  BY <1>16 DEF HandleOk, HandleErr, HandleTimeout, LeaveHandle, Break, chans, watch, client, super, history
<1>17. CASE NotifySupervisor(a)
  BY <1>17 DEF NotifySupervisor, chans, watch, client, history
<1>18. CASE PostStop(a)
  BY <1>18 DEF PostStop, chans, client, super, history
<1>19. CASE SendReverseLink(a) \/ Propagate(a)
  <2>1. PICK m \in ControlMsg :
          /\ SendControl(a, m)
          /\ \/ pc[a] = "reverse_link" /\ m = LinkMsg(a)
             \/ pc[a] = "propagate" /\ m = LinkedExitMsg(a)
    BY <1>19, EnvelopeTypes DEF SendReverseLink, Propagate
  <2>2. Untouched(b)
    BY <1>19, <2>1 DEF SendReverseLink, Propagate, SendControl, watch, client, super, history
  <2>3. control \in [Actor -> Seq(ControlMsg)] /\ outbox[a] # <<>>
        /\ \/ control' = control
           \/ /\ Reachable(Head(outbox[a]))
              /\ control' = [control EXCEPT ![Head(outbox[a])] = Append(@, m)]
    BY <2>1 DEF SendControl
  <2>4. ControlStep(a, b)
    BY <2>1, <2>3, Zenon
  <2> QED BY <2>2, <2>4
<1>20. CASE Unregister(a)
  BY <1>20 DEF Unregister, DropTask, client, super, history
<1>21. CASE Abort(a)
  BY <1>21 DEF Abort, DropTask, client, super, history
<1> HIDE DEF Untouched, ControlStep, TypeOK
<1> QED
  BY <1>1, <1>2, <1>3, <1>4, <1>5, <1>6, <1>7, <1>8, <1>9, <1>10, <1>11, <1>12, <1>13, <1>14, <1>15,
     <1>16, <1>17, <1>18, <1>19, <1>20, <1>21
     DEF Client, Step, TakeEnvelope, Request, Link, Monitor

\* Where a task is decides whether its registry entry is there, whether it has an
\* exit reason, and, once its future is gone, that its channels are empty.
ShapeOf(a) ==
    /\ a \in registry <=> pc[a] \in Live \cup {"aborted"}
    /\ pc[a] \in {"unborn", "pre_start"} \cup Loop => reason[a] = "none"
    /\ pc[a] = "notify" => reason[a] \in HandleFailure
    /\ pc[a] \in {"post_stop", "propagate"} => reason[a] \in Reason
    /\ ~Open(a) => mailbox[a] = <<>> /\ control[a] = <<>>
    /\ ~Open(a) \/ pc[a] \in {"pre_start", "propagate"} => monitors[a] = {}

Shape == \A a \in Actor : ShapeOf(a)

LEMMA ShapeInit == Init => Shape
BY DEF Init, Shape, ShapeOf, Open, Live, Loop, Exiting

\* What a step of a task does to its own shape.
LEMMA ShapeLocal ==
    ASSUME TypeOK, Shape, NEW a \in Actor, Client(a) \/ Step(a) \/ Abort(a)
    PROVE  ShapeOf(a)'
<1> USE DEF ShapeOf, Open, Live, Loop, Exiting
<1>1. ShapeOf(a) /\ pc \in [Actor -> PC] /\ reason \in [Actor -> {"none"} \cup Reason]
      /\ mailbox \in [Actor -> Seq(Envelope)] /\ control \in [Actor -> Seq(ControlMsg)]
      /\ monitors \in [Actor -> SUBSET Token]
  BY DEF Shape, TypeOK
<1> DEFINE Goal == ShapeOf(a)'
<1>2. CASE Spawn(a)
  BY <1>1, <1>2 DEF Spawn, chans, watch
<1>3. ASSUME NEW e, Post(a, e) PROVE Goal
  BY <1>1, <1>3 DEF Post
<1>4. ASSUME NEW t, MonitorClosed(a, t) PROVE Goal
  BY <1>1, <1>4 DEF MonitorClosed, chans
<1>5. CASE DropRefs(a)
  BY <1>1, <1>5 DEF DropRefs, chans, watch
<1>6. CASE PreStartOk(a) \/ ControlPending(a) \/ Park(a)
  BY <1>1, <1>6 DEF PreStartOk, ControlPending, Park, chans, watch
<1>7. CASE PreStartErr(a)
  BY <1>1, <1>7 DEF PreStartErr, DropTask
<1>8. CASE MailboxClosed(a)
  BY <1>1, <1>8, ReasonFacts DEF MailboxClosed, Break, chans, watch
<1>9. CASE RecvLink(a)
  BY <1>1, <1>9 DEF RecvLink, TakeControl, InsertLink, watch
<1>10. CASE RecvLinkedExit(a)
  <2>1. \/ UNCHANGED <<pc, reason>>
        \/ Break(a, "Linked", "post_stop")
    BY <1>10, Zenon DEF RecvLinkedExit
  <2> QED BY <1>1, <1>10, <2>1, ReasonFacts DEF RecvLinkedExit, TakeControl, Break, watch
<1>11. CASE TakeMsg(a)
  BY <1>1, <1>11 DEF TakeMsg, Take, watch
<1>12. CASE TakeLink(a)
  BY <1>1, <1>12 DEF TakeLink, InsertLink, Take, watch
<1>13. CASE TakeUnlink(a) \/ TakeMonitor(a)
  BY <1>1, <1>13 DEF TakeUnlink, TakeMonitor, Take, watch
<1>14. CASE TakeDemonitor(a)
  BY <1>1, <1>14 DEF TakeDemonitor, Take, watch
<1>15. CASE TakeUpgrade(a)
  BY <1>1, <1>15, ReasonFacts DEF TakeUpgrade, Take, Break, watch
<1>16. CASE TakeStop(a) \/ TakeKill(a)
  BY <1>1, <1>16, ReasonFacts DEF TakeStop, TakeKill, Take, Break, watch
<1>17. CASE HandleOk(a) \/ HandleErr(a) \/ HandleTimeout(a)
  BY <1>1, <1>17 DEF HandleOk, HandleErr, HandleTimeout, LeaveHandle, Break, chans, watch, HandleFailure
<1>18. CASE NotifySupervisor(a)
  BY <1>1, <1>18 DEF NotifySupervisor, chans, watch, Reason
<1>19. CASE PostStop(a)
  BY <1>1, <1>19 DEF PostStop, chans
<1>20. CASE SendReverseLink(a) \/ Propagate(a)
  BY <1>1, <1>20 DEF SendReverseLink, Propagate, SendControl, watch
<1>21. CASE Unregister(a)
  BY <1>1, <1>21 DEF Unregister, DropTask
<1>22. CASE Abort(a)
  BY <1>1, <1>22 DEF Abort, DropTask
<1> HIDE DEF ShapeOf, Open, Live, Loop, Exiting
<1> QED
  BY <1>2, <1>3, <1>4, <1>5, <1>6, <1>7, <1>8, <1>9, <1>10, <1>11, <1>12, <1>13, <1>14, <1>15,
     <1>16, <1>17, <1>18, <1>19, <1>20, <1>21, <1>22
     DEF Client, Step, TakeEnvelope, Request, Link, Monitor

\* What each pc of a task implies about the envelope, reason and loop it is in.
LEMMA ShapeStep == TypeOK /\ Shape /\ [Next]_vars => Shape'
<1> SUFFICES ASSUME TypeOK, Shape, [Next]_vars PROVE Shape'
  OBVIOUS
<1>1. ASSUME NEW a \in Actor, Client(a) \/ Step(a) \/ Abort(a) PROVE Shape'
  <2>1. ASSUME NEW b \in Actor \ {a} PROVE ShapeOf(b)'
    <3>1. Untouched(b) /\ ControlStep(a, b) /\ ShapeOf(b)
      BY <1>1, Locality DEF Shape
    <3>2. ~Open(b) => control'[b] = control[b]
      BY <3>1 DEF ControlStep, Reachable
    <3> QED BY <3>1, <3>2 DEF Untouched, ShapeOf, Open
  <2> QED BY <1>1, <2>1, ShapeLocal DEF Shape
<1>2. CASE SupervisorRecv \/ SupervisorGone \/ UNCHANGED vars
  BY <1>2 DEF SupervisorRecv, SupervisorGone, vars, chans, watch, Shape, ShapeOf, Open
<1> QED BY <1>1, <1>2 DEF Next

\* Every action keeps the types, the capacities included.
LEMMA TypeStep == TypeOK /\ Shape /\ InFlightExact /\ [Next]_vars => TypeOK'
<1> SUFFICES ASSUME TypeOK, Shape, InFlightExact, [Next]_vars PROVE TypeOK'
  OBVIOUS
<1>1. ASSUME NEW a \in Actor, Spawn(a) PROVE TypeOK'
  BY <1>1, PcFacts DEF Spawn, TypeOK, chans, watch, super, history
<1>2. ASSUME NEW a \in Actor, NEW e \in Envelope, Post(a, e),
             oneshot' \in [Token -> {"unused", "pending", "closed"} \cup Reason]
      PROVE  TypeOK'
  BY <1>2, PostType DEF Post, TypeOK, super
<1>3. ASSUME NEW a \in Actor, NEW e \in Envelope, Request(a, e) PROVE TypeOK'
  BY <1>2, <1>3 DEF Request, TypeOK
<1>4. ASSUME NEW a \in Actor, NEW b \in Actor, Link(a, b) PROVE TypeOK'
  BY <1>2, <1>4, EnvelopeTypes DEF Link, TypeOK
<1>5. ASSUME NEW a \in Actor, NEW t \in Token, Monitor(a, t) PROVE TypeOK'
  BY <1>2, <1>5, EnvelopeTypes DEF Monitor, TypeOK
<1>6. ASSUME NEW a \in Actor, NEW t \in Token, MonitorClosed(a, t) PROVE TypeOK'
  <2>1. calls' \in [CallKinds -> Nat]
    BY <1>6, CallType DEF MonitorClosed, CallKinds
  <2>2. oneshot' \in [Token -> {"unused", "pending", "closed"} \cup Reason]
    BY <1>6 DEF MonitorClosed, TypeOK
  <2> QED BY <1>6, <2>1, <2>2 DEF MonitorClosed, TypeOK, chans, super, history
<1>7. ASSUME NEW a \in Actor, DropRefs(a) PROVE TypeOK'
  <2>1. calls' \in [CallKinds -> Nat]
    BY <1>7, CallType DEF DropRefs, CallKinds
  <2>2. refs' \in [Actor -> BOOLEAN]
    BY <1>7 DEF DropRefs, TypeOK
  <2> QED BY <1>7, <2>1, <2>2 DEF DropRefs, TypeOK, chans, watch, super, history
<1>8. ASSUME NEW a \in Actor, PreStartOk(a) \/ ControlPending(a) \/ Park(a) PROVE TypeOK'
  BY <1>8, PcFacts, ZenonT(30) DEF PreStartOk, ControlPending, Park, TypeOK, chans, watch, client, super, history
<1>9. ASSUME NEW a \in Actor, PreStartErr(a) PROVE TypeOK'
  <2>1. registry' \subseteq Actor /\ pc' \in [Actor -> PC] /\ inFlight' \in [Actor -> Nat]
    BY <1>9, PcFacts DEF PreStartErr, TypeOK
  <2> QED BY <1>9, <2>1, DropTaskType DEF PreStartErr, TypeOK, client, super, history
<1>10. ASSUME NEW a \in Actor, RecvLink(a) PROVE TypeOK'
  <2>1. TakeControl(a) /\ InsertLink(a, Head(control[a]).peer) /\ Head(control[a]).peer \in Actor
    BY <1>10, TakeControlType DEF RecvLink
  <2> QED BY <1>10, <2>1, TakeControlType, InsertLinkType DEF RecvLink, TypeOK, watch, client, super
<1>11. ASSUME NEW a \in Actor, RecvLinkedExit(a) PROVE TypeOK'
  <2>1. TakeControl(a)
    BY <1>11 DEF RecvLinkedExit
  <2>2. \/ /\ trapped' = [trapped EXCEPT ![a] = @ \cup {Head(control[a]).peer}]
           /\ UNCHANGED <<pc, reason>>
        \/ Break(a, "Linked", "post_stop") /\ UNCHANGED trapped
    BY <1>11, Zenon DEF RecvLinkedExit
  <2>3. Head(control[a]).peer \in Actor
    BY <2>1, TakeControlType
  <2>4. trapped' \in [Actor -> SUBSET Actor]
    <3>1. trapped[a] \cup {Head(control[a]).peer} \in SUBSET Actor /\ trapped \in [Actor -> SUBSET Actor]
      BY <2>3 DEF TypeOK
    <3>2. CASE trapped' = [trapped EXCEPT ![a] = @ \cup {Head(control[a]).peer}]
      BY <3>1, <3>2
    <3>3. CASE trapped' = trapped
      BY <3>1, <3>3
    <3> QED BY <2>2, <3>2, <3>3
  <2>5. pc' \in [Actor -> PC] /\ reason' \in [Actor -> {"none"} \cup Reason]
    BY <2>2, BreakType, PcFacts, ReasonFacts DEF TypeOK
  <2> QED BY <1>11, <2>1, <2>4, <2>5, TakeControlType DEF RecvLinkedExit, TypeOK, watch, client, super
<1>12. ASSUME NEW a \in Actor, MailboxClosed(a) PROVE TypeOK'
  BY <1>12, PcFacts, ReasonFacts DEF MailboxClosed, Break, TypeOK, chans, watch, client, super, history
<1>13. ASSUME NEW a \in Actor, TakeMsg(a) PROVE TypeOK'
  <2>1. Take(a, "Msg") /\ inFlight' \in [Actor -> Nat]
    BY <1>13 DEF TakeMsg, TypeOK
  <2>2. pc' \in [Actor -> PC]
    BY <1>13, MoveType, PcFacts DEF TakeMsg
  <2> QED BY <1>13, <2>1, <2>2, TakeType DEF TakeMsg, TypeOK, watch
<1>14. ASSUME NEW a \in Actor, TakeLink(a) PROVE TypeOK'
  <2>1. Take(a, "Link") /\ InsertLink(a, Head(mailbox[a]).peer)
    BY <1>14 DEF TakeLink
  <2>2. Head(mailbox[a]).peer \in Actor
    BY <2>1, TakeType, EnvelopeFields
  <2> QED BY <1>14, <2>1, <2>2, TakeType, InsertLinkType DEF TakeLink, TypeOK, watch
<1>15. ASSUME NEW a \in Actor, TakeUnlink(a) PROVE TypeOK'
  <2>1. Take(a, "Unlink") /\ links' \in [Actor -> SUBSET Actor]
    BY <1>15 DEF TakeUnlink, TypeOK
  <2>2. pc' \in [Actor -> PC]
    BY <1>15, PcFacts DEF TakeUnlink, TypeOK
  <2> QED BY <1>15, <2>1, <2>2, TakeType, SMTT(30) DEF TakeUnlink, TypeOK, watch
<1>16. ASSUME NEW a \in Actor, TakeMonitor(a) PROVE TypeOK'
  <2>1. Take(a, "Monitor") /\ Head(mailbox[a]).token \in Token
    BY <1>16, TakeType, EnvelopeFields DEF TakeMonitor
  <2>2. monitors' \in [Actor -> SUBSET Token] /\ pc' \in [Actor -> PC]
    BY <1>16, <2>1, PcFacts DEF TakeMonitor, TypeOK
  <2> QED BY <1>16, <2>1, <2>2, TakeType DEF TakeMonitor, TypeOK
<1>17. ASSUME NEW a \in Actor, TakeDemonitor(a) PROVE TypeOK'
  <2>1. Take(a, "Demonitor")
    BY <1>17 DEF TakeDemonitor
  <2>2. monitors' \in [Actor -> SUBSET Token] /\ pc' \in [Actor -> PC]
    BY <1>17, PcFacts DEF TakeDemonitor, TypeOK
  <2>3. oneshot' \in [Token -> {"unused", "pending", "closed"} \cup Reason]
    BY <1>17 DEF TakeDemonitor, Close, TypeOK
  <2> QED BY <1>17, <2>1, <2>2, <2>3, TakeType DEF TakeDemonitor, TypeOK
<1>18. ASSUME NEW a \in Actor, TakeUpgrade(a) PROVE TypeOK'
  <2>1. Take(a, "Upgrade") /\ Head(mailbox[a]).trap \in Traps
    BY <1>18, TakeType, EnvelopeFields DEF TakeUpgrade
  <2>2. trap' \in [Actor -> Traps]
    BY <1>18, <2>1 DEF TakeUpgrade, TypeOK
  <2>3. CASE pc' = [pc EXCEPT ![a] = "control"] /\ UNCHANGED reason
    BY <1>18, <2>1, <2>2, <2>3, TakeType, MoveType, PcFacts DEF TakeUpgrade, TypeOK, watch
  <2>4. CASE Break(a, "UpgradeError", "post_stop")
    BY <1>18, <2>1, <2>2, <2>4, TakeType, BreakType, PcFacts, ReasonFacts DEF TakeUpgrade, TypeOK, watch
  <2> QED BY <1>18, <2>3, <2>4 DEF TakeUpgrade
<1>19. ASSUME NEW a \in Actor, TakeStop(a) \/ TakeKill(a) PROVE TypeOK'
  <2>1. Take(a, "Stop") \/ Take(a, "Kill")
    BY <1>19 DEF TakeStop, TakeKill
  <2>2. pc' \in [Actor -> PC] /\ reason' \in [Actor -> {"none"} \cup Reason]
    BY <1>19, BreakType, PcFacts, ReasonFacts DEF TakeStop, TakeKill
  <2> QED BY <1>19, <2>1, <2>2, TakeType DEF TakeStop, TakeKill, TypeOK, watch
<1>20. ASSUME NEW a \in Actor, HandleOk(a) \/ HandleErr(a) \/ HandleTimeout(a) PROVE TypeOK'
  <2>1. inFlight' \in [Actor -> Nat]
    <3>1. LeaveHandle(a)
      BY <1>20 DEF HandleOk, HandleErr, HandleTimeout
    <3>2. pc[a] = "handle" /\ inFlight[a] = 1
      BY <3>1 DEF LeaveHandle, InFlightExact
    <3> QED BY <3>1, <3>2 DEF LeaveHandle, TypeOK
  <2>2. pc' \in [Actor -> PC] /\ reason' \in [Actor -> {"none"} \cup Reason]
    <3>1. CASE HandleOk(a)
      BY <3>1, MoveType, PcFacts DEF HandleOk, TypeOK
    <3>2. CASE HandleErr(a) \/ HandleTimeout(a)
      BY <3>2, BreakType, PcFacts, ReasonFacts DEF HandleErr, HandleTimeout
    <3> QED BY <1>20, <3>1, <3>2
  <2> QED BY <1>20, <2>1, <2>2
          DEF HandleOk, HandleErr, HandleTimeout, LeaveHandle, TypeOK, chans, watch, client, super, history
<1>21. ASSUME NEW a \in Actor, NotifySupervisor(a) PROVE TypeOK'
  <2>1. signals' \in Seq(Actor) /\ Len(signals') <= SigCap
    <3>1. CASE SupervisorOf(a)
      <4>1. signals' = Append(signals, a) /\ Len(signals) < SigCap /\ signals \in Seq(Actor)
        BY <1>21, <3>1 DEF NotifySupervisor, SignalRoom, TypeOK
      <4> QED BY <4>1, AppendType, ConstantsAssumption
    <3>2. CASE ~SupervisorOf(a)
      BY <1>21, <3>2 DEF NotifySupervisor, TypeOK
    <3> QED BY <3>1, <3>2
  <2>2. told' \in [Actor -> Nat]
    <3>1. told \in [Actor -> Nat] /\ (told' = told \/ told' = [told EXCEPT ![a] = @ + 1])
      BY <1>21 DEF NotifySupervisor, TypeOK
    <3> QED BY <3>1
  <2>3. pc' \in [Actor -> PC]
    BY <1>21, PcFacts DEF NotifySupervisor, TypeOK
  <2> QED BY <1>21, <2>1, <2>2, <2>3 DEF NotifySupervisor, TypeOK, chans, watch, client, history
<1>22. ASSUME NEW a \in Actor, SendReverseLink(a) \/ Propagate(a) PROVE TypeOK'
  <2>1. PICK m \in ControlMsg : SendControl(a, m)
    BY <1>22, EnvelopeTypes DEF SendReverseLink, Propagate
  <2>2. pc' \in [Actor -> PC]
    BY <1>22, PcFacts DEF SendReverseLink, Propagate, TypeOK
  <2> QED BY <2>1, <2>2, SendControlType DEF SendControl, TypeOK, watch, client, super, history
<1>23. ASSUME NEW a \in Actor, PostStop(a) PROVE TypeOK'
  <2>1. monitors' \in [Actor -> SUBSET Token] /\ pc' \in [Actor -> PC]
    BY <1>23, PcFacts DEF PostStop, TypeOK
  <2>2. outbox' \in [Actor -> Seq(Actor)]
    <3>1. links[a] \in SUBSET Actor /\ {} \in SUBSET Actor
      BY DEF TypeOK
    <3>2. PICK order \in Seq(Actor) : outbox' = [outbox EXCEPT ![a] = order]
      BY <1>23, <3>1, WalkOrder DEF PostStop
    <3> QED BY <3>2 DEF TypeOK
  <2>3. oneshot' \in [Token -> {"unused", "pending", "closed"} \cup Reason]
    BY <1>23 DEF PostStop, TypeOK, Shape, ShapeOf
  <2> QED BY <1>23, <2>1, <2>2, <2>3 DEF PostStop, TypeOK, chans, client, super, history
<1>24. ASSUME NEW a \in Actor, Unregister(a) PROVE TypeOK'
  <2>1. registry' \subseteq Actor /\ pc' \in [Actor -> PC] /\ inFlight' \in [Actor -> Nat]
    BY <1>24, PcFacts DEF Unregister, TypeOK
  <2> QED BY <1>24, <2>1, DropTaskType DEF Unregister, TypeOK, client, super, history
<1>25. ASSUME NEW a \in Actor, Abort(a) PROVE TypeOK'
  <2>1. pc' \in [Actor -> PC] /\ outbox' \in [Actor -> Seq(Actor)]
    BY <1>25, PcFacts DEF Abort, TypeOK
  <2> QED BY <1>25, <2>1, DropTaskType DEF Abort, TypeOK, client, super, history
<1>26. ASSUME SupervisorRecv PROVE TypeOK'
  <2>1. signals' \in Seq(Actor) /\ Len(signals') <= SigCap
    <3>1. signals \in Seq(Actor) /\ signals # <<>> /\ signals' = Tail(signals) /\ Len(signals) <= SigCap
      BY <1>26 DEF SupervisorRecv, TypeOK
    <3> QED BY <3>1, HeadTail, ConstantsAssumption
  <2> QED BY <1>26, <2>1 DEF SupervisorRecv, TypeOK, chans, watch, client, history
<1>27. ASSUME SupervisorGone PROVE TypeOK'
  <2>1. signals' \in Seq(Actor) /\ Len(signals') <= SigCap
    BY <1>27, ConstantsAssumption DEF SupervisorGone
  <2> QED BY <1>27, <2>1 DEF SupervisorGone, TypeOK, chans, watch, client, history
<1>28. CASE UNCHANGED vars
  BY <1>28 DEF vars, TypeOK, chans, watch, client, super, history
<1> QED
  BY <1>1, <1>3, <1>4, <1>5, <1>6, <1>7, <1>8, <1>9, <1>10, <1>11, <1>12, <1>13, <1>14, <1>15, <1>16,
     <1>17, <1>18, <1>19, <1>20, <1>21, <1>22, <1>23, <1>24, <1>25, <1>26, <1>27, <1>28
     DEF Next, Client, Step, TakeEnvelope

TypeInv == TypeOK /\ Shape /\ InFlightExact

LEMMA TypeInvInit == Init => TypeInv
BY TypeInit, ShapeInit DEF TypeInv

LEMMA TypeInvStep == TypeInv /\ [Next]_vars => TypeInv'
BY TypeStep, ShapeStep, InFlightStep DEF TypeInv

\* Types, shape and in-flight counts, on which every result below rests.
LEMMA TypeInvHolds == Spec => []TypeInv
<1> QED BY TypeInvInit, TypeInvStep, PTL DEF Spec

\* ActorRuntime.TypeOK: every variable keeps its type and neither a mailbox, a
\* control channel nor the signal channel grows past its capacity, whatever the
\* actors, the capacities and the calls (run_actor, ActorRef, registry.rs).
THEOREM TypeCorrect == Spec => []TypeOK
<1>1. TypeInv => TypeOK
  BY DEF TypeInv
<1> QED BY <1>1, TypeInvHolds, PTL

\* ActorRuntime.InFlightExact: StatsCell::in_flight is the number of running
\* handles of every task that was not dropped, on each of the paths out of
\* handle_message, so it never underflows.
THEOREM InFlightIsExact == Spec => []InFlightExact
<1>1. TypeInv => InFlightExact
  BY DEF TypeInv
<1> QED BY <1>1, TypeInvHolds, PTL

-----------------------------------------------------------------------------
(* The life cycle of a task, and the signals to the supervisor             *)

\* How a step moves the task it belongs to: run_actor leaves its loop once, and
\* the exit reason it leaves with is never replaced.
LifeCycle(a) ==
    \/ pc'[a] = pc[a] /\ reason'[a] = reason[a]
    \/ /\ reason'[a] = reason[a]
       /\ \/ pc[a] = "unborn" /\ pc'[a] = "pre_start"
          \/ pc[a] \in {"pre_start"} \cup Loop /\ pc'[a] \in Loop
          \/ pc[a] = "pre_start" /\ pc'[a] = "exited"
          \/ pc[a] = "post_stop" /\ pc'[a] = "propagate"
          \/ pc[a] = "propagate" /\ pc'[a] = "exited"
          \/ pc[a] \in Live /\ pc'[a] = "aborted"
          \/ NotifySupervisor(a) /\ pc'[a] = "post_stop"
    \/ pc[a] \in Loop /\ pc'[a] = "post_stop" /\ reason'[a] \in Reason \ HandleFailure
    \/ pc[a] = "handle" /\ pc'[a] = "notify" /\ reason'[a] \in HandleFailure

\* A task moves forward through its life, and only notify_supervisor signals.
LEMMA LifeCycleStep ==
    ASSUME TypeOK, NEW a \in Actor, Client(a) \/ Step(a) \/ Abort(a)
    PROVE  /\ LifeCycle(a)
           /\ UNCHANGED <<signals, told, supUp>> \/ NotifySupervisor(a)
<1> DEFINE Quiet == UNCHANGED <<signals, told, supUp>>
<1> USE DEF LifeCycle, Loop
<1>1. pc \in [Actor -> PC] /\ reason \in [Actor -> {"none"} \cup Reason]
  BY DEF TypeOK
<1>2. CASE Spawn(a)
  BY <1>1, <1>2 DEF Spawn, super
<1>3. ASSUME NEW e, Post(a, e) PROVE LifeCycle(a) /\ Quiet
  BY <1>3 DEF Post, super
<1>4. ASSUME NEW t, MonitorClosed(a, t) PROVE LifeCycle(a) /\ Quiet
  BY <1>4 DEF MonitorClosed, super
<1>5. CASE DropRefs(a)
  BY <1>5 DEF DropRefs, super
<1>6. CASE PreStartOk(a) \/ ControlPending(a) \/ Park(a) \/ PreStartErr(a)
  BY <1>1, <1>6 DEF PreStartOk, ControlPending, Park, PreStartErr, super
<1>7. CASE MailboxClosed(a)
  BY <1>1, <1>7 DEF MailboxClosed, Break, super, Reason, HandleFailure
<1>8. CASE RecvLink(a)
  BY <1>1, <1>8 DEF RecvLink, TakeControl, InsertLink, super
<1>9. CASE RecvLinkedExit(a)
  <2>1. \/ UNCHANGED <<pc, reason>>
        \/ Break(a, "Linked", "post_stop")
    BY <1>9, Zenon DEF RecvLinkedExit
  <2> QED BY <1>1, <1>9, <2>1 DEF RecvLinkedExit, TakeControl, Break, super, Reason, HandleFailure
<1>10. CASE TakeMsg(a) \/ TakeUnlink(a) \/ TakeMonitor(a) \/ TakeDemonitor(a)
  BY <1>1, <1>10 DEF TakeMsg, TakeUnlink, TakeMonitor, TakeDemonitor, Take, super
<1>11. CASE TakeLink(a)
  BY <1>1, <1>11 DEF TakeLink, InsertLink, Take, super
<1>12. CASE TakeUpgrade(a)
  BY <1>1, <1>12 DEF TakeUpgrade, Take, Break, super, Reason, HandleFailure
<1>13. CASE TakeStop(a) \/ TakeKill(a)
  BY <1>1, <1>13 DEF TakeStop, TakeKill, Take, Break, super, Reason, HandleFailure
<1>14. CASE HandleOk(a) \/ HandleErr(a) \/ HandleTimeout(a)
  BY <1>1, <1>14 DEF HandleOk, HandleErr, HandleTimeout, LeaveHandle, Break, super, HandleFailure
<1>15. CASE NotifySupervisor(a)
  BY <1>1, <1>15 DEF NotifySupervisor
<1>16. CASE PostStop(a)
  BY <1>1, <1>16 DEF PostStop, super
<1>17. CASE SendReverseLink(a) \/ Propagate(a)
  BY <1>1, <1>17 DEF SendReverseLink, Propagate, SendControl, super
<1>18. CASE Unregister(a)
  BY <1>1, <1>18 DEF Unregister, super
<1>19. CASE Abort(a)
  BY <1>1, <1>19 DEF Abort, Open, super
<1> HIDE DEF LifeCycle, Loop
<1> QED
  BY <1>2, <1>3, <1>4, <1>5, <1>6, <1>7, <1>8, <1>9, <1>10, <1>11, <1>12, <1>13, <1>14, <1>15,
     <1>16, <1>17, <1>18, <1>19
     DEF Client, Step, TakeEnvelope, Request, Link, Monitor

\* FailureSignalledOnce, made inductive: an actor whose failure was signalled is
\* past notify_supervisor for good, so it cannot come back to it.
SignalledOf(a) ==
    /\ told[a] <= 1
    /\ told[a] # 0 => /\ a \in Supervised /\ reason[a] \in HandleFailure
                      /\ pc[a] \in {"post_stop", "propagate", "exited", "aborted"}
    /\ /\ a \in Supervised /\ supUp /\ reason[a] \in HandleFailure
       /\ pc[a] \in {"post_stop", "propagate", "exited"}
       => told[a] # 0

Signalled == \A a \in Actor : SignalledOf(a)

LEMMA SignalledInit == Init => Signalled
BY DEF Init, Signalled, SignalledOf

\* A signal is sent on leaving notify_supervisor, which a task passes once.
LEMMA SignalledStep == TypeInv /\ Signalled /\ [Next]_vars => Signalled'
<1> SUFFICES ASSUME TypeInv, Signalled, [Next]_vars PROVE \A b \in Actor : SignalledOf(b)'
  BY DEF Signalled
<1>1. ASSUME NEW a \in Actor, Client(a) \/ Step(a) \/ Abort(a), NEW b \in Actor PROVE SignalledOf(b)'
  <2>1. SignalledOf(b) /\ TypeOK /\ ShapeOf(b)
    BY DEF Signalled, TypeInv, Shape
  <2>2. CASE NotifySupervisor(a)
    <3>1. supUp' = supUp /\ pc[a] = "notify" /\ pc' = [pc EXCEPT ![a] = "post_stop"] /\ reason' = reason
          /\ IF SupervisorOf(a) THEN told' = [told EXCEPT ![a] = @ + 1] ELSE told' = told
      BY <2>2 DEF NotifySupervisor
    <3>2. a \in registry /\ reason[a] \in HandleFailure
      BY <3>1 DEF TypeInv, Shape, ShapeOf, Live, Exiting
    <3>3. told \in [Actor -> Nat] /\ pc \in [Actor -> PC]
      BY <2>1 DEF TypeOK
    <3>4. CASE b = a
      <4>1. told[a] = 0 /\ pc'[a] = "post_stop"
        BY <3>1, <3>3, <1>1 DEF Signalled, SignalledOf
      <4> QED BY <2>1, <3>1, <3>2, <3>3, <3>4, <4>1 DEF SignalledOf, SupervisorOf
    <3>5. CASE b # a
      <4>1. told'[b] = told[b] /\ pc'[b] = pc[b]
        BY <3>1, <3>3, <3>5
      <4> QED BY <2>1, <3>1, <4>1 DEF SignalledOf
    <3> QED BY <3>4, <3>5
  <2>3. CASE ~NotifySupervisor(a) /\ b = a
    <3>1. LifeCycle(b) /\ told' = told /\ supUp' = supUp
      BY <1>1, <2>1, <2>3, LifeCycleStep
    <3> QED BY <2>1, <2>3, <3>1 DEF LifeCycle, SignalledOf, ShapeOf, Loop, Live, Exiting, HandleFailure
  <2>4. CASE ~NotifySupervisor(a) /\ b # a
    <3>1. Untouched(b) /\ told' = told /\ supUp' = supUp
      BY <1>1, <2>1, <2>4, Locality, LifeCycleStep
    <3> QED BY <2>1, <3>1 DEF Untouched, SignalledOf
  <2> QED BY <2>2, <2>3, <2>4
<1>2. ASSUME NEW b \in Actor, SupervisorRecv \/ SupervisorGone \/ UNCHANGED vars PROVE SignalledOf(b)'
  BY <1>2 DEF SupervisorRecv, SupervisorGone, vars, super, Signalled, SignalledOf
<1> QED BY <1>1, <1>2 DEF Next

\* ActorRuntime.FailureSignalledOnce: past notify_supervisor every failed handle of
\* a supervised actor has been signalled while the supervisor lives, nothing
\* else ever is, and no failure is signalled a second time.
THEOREM FailureIsSignalledOnce == Spec => []FailureSignalledOnce
<1>1. Init => TypeInv /\ Signalled
  BY TypeInvInit, SignalledInit
<1>2. TypeInv /\ Signalled /\ [Next]_vars => TypeInv' /\ Signalled'
  BY TypeInvStep, SignalledStep
<1>3. TypeInv /\ Signalled => FailureSignalledOnce
  <2> SUFFICES ASSUME TypeInv, Signalled, NEW a \in Actor
               PROVE  /\ /\ a \in Supervised /\ pc[a] \in {"post_stop", "propagate", "exited"}
                         /\ reason[a] \in HandleFailure /\ supUp
                         => told[a] = 1
                      /\ told[a] <= (IF a \in Supervised /\ reason[a] \in HandleFailure THEN 1 ELSE 0)
    BY ConstantsAssumption, Zenon DEF FailureSignalledOnce
  <2>1. told[a] \in Nat
    BY DEF TypeInv, TypeOK
  <2>2. SignalledOf(a)
    BY DEF Signalled
  <2> QED BY <2>1, <2>2 DEF SignalledOf
<1> QED BY <1>1, <1>2, <1>3, PTL DEF Spec

-----------------------------------------------------------------------------
(* The biased select!                                                      *)

\* ControlFirst, made inductive: once one envelope has overtaken a control
\* message, that message is still queued, and until it is taken the poll does
\* not come past the control branch again.
OvertakenOf(a) ==
    /\ late[a] <= 1
    /\ control[a] = <<>> /\ pc[a] \notin {"exited", "aborted"} => late[a] = 0
    /\ pc[a] = "mailbox" => late[a] = 0

Overtaken == \A a \in Actor : OvertakenOf(a)

LEMMA OvertakenInit == Init => Overtaken
BY DEF Init, Overtaken, OvertakenOf

\* A step of an actor lets at most one envelope pass a waiting control message.
LEMMA OvertakenLocal ==
    ASSUME TypeInv, Overtaken, NEW a \in Actor, Client(a) \/ Step(a) \/ Abort(a)
    PROVE  OvertakenOf(a)'
<1> DEFINE Goal == OvertakenOf(a)'
<1> USE DEF OvertakenOf
<1>1. /\ OvertakenOf(a) /\ pc \in [Actor -> PC] /\ late \in [Actor -> Nat]
      /\ control \in [Actor -> Seq(ControlMsg)]
  BY DEF Overtaken, TypeInv, TypeOK
<1>2. ASSUME NEW kind, Take(a, kind), pc'[a] # "mailbox" PROVE Goal
  BY <1>1, <1>2 DEF Take
<1>3. ASSUME TakeControl(a), pc'[a] # "mailbox" PROVE Goal
  BY <1>1, <1>3 DEF TakeControl
<1>4. ASSUME late'[a] = late[a], control'[a] = <<>> => control[a] = <<>>, pc'[a] # "mailbox",
             pc[a] \notin {"exited", "aborted"}
      PROVE  Goal
  BY <1>1, <1>4
<1>5. ASSUME late'[a] = late[a], pc'[a] = pc[a], control'[a] = control[a] PROVE Goal
  BY <1>1, <1>5
<1>6. CASE Spawn(a)
  BY <1>1, <1>4, <1>6 DEF Spawn, chans, history
<1>7. ASSUME NEW e, Post(a, e) PROVE Goal
  BY <1>5, <1>7 DEF Post
<1>8. ASSUME NEW t, MonitorClosed(a, t) PROVE Goal
  BY <1>5, <1>8 DEF MonitorClosed, chans, history
<1>9. CASE DropRefs(a)
  BY <1>5, <1>9 DEF DropRefs, chans, history
<1>10. CASE PreStartOk(a) \/ Park(a)
  BY <1>1, <1>4, <1>10 DEF PreStartOk, Park, chans, history
<1>11. CASE ControlPending(a)
  BY <1>1, <1>11 DEF ControlPending, chans, history
<1>12. CASE PreStartErr(a) \/ Unregister(a) \/ Abort(a)
  BY <1>1, <1>12 DEF PreStartErr, Unregister, Abort, history
<1>13. CASE MailboxClosed(a)
  BY <1>1, <1>4, <1>13 DEF MailboxClosed, Break, chans, history
<1>14. CASE RecvLink(a)
  BY <1>1, <1>3, <1>14 DEF RecvLink, TakeControl, InsertLink
<1>15. CASE RecvLinkedExit(a)
  <2>1. TakeControl(a) /\ (UNCHANGED pc \/ Break(a, "Linked", "post_stop"))
    BY <1>15, Zenon DEF RecvLinkedExit
  <2> QED BY <1>1, <1>3, <2>1 DEF TakeControl, Break
<1>16. CASE TakeMsg(a) \/ TakeUnlink(a) \/ TakeMonitor(a) \/ TakeDemonitor(a)
  BY <1>1, <1>2, <1>16 DEF TakeMsg, TakeUnlink, TakeMonitor, TakeDemonitor
<1>17. CASE TakeLink(a)
  BY <1>1, <1>2, <1>17 DEF TakeLink, InsertLink
<1>18. CASE TakeUpgrade(a) \/ TakeStop(a) \/ TakeKill(a)
  BY <1>1, <1>2, <1>18 DEF TakeUpgrade, TakeStop, TakeKill, Break
<1>19. CASE HandleOk(a) \/ HandleErr(a) \/ HandleTimeout(a)
  BY <1>1, <1>4, <1>19 DEF HandleOk, HandleErr, HandleTimeout, LeaveHandle, Break, chans, history
<1>20. CASE NotifySupervisor(a)
  BY <1>1, <1>4, <1>20 DEF NotifySupervisor, chans, history
<1>21. CASE PostStop(a)
  BY <1>1, <1>4, <1>21 DEF PostStop, chans, history
<1>22. CASE SendReverseLink(a) \/ Propagate(a)
  <2>1. PICK m \in ControlMsg : SendControl(a, m)
    BY <1>22, EnvelopeTypes DEF SendReverseLink, Propagate
  <2>2. control'[a] = control[a] \/ control'[a] = Append(control[a], m)
    BY <1>1, <2>1 DEF SendControl
  <2>3. Append(control[a], m) # <<>>
    BY <1>1, AppendType
  <2>4. /\ late'[a] = late[a] /\ pc[a] \in {"reverse_link", "propagate"}
        /\ pc'[a] \in {"control", "propagate"}
    BY <1>1, <1>22, <2>1 DEF SendReverseLink, Propagate, SendControl, history
  <2> QED BY <1>4, <2>2, <2>3, <2>4
<1> HIDE DEF OvertakenOf
<1> QED
  BY <1>6, <1>7, <1>8, <1>9, <1>10, <1>11, <1>12, <1>13, <1>14, <1>15, <1>16, <1>17, <1>18, <1>19,
     <1>20, <1>21, <1>22 DEF Client, Step, TakeEnvelope, Request, Link, Monitor

\* Steps of others only add control messages to an actor's channel.
LEMMA OvertakenStep == TypeInv /\ Overtaken /\ [Next]_vars => Overtaken'
<1> SUFFICES ASSUME TypeInv, Overtaken, [Next]_vars PROVE Overtaken'
  OBVIOUS
<1>1. ASSUME NEW a \in Actor, Client(a) \/ Step(a) \/ Abort(a) PROVE Overtaken'
  <2>1. ASSUME NEW b \in Actor \ {a} PROVE OvertakenOf(b)'
    <3>1. Untouched(b) /\ ControlStep(a, b) /\ OvertakenOf(b)
      BY <1>1, Locality DEF Overtaken, TypeInv
    <3>2. control'[b] = <<>> => control[b] = <<>>
      <4>1. control[b] \in Seq(ControlMsg)
        BY DEF TypeInv, TypeOK
      <4> QED BY <3>1, <4>1, EnvelopeTypes, AppendType DEF ControlStep
    <3> QED BY <3>1, <3>2 DEF Untouched, OvertakenOf
  <2> QED BY <1>1, <2>1, OvertakenLocal DEF Overtaken
<1>2. CASE SupervisorRecv \/ SupervisorGone \/ UNCHANGED vars
  BY <1>2 DEF SupervisorRecv, SupervisorGone, vars, chans, history, Overtaken, OvertakenOf
<1> QED BY <1>1, <1>2 DEF Next

\* ActorRuntime.ControlFirst: the biased select! of run_actor lets at most one
\* envelope overtake a waiting control message, however long both queues are.
THEOREM ControlComesFirst == Spec => []ControlFirst
<1>1. Init => TypeInv /\ Overtaken
  BY TypeInvInit, OvertakenInit
<1>2. TypeInv /\ Overtaken /\ [Next]_vars => TypeInv' /\ Overtaken'
  BY TypeInvStep, OvertakenStep
<1>3. Overtaken => ControlFirst
  BY DEF Overtaken, OvertakenOf, ControlFirst
<1> QED BY <1>1, <1>2, <1>3, PTL DEF Spec

-----------------------------------------------------------------------------
(* The senders of monitor()                                                *)

\* Task `a' holds the sender of `t', in its monitor list or in its mailbox.
Held(a, t) == t \in monitors[a] \/ t \in TokensIn(mailbox[a])

\* The step of task `a' creates no sender and lets go of none whose receiver
\* keeps waiting.
Releases(a) ==
    \A t \in Token :
        /\ Held(a, t)' => Held(a, t)
        /\ oneshot'[t] = "unused" => oneshot[t] = "unused"
        /\ oneshot'[t] = "pending" =>
             oneshot[t] = "pending" /\ (Held(a, t) => Held(a, t)' /\ (Open(a) => Open(a)'))

LEMMA TokensAppend ==
    ASSUME NEW q \in Seq(Envelope), NEW e \in Envelope, NEW t \in Token
    PROVE  /\ t \in TokensIn(Append(q, e)) <=> t \in TokensIn(q) \/ e = [kind |-> "Monitor", token |-> t]
           /\ e.kind # "Monitor" => (t \in TokensIn(Append(q, e)) <=> t \in TokensIn(q))
<1>1. e = [kind |-> "Monitor", token |-> t] => e.kind = "Monitor"
  OBVIOUS
<1> QED BY <1>1, ContainsAppend DEF TokensIn

LEMMA TokensTail ==
    ASSUME NEW q \in Seq(Envelope), q # <<>>, NEW t \in Token
    PROVE  /\ t \in TokensIn(Tail(q)) => t \in TokensIn(q)
           /\ Head(q).kind # "Monitor" => (t \in TokensIn(q) => t \in TokensIn(Tail(q)))
           /\ Head(q).kind = "Monitor" =>
                (t \in TokensIn(q) <=> t \in TokensIn(Tail(q)) \/ t = Head(q).token)
<1>1. Head(q) = [kind |-> "Monitor", token |-> t] => Head(q).kind = "Monitor" /\ Head(q).token = t
  OBVIOUS
<1>2. Head(q) \in Envelope /\ Head(q) = q[1] /\ 1 \in 1 .. Len(q)
  OBVIOUS
<1>3. Head(q).kind = "Monitor" /\ t = Head(q).token => Head(q) = [kind |-> "Monitor", token |-> t]
  BY <1>2 DEF Envelope
<1>4. Contains(q, Head(q))
  BY <1>2 DEF Contains
<1> QED BY <1>1, <1>3, <1>4, ContainsTail DEF TokensIn

LEMMA TokensEmpty == TokensIn(<<>>) = {}
BY ContainsEmpty DEF TokensIn

\* A new sender, put into the mailbox.
LEMMA MonitorHeld ==
    ASSUME TypeOK, NEW a \in Actor, NEW t \in Token, Monitor(a, t)
    PROVE  /\ Open(a) /\ Open(a)' /\ oneshot[t] = "unused" /\ oneshot' = [oneshot EXCEPT ![t] = "pending"]
           /\ \A u \in Token : Held(a, u)' <=> Held(a, u) \/ u = t
<1>1. /\ [kind |-> "Monitor", token |-> t] \in Envelope /\ mailbox[a] \in Seq(Envelope)
      /\ mailbox'[a] = Append(mailbox[a], [kind |-> "Monitor", token |-> t])
      /\ UNCHANGED <<monitors, pc>>
  BY EnvelopeTypes DEF Monitor, Post, TypeOK
<1>2. ASSUME NEW u \in Token PROVE Held(a, u)' <=> Held(a, u) \/ u = t
  <2>1. [kind |-> "Monitor", token |-> t] = [kind |-> "Monitor", token |-> u] <=> u = t
    OBVIOUS
  <2>2. u \in TokensIn(mailbox'[a]) <=> u \in TokensIn(mailbox[a]) \/ u = t
    BY <1>1, <2>1, TokensAppend
  <2> QED BY <1>1, <2>2 DEF Held, TokensIn
<1> QED BY <1>1, <1>2 DEF Monitor, Post, Open

\* A step of a task creates a sender (monitor), keeps those it has, or settles
\* the oneshots of those it gives up.
LEMMA SenderStep ==
    ASSUME TypeInv, NEW a \in Actor, Client(a) \/ Step(a) \/ Abort(a)
    PROVE  Releases(a) \/ \E t \in Token : Monitor(a, t)
<1> DEFINE Goal == Releases(a)
<1>1. /\ pc \in [Actor -> PC] /\ mailbox \in [Actor -> Seq(Envelope)]
      /\ monitors \in [Actor -> SUBSET Token] /\ ShapeOf(a)
      /\ oneshot \in [Token -> {"unused", "pending", "closed"} \cup Reason]
  BY DEF TypeInv, TypeOK, Shape
<1>2. ASSUME UNCHANGED <<mailbox, monitors, oneshot>>, Open(a) => Open(a)' PROVE Goal
  BY <1>2 DEF Releases, Held, TokensIn
\* envelopes
<1>3. ASSUME NEW e \in Envelope, e.kind # "Monitor", Post(a, e), UNCHANGED oneshot PROVE Goal
  <2>1. mailbox'[a] = Append(mailbox[a], e) /\ UNCHANGED <<monitors, pc>>
    BY <1>1, <1>3 DEF Post
  <2>2. ASSUME NEW t \in Token PROVE Held(a, t)' <=> Held(a, t)
    <3>1. t \in TokensIn(mailbox'[a]) <=> t \in TokensIn(mailbox[a])
      BY <1>1, <1>3, <2>1, TokensAppend
    <3> QED BY <2>1, <3>1 DEF Held, TokensIn
  <2> QED BY <1>3, <2>1, <2>2 DEF Releases, Open
<1>4. ASSUME NEW kind, kind # "Monitor", Take(a, kind), UNCHANGED <<monitors, oneshot>>, Open(a)' PROVE Goal
  <2>1. mailbox[a] # <<>> /\ Head(mailbox[a]).kind # "Monitor" /\ mailbox'[a] = Tail(mailbox[a])
    BY <1>1, <1>4 DEF Take
  <2>2. ASSUME NEW t \in Token PROVE Held(a, t)' <=> Held(a, t)
    <3>1. t \in TokensIn(mailbox'[a]) <=> t \in TokensIn(mailbox[a])
      BY <1>1, <2>1, TokensTail
    <3> QED BY <1>4, <3>1 DEF Held, TokensIn
  <2> QED BY <1>4, <2>2 DEF Releases
<1>5. CASE TakeMonitor(a)
  <2>1. /\ mailbox[a] # <<>> /\ Head(mailbox[a]).kind = "Monitor" /\ mailbox'[a] = Tail(mailbox[a])
        /\ monitors'[a] = monitors[a] \cup {Head(mailbox[a]).token} /\ oneshot' = oneshot
    BY <1>1, <1>5 DEF TakeMonitor, Take
  <2>2. ASSUME NEW t \in Token PROVE Held(a, t)' <=> Held(a, t)
    <3>1. t \in TokensIn(mailbox[a]) <=> t \in TokensIn(mailbox'[a]) \/ t = Head(mailbox[a]).token
      BY <1>1, <2>1, TokensTail
    <3> QED BY <2>1, <3>1 DEF Held, TokensIn
  <2>3. Open(a)'
    BY <1>1, <1>5 DEF TakeMonitor, Open, Live, Loop
  <2> QED BY <2>1, <2>2, <2>3 DEF Releases
<1>6. CASE TakeDemonitor(a)
  <2> DEFINE gone == Removed(a, Head(mailbox[a]).observer)
  <2>1. /\ mailbox[a] # <<>> /\ Head(mailbox[a]).kind = "Demonitor" /\ mailbox'[a] = Tail(mailbox[a])
        /\ monitors'[a] = monitors[a] \ gone /\ oneshot' = Close(oneshot, gone)
    BY <1>1, <1>6 DEF TakeDemonitor, Take
  <2>2. ASSUME NEW t \in Token PROVE Held(a, t)' <=> t \in monitors[a] \ gone \/ t \in TokensIn(mailbox[a])
    <3>1. t \in TokensIn(mailbox'[a]) <=> t \in TokensIn(mailbox[a])
      BY <1>1, <2>1, TokensTail
    <3> QED BY <2>1, <3>1 DEF Held, TokensIn
  <2>3. Open(a)'
    BY <1>1, <1>6 DEF TakeDemonitor, Open, Live, Loop
  <2> QED BY <1>1, <2>1, <2>2, <2>3 DEF Releases, Held, Close
\* the end of a task
<1>7. CASE PostStop(a)
  <2>1. /\ mailbox' = mailbox /\ monitors'[a] = {} /\ reason[a] \in Reason /\ Open(a)'
        /\ oneshot' = [t \in Token |->
              IF t \in monitors[a] /\ oneshot[t] = "pending" THEN reason[a] ELSE oneshot[t]]
    BY <1>1, <1>7 DEF PostStop, ShapeOf, Open, Live, Exiting, chans
  <2>2. "pending" \notin Reason /\ "unused" \notin Reason
    BY DEF Reason, HandleFailure
  <2> QED BY <2>1, <2>2 DEF Releases, Held, TokensIn
<1>8. ASSUME NEW S, DropTask(a, S), monitors[a] \subseteq S PROVE Goal
  <2>1. /\ mailbox'[a] = <<>> /\ monitors'[a] = {} /\ oneshot' = Close(oneshot, TokensIn(mailbox[a]) \cup S)
    BY <1>1, <1>8 DEF DropTask
  <2>2. TokensIn(mailbox'[a]) = {}
    BY <2>1, TokensEmpty
  <2>3. \A t \in Token : ~Held(a, t)'
    BY <2>1, <2>2 DEF Held, TokensIn
  <2> QED BY <1>8, <2>1, <2>3 DEF Releases, Held, Close
<1>9. CASE PreStartErr(a) \/ Unregister(a) \/ Abort(a)
  <2>1. CASE PreStartErr(a)
    BY <1>1, <1>8, <2>1 DEF PreStartErr, ShapeOf
  <2>2. CASE Unregister(a) \/ Abort(a)
    BY <1>8, <2>2 DEF Unregister, Abort
  <2> QED BY <1>9, <2>1, <2>2
\* the others
<1>10. CASE Spawn(a) \/ DropRefs(a)
  BY <1>1, <1>2, <1>10 DEF Spawn, DropRefs, Open, Live, chans, watch
<1>11. ASSUME NEW e \in Envelope, Request(a, e) PROVE Goal
  BY <1>3, <1>11 DEF Request
<1>12. ASSUME NEW b \in Actor, Link(a, b) PROVE Goal
  <2>1. [kind |-> "Link", peer |-> b] \in Envelope /\ [kind |-> "Link", peer |-> b].kind # "Monitor"
    BY EnvelopeTypes
  <2> QED BY <1>3, <1>12, <2>1 DEF Link
<1>13. ASSUME NEW t \in Token, MonitorClosed(a, t) PROVE Goal
  BY <1>1, <1>13 DEF MonitorClosed, Releases, Held, TokensIn, Open, chans
<1>14. CASE PreStartOk(a) \/ ControlPending(a) \/ Park(a) \/ MailboxClosed(a)
  BY <1>1, <1>2, <1>14
     DEF PreStartOk, ControlPending, Park, MailboxClosed, Break, Open, Live, Loop, Exiting, chans, watch
<1>15. CASE RecvLink(a)
  BY <1>1, <1>2, <1>15 DEF RecvLink, InsertLink, Open, Live, Loop, watch
<1>16. CASE RecvLinkedExit(a)
  <2>1. UNCHANGED <<mailbox, watch>> /\ (UNCHANGED pc \/ Break(a, "Linked", "post_stop"))
    BY <1>16, Zenon DEF RecvLinkedExit
  <2> QED BY <1>1, <1>2, <2>1 DEF Break, Open, Live, Exiting, watch
<1>17. CASE TakeMsg(a) \/ TakeUnlink(a)
  BY <1>1, <1>4, <1>17 DEF TakeMsg, TakeUnlink, Open, Live, Loop, watch
<1>18. CASE TakeLink(a)
  BY <1>1, <1>4, <1>18 DEF TakeLink, InsertLink, Open, Live, Loop, watch
<1>19. CASE TakeUpgrade(a) \/ TakeStop(a) \/ TakeKill(a)
  BY <1>1, <1>4, <1>19 DEF TakeUpgrade, TakeStop, TakeKill, Break, Open, Live, Loop, Exiting, watch
<1>20. CASE HandleOk(a) \/ HandleErr(a) \/ HandleTimeout(a)
  BY <1>1, <1>2, <1>20
     DEF HandleOk, HandleErr, HandleTimeout, LeaveHandle, Break, Open, Live, Loop, Exiting, chans, watch
<1>21. CASE NotifySupervisor(a)
  BY <1>1, <1>2, <1>21 DEF NotifySupervisor, Open, Live, Exiting, chans, watch
<1>22. CASE SendReverseLink(a) \/ Propagate(a)
  BY <1>1, <1>2, <1>22 DEF SendReverseLink, Propagate, SendControl, Open, Live, Loop, watch
<1> HIDE DEF Goal
<1> QED
  BY <1>5, <1>6, <1>7, <1>9, <1>10, <1>11, <1>12, <1>13, <1>14, <1>15, <1>16, <1>17, <1>18, <1>19,
     <1>20, <1>21, <1>22 DEF Goal, Client, Step, TakeEnvelope

\* PendingMonitorIsHeld, made inductive: a sender is nowhere before monitor() made
\* it, and never in two tasks, whether its receiver still waits or not.
SenderOf(t) ==
    /\ oneshot[t] = "unused" => \A a \in Actor : ~Held(a, t)
    /\ \A a, b \in Actor : Held(a, t) /\ Held(b, t) => a = b
    /\ oneshot[t] = "pending" => \E a \in Actor : Open(a) /\ Held(a, t)

Senders == \A t \in Token : SenderOf(t)

LEMMA SendersInit == Init => Senders
BY TokensEmpty DEF Init, Senders, SenderOf, Held

\* Every pending monitor keeps exactly one holder, and that holder runs.
LEMMA SendersStep == TypeInv /\ Senders /\ [Next]_vars => Senders'
<1> SUFFICES ASSUME TypeInv, Senders, [Next]_vars PROVE Senders'
  OBVIOUS
<1>1. ASSUME NEW a \in Actor, Client(a) \/ Step(a) \/ Abort(a), NEW t \in Token PROVE SenderOf(t)'
  <2>1. SenderOf(t) /\ TypeOK
    BY DEF Senders, TypeInv
  <2>2. ASSUME NEW b \in Actor \ {a} PROVE (Held(b, t)' <=> Held(b, t)) /\ (Open(b)' <=> Open(b))
    <3>1. Untouched(b)
      BY <1>1, <2>1, Locality
    <3> QED BY <3>1 DEF Untouched, Held, TokensIn, Open
  <2>3. CASE Releases(a)
    <3>1. /\ Held(a, t)' => Held(a, t)
          /\ oneshot'[t] = "unused" => oneshot[t] = "unused"
          /\ oneshot'[t] = "pending" =>
               oneshot[t] = "pending" /\ (Held(a, t) => Held(a, t)' /\ (Open(a) => Open(a)'))
      BY <2>3 DEF Releases
    <3>2. \A b \in Actor : Held(b, t)' => Held(b, t)
      BY <2>2, <3>1
    <3>3. oneshot'[t] = "unused" => \A b \in Actor : ~Held(b, t)'
      BY <2>1, <3>1, <3>2 DEF SenderOf
    <3>4. \A b, c \in Actor : Held(b, t)' /\ Held(c, t)' => b = c
      BY <2>1, <3>2 DEF SenderOf
    <3>5. ASSUME oneshot'[t] = "pending" PROVE \E b \in Actor : Open(b)' /\ Held(b, t)'
      <4>1. PICK b \in Actor : Open(b) /\ Held(b, t)
        BY <2>1, <3>1, <3>5 DEF SenderOf
      <4>2. Open(b)' /\ Held(b, t)'
        BY <2>2, <3>1, <3>5, <4>1
      <4> QED BY <4>2
    <3> QED BY <3>3, <3>4, <3>5 DEF SenderOf
  <2>4. ASSUME NEW u \in Token, Monitor(a, u) PROVE SenderOf(t)'
    <3>1. /\ Open(a) /\ Open(a)' /\ oneshot[u] = "unused" /\ oneshot' = [oneshot EXCEPT ![u] = "pending"]
          /\ Held(a, t)' <=> Held(a, t) \/ t = u
      BY <2>1, <2>4, MonitorHeld
    <3>2. CASE t = u
      <4>1. \A b \in Actor : ~Held(b, t)
        BY <2>1, <3>1, <3>2 DEF SenderOf
      <4>2. \A b \in Actor : Held(b, t)' <=> b = a
        BY <2>2, <3>1, <3>2, <4>1
      <4>3. oneshot'[t] = "pending"
        BY <2>1, <3>1, <3>2 DEF TypeOK
      <4> QED BY <3>1, <4>2, <4>3 DEF SenderOf
    <3>3. CASE t # u
      <4>1. oneshot'[t] = oneshot[t]
        BY <2>1, <3>1, <3>3 DEF TypeOK
      <4>2. \A b \in Actor : (Held(b, t)' <=> Held(b, t)) /\ (Open(b)' <=> Open(b))
        BY <2>2, <3>1, <3>3
      <4> QED BY <2>1, <4>1, <4>2 DEF SenderOf
    <3> QED BY <3>2, <3>3
  <2> QED BY <1>1, <2>3, <2>4, SenderStep
<1>2. CASE SupervisorRecv \/ SupervisorGone \/ UNCHANGED vars
  BY <1>2 DEF SupervisorRecv, SupervisorGone, vars, chans, watch, Senders, SenderOf, Held, TokensIn, Open
<1> QED BY <1>1, <1>2 DEF Next, Senders

\* ActorRuntime.PendingMonitorIsHeld: as long as the receiver of a monitor() call
\* waits, exactly one task holds its sender and that task is running: no
\* observer is left waiting for an actor that is gone.
THEOREM PendingMonitorHasHolder == Spec => []PendingMonitorIsHeld
<1>1. Init => TypeInv /\ Senders
  BY TypeInvInit, SendersInit
<1>2. TypeInv /\ Senders /\ [Next]_vars => TypeInv' /\ Senders'
  BY TypeInvStep, SendersStep
<1>3. Senders => PendingMonitorIsHeld
  BY DEF Senders, SenderOf, Held, PendingMonitorIsHeld
<1> QED BY <1>1, <1>2, <1>3, PTL DEF Spec

\* What may become of a sender that a task has stored.
LEMMA StoredStep ==
    TypeInv /\ Senders /\ [Next]_vars =>
    [\A a \in Actor, t \in Token :
         t \in monitors[a] /\ oneshot[t] # oneshot'[t] =>
            \/ oneshot'[t] = reason'[a]
            \/ pc'[a] = "aborted"
            \/ /\ mailbox'[a] = Tail(mailbox[a])
               /\ Head(mailbox[a]) = [kind |-> "Demonitor", observer |-> ObserverOf[t]]]_vars
<1> SUFFICES ASSUME TypeInv, Senders, Next, NEW a \in Actor, NEW t \in Token,
                    t \in monitors[a], oneshot[t] # oneshot'[t]
             PROVE  \/ oneshot'[t] = reason'[a]
                    \/ pc'[a] = "aborted"
                    \/ /\ mailbox'[a] = Tail(mailbox[a])
                       /\ Head(mailbox[a]) = [kind |-> "Demonitor", observer |-> ObserverOf[t]]
  OBVIOUS
<1>1. /\ \A c \in Actor : Held(c, t) => c = a
      /\ oneshot[t] # "unused" /\ ShapeOf(a) /\ TypeOK
  BY DEF Senders, SenderOf, Held, TypeInv, Shape
<1>2. oneshot \in [Token -> {"unused", "pending", "closed"} \cup Reason] /\ pc \in [Actor -> PC]
      /\ mailbox \in [Actor -> Seq(Envelope)]
  BY <1>1 DEF TypeOK
<1>3. ASSUME NEW c \in Actor, NEW S, DropTask(c, S), S \subseteq monitors[c] PROVE c = a
  BY <1>1, <1>3 DEF DropTask, Close, Held
<1>4. ASSUME NEW c \in Actor, PreStartErr(c) PROVE FALSE
  BY <1>1, <1>3, <1>4 DEF PreStartErr, ShapeOf
<1>5. ASSUME NEW c \in Actor, Unregister(c) PROVE FALSE
  BY <1>1, <1>3, <1>5 DEF Unregister, ShapeOf
<1>6. ASSUME NEW c \in Actor, Abort(c) PROVE pc'[a] = "aborted"
  BY <1>2, <1>3, <1>6 DEF Abort
<1>7. ASSUME NEW c \in Actor, NEW u \in Token, Monitor(c, u) \/ MonitorClosed(c, u) PROVE FALSE
  BY <1>1, <1>2, <1>7 DEF Monitor, MonitorClosed
<1>8. ASSUME NEW c \in Actor, TakeDemonitor(c)
      PROVE  /\ mailbox'[a] = Tail(mailbox[a])
             /\ Head(mailbox[a]) = [kind |-> "Demonitor", observer |-> ObserverOf[t]]
  <2>1. t \in Removed(c, Head(mailbox[c]).observer)
    BY <1>8 DEF TakeDemonitor, Close
  <2>2. c = a /\ ObserverOf[t] = Head(mailbox[a]).observer
    BY <1>1, <2>1 DEF Removed, Held
  <2>3. mailbox[a] # <<>> /\ Head(mailbox[a]).kind = "Demonitor" /\ mailbox'[a] = Tail(mailbox[a])
    BY <1>2, <1>8, <2>2 DEF TakeDemonitor, Take
  <2>4. Head(mailbox[a]) \in Envelope
    BY <1>2, <2>3, HeadTail
  <2> QED BY <2>2, <2>3, <2>4 DEF Envelope
<1>9. ASSUME NEW c \in Actor, PostStop(c) PROVE oneshot'[t] = reason'[a]
  <2>1. c = a
    BY <1>1, <1>9 DEF PostStop, Held
  <2> QED BY <1>9, <2>1 DEF PostStop
<1>10. ASSUME UNCHANGED oneshot PROVE FALSE
  BY <1>10
<1>11. ASSUME NEW c \in Actor, Client(c) PROVE FALSE
  BY <1>7, <1>10, <1>11 DEF Client, Spawn, Request, Link, DropRefs, watch
<1>12. ASSUME NEW c \in Actor, TakeEnvelope(c) PROVE TakeDemonitor(c)
  BY <1>10, <1>12 DEF TakeEnvelope, TakeMsg, TakeLink, TakeUnlink, TakeMonitor, TakeUpgrade, TakeStop,
                      TakeKill, watch
<1>13. ASSUME NEW c \in Actor, Step(c) PROVE PreStartErr(c) \/ Unregister(c) \/ TakeEnvelope(c) \/ PostStop(c)
  BY <1>10, <1>13 DEF Step, PreStartOk, RecvLink, RecvLinkedExit, ControlPending, Park, MailboxClosed,
                      HandleOk, HandleErr, HandleTimeout, LeaveHandle, NotifySupervisor, SendReverseLink,
                      Propagate, SendControl, watch
<1>14. ~SupervisorRecv /\ ~SupervisorGone
  BY <1>10 DEF SupervisorRecv, SupervisorGone, watch
<1> QED BY <1>4, <1>5, <1>6, <1>8, <1>9, <1>11, <1>12, <1>13, <1>14 DEF Next

\* ActorRuntime.StoredMonitorIsNotified: finish_actor reaches every stored monitor;
\* a stored sender changes only by being sent the exit reason of its task, by a
\* Demonitor of its observer, or with a dropped task.
THEOREM StoredMonitorNotified == Spec => StoredMonitorIsNotified
<1>1. Init => TypeInv /\ Senders
  BY TypeInvInit, SendersInit
<1>2. TypeInv /\ Senders /\ [Next]_vars => TypeInv' /\ Senders'
  BY TypeInvStep, SendersStep
<1> QED BY <1>1, <1>2, StoredStep, PTL DEF Spec, StoredMonitorIsNotified

-----------------------------------------------------------------------------
(* Links                                                                   *)

LEMMA ContainsHead ==
    ASSUME NEW S, NEW q \in Seq(S), q # <<>>
    PROVE  Contains(q, Head(q))
<1>1. Head(q) = q[1] /\ 1 \in 1 .. Len(q)
  OBVIOUS
<1> QED BY <1>1 DEF Contains

\* Whatever is in a mailbox was there before or has just been posted.
LEMMA MailboxStep ==
    ASSUME TypeInv, NEW a \in Actor, Client(a) \/ Step(a) \/ Abort(a), NEW e, Contains(mailbox'[a], e)
    PROVE  \/ Contains(mailbox[a], e)
           \/ e \in Envelope /\ Request(a, e)
           \/ \E b \in Actor : Link(a, b) /\ e = [kind |-> "Link", peer |-> b]
           \/ \E t \in Token : e = [kind |-> "Monitor", token |-> t]
<1> DEFINE Goal == \/ Contains(mailbox[a], e)
                   \/ e \in Envelope /\ Request(a, e)
                   \/ \E b \in Actor : Link(a, b) /\ e = [kind |-> "Link", peer |-> b]
                   \/ \E t \in Token : e = [kind |-> "Monitor", token |-> t]
<1>1. mailbox \in [Actor -> Seq(Envelope)]
  BY DEF TypeInv, TypeOK
<1>2. ASSUME mailbox' = mailbox PROVE Goal
  BY <1>2
<1>3. ASSUME NEW x \in Envelope, Post(a, x) PROVE Contains(mailbox[a], e) \/ x = e
  <2>1. mailbox'[a] = Append(mailbox[a], x)
    BY <1>1, <1>3 DEF Post
  <2> QED BY <1>1, <2>1, ContainsAppend
<1>4. ASSUME NEW kind, Take(a, kind) PROVE Contains(mailbox[a], e)
  <2>1. mailbox'[a] = Tail(mailbox[a]) /\ mailbox[a] # <<>>
    BY <1>1, <1>4 DEF Take
  <2> QED BY <1>1, <2>1, ContainsTail
<1>5. ASSUME NEW S, DropTask(a, S) PROVE FALSE
  <2>1. mailbox'[a] = <<>>
    BY <1>1, <1>5 DEF DropTask
  <2> QED BY <2>1, ContainsEmpty
<1>6. ASSUME NEW x \in Envelope, Request(a, x) PROVE Goal
  BY <1>3, <1>6 DEF Request
<1>7. ASSUME NEW b \in Actor, Link(a, b) PROVE Goal
  BY <1>3, <1>7, EnvelopeTypes DEF Link
<1>8. ASSUME NEW t \in Token, Monitor(a, t) PROVE Goal
  BY <1>3, <1>8, EnvelopeTypes DEF Monitor
<1>9. ASSUME PreStartErr(a) \/ Unregister(a) \/ Abort(a) PROVE Goal
  BY <1>5, <1>9 DEF PreStartErr, Unregister, Abort
<1>10. ASSUME TakeEnvelope(a) PROVE Goal
  BY <1>4, <1>10 DEF TakeEnvelope, TakeMsg, TakeLink, TakeUnlink, TakeMonitor, TakeDemonitor, TakeUpgrade,
                     TakeStop, TakeKill
<1>11. ASSUME Spawn(a) \/ DropRefs(a) PROVE Goal
  BY <1>2, <1>11 DEF Spawn, DropRefs, chans
<1>12. ASSUME NEW t, MonitorClosed(a, t) PROVE Goal
  BY <1>2, <1>12 DEF MonitorClosed, chans
<1>13. ASSUME PreStartOk(a) \/ RecvLink(a) \/ RecvLinkedExit(a) \/ ControlPending(a) \/ Park(a) \/ MailboxClosed(a) PROVE Goal
  BY <1>2, <1>13 DEF PreStartOk, RecvLink, RecvLinkedExit, ControlPending, Park, MailboxClosed, chans
<1>14. ASSUME HandleOk(a) \/ HandleErr(a) \/ HandleTimeout(a) \/ NotifySupervisor(a) PROVE Goal
  BY <1>2, <1>14 DEF HandleOk, HandleErr, HandleTimeout, LeaveHandle, NotifySupervisor, chans
<1>15. ASSUME SendReverseLink(a) \/ PostStop(a) \/ Propagate(a) PROVE Goal
  BY <1>2, <1>15 DEF SendReverseLink, PostStop, Propagate, SendControl, chans
<1> HIDE DEF Goal
<1>16. Goal
  BY <1>6, <1>7, <1>8, <1>9, <1>10, <1>11, <1>12, <1>13, <1>14, <1>15 DEF Client, Step
<1> QED BY <1>16 DEF Goal

\* The step leaves the link set, the channel and the outgoing messages of `a' alone.
LinksKept(a) ==
    /\ links'[a] = links[a] /\ control'[a] = control[a] /\ outbox'[a] = outbox[a]
    /\ trapped'[a] = trapped[a]
    /\ pc[a] = "reverse_link" => pc'[a] = "reverse_link"
    /\ pc'[a] \in {"propagate", "exited", "reverse_link"} => pc'[a] = pc[a]

\* The steps that change link sets, walks or link messages; all others keep
\* them.
LEMMA LinkStep ==
    ASSUME TypeInv, NEW a \in Actor, Client(a) \/ Step(a) \/ Abort(a)
    PROVE  \/ RecvLink(a) \/ RecvLinkedExit(a) \/ TakeLink(a) \/ TakeUnlink(a)
           \/ SendReverseLink(a) \/ PostStop(a) \/ Propagate(a)
           \/ PreStartErr(a) \/ Unregister(a) \/ Abort(a)
           \/ LinksKept(a)
<1> DEFINE Goal == LinksKept(a)
<1>1. pc \in [Actor -> PC]
  BY DEF TypeInv, TypeOK
<1>2. CASE Spawn(a) \/ DropRefs(a)
  BY <1>1, <1>2 DEF LinksKept, Spawn, DropRefs, chans, history
<1>3. ASSUME NEW e, Post(a, e) PROVE Goal
  BY <1>3 DEF LinksKept, Post
<1>4. ASSUME NEW t, MonitorClosed(a, t) PROVE Goal
  BY <1>4 DEF LinksKept, MonitorClosed, chans, history
<1>5. CASE PreStartOk(a) \/ ControlPending(a) \/ Park(a) \/ MailboxClosed(a)
  BY <1>1, <1>5 DEF LinksKept, PreStartOk, ControlPending, Park, MailboxClosed, Break, chans, history
<1>6. CASE TakeMsg(a) \/ TakeMonitor(a) \/ TakeDemonitor(a)
  BY <1>1, <1>6 DEF LinksKept, TakeMsg, TakeMonitor, TakeDemonitor, Take
<1>7. CASE TakeUpgrade(a) \/ TakeStop(a) \/ TakeKill(a)
  BY <1>1, <1>7 DEF LinksKept, TakeUpgrade, TakeStop, TakeKill, Take, Break
<1>8. CASE HandleOk(a) \/ HandleErr(a) \/ HandleTimeout(a) \/ NotifySupervisor(a)
  BY <1>1, <1>8 DEF LinksKept, HandleOk, HandleErr, HandleTimeout, LeaveHandle, NotifySupervisor, Break,
                    chans, history
<1> QED BY <1>2, <1>3, <1>4, <1>5, <1>6, <1>7, <1>8 DEF Client, Step, TakeEnvelope, Request, Link, Monitor

\* Every actor that a link set, a queued Link or a control message names has been
\* spawned, and without a call of unlink() no Unlink is queued.
NamedOf(a) ==
    /\ \A b \in links[a] : pc[b] # "unborn"
    /\ \A e : Contains(mailbox[a], e) /\ e.kind = "Link" => pc[e.peer] # "unborn"
    /\ \A m : Contains(control[a], m) => pc[m.peer] # "unborn"
    /\ \A e : Contains(mailbox[a], e) /\ Budget["Unlink"] = 0 => e.kind # "Unlink"

Named == \A a \in Actor : NamedOf(a)

LEMMA NamedInit == Init => Named
BY ContainsEmpty DEF Init, Named, NamedOf

\* Births are for ever.
LEMMA Born ==
    ASSUME TypeInv, [Next]_vars, NEW b, pc[b] # "unborn", b \in Actor
    PROVE  pc'[b] # "unborn"
<1>1. ASSUME NEW a \in Actor, Client(a) \/ Step(a) \/ Abort(a) PROVE pc'[b] # "unborn"
  <2>1. CASE b = a
    <3>1. LifeCycle(b)
      BY <1>1, <2>1, LifeCycleStep DEF TypeInv
    <3> QED BY <3>1 DEF LifeCycle, Loop
  <2>2. CASE b # a
    BY <1>1, <2>2, Locality DEF Untouched, TypeInv
  <2> QED BY <2>1, <2>2
<1>2. CASE SupervisorRecv \/ SupervisorGone \/ UNCHANGED vars
  BY <1>2 DEF SupervisorRecv, SupervisorGone, vars
<1> QED BY <1>1, <1>2 DEF Next

\* A control channel holds what it held before and what this step sends to it.
LEMMA ControlContents ==
    ASSUME TypeInv, NEW a \in Actor, Client(a) \/ Step(a) \/ Abort(a), NEW b \in Actor, NEW m,
           Contains(control'[b], m)
    PROVE  Contains(control[b], m) \/ (pc[a] # "unborn" /\ m \in {LinkMsg(a), LinkedExitMsg(a)})
<1> DEFINE Goal == Contains(control[b], m) \/ (pc[a] # "unborn" /\ m \in {LinkMsg(a), LinkedExitMsg(a)})
<1>1. control \in [Actor -> Seq(ControlMsg)] /\ TypeOK
  BY DEF TypeInv, TypeOK
<1>2. ASSUME NEW x \in ControlMsg, control'[b] = Append(control[b], x) PROVE Contains(control[b], m) \/ m = x
  BY <1>1, <1>2, ContainsAppend
<1>3. CASE b # a
  <2>1. ControlStep(a, b)
    BY <1>1, <1>3, Locality
  <2> QED BY <1>2, <2>1, EnvelopeTypes DEF ControlStep
<1>4. CASE b = a
  <2>1. ASSUME TakeControl(a) PROVE Goal
    <3>1. control'[a] = Tail(control[a]) /\ control[a] # <<>>
      BY <1>1, <2>1 DEF TakeControl
    <3> QED BY <1>1, <1>4, <3>1, ContainsTail
  <2>2. ASSUME control'[a] = control[a] PROVE Goal
    BY <1>4, <2>2
  <2>3. ASSUME NEW S, DropTask(a, S) PROVE Goal
    <3>1. control'[a] = <<>>
      BY <1>1, <2>3 DEF DropTask
    <3> QED BY <1>4, <3>1, ContainsEmpty
  <2>4. ASSUME SendReverseLink(a) \/ Propagate(a) PROVE Goal
    <3>1. PICK x \in ControlMsg : /\ SendControl(a, x) /\ x \in {LinkMsg(a), LinkedExitMsg(a)}
                                 /\ pc[a] # "unborn"
      BY <2>4, EnvelopeTypes DEF SendReverseLink, Propagate
    <3>2. control'[a] = control[a] \/ control'[a] = Append(control[a], x)
      BY <1>1, <3>1 DEF SendControl
    <3> QED BY <1>2, <1>4, <2>2, <3>1, <3>2
  <2>5. ASSUME RecvLink(a) \/ RecvLinkedExit(a) PROVE Goal
    BY <2>1, <2>5 DEF RecvLink, RecvLinkedExit
  <2>6. ASSUME TakeLink(a) \/ TakeUnlink(a) \/ PostStop(a) \/ LinksKept(a) PROVE Goal
    BY <2>2, <2>6 DEF TakeLink, TakeUnlink, Take, PostStop, LinksKept, chans
  <2>7. ASSUME PreStartErr(a) \/ Unregister(a) \/ Abort(a) PROVE Goal
    BY <2>3, <2>7 DEF PreStartErr, Unregister, Abort
  <2> QED BY <2>4, <2>5, <2>6, <2>7, LinkStep
<1> QED BY <1>3, <1>4

\* What a link set gains comes from a Link, in the mailbox or the control channel.
LEMMA LinksContents ==
    ASSUME TypeInv, NEW a \in Actor, Client(a) \/ Step(a) \/ Abort(a), NEW b \in links'[a]
    PROVE  \/ b \in links[a]
           \/ \E e : Contains(mailbox[a], e) /\ e.kind = "Link" /\ e.peer = b
           \/ \E m : Contains(control[a], m) /\ m.peer = b
<1>1. /\ links \in [Actor -> SUBSET Actor] /\ mailbox \in [Actor -> Seq(Envelope)]
      /\ control \in [Actor -> Seq(ControlMsg)]
  BY DEF TypeInv, TypeOK
<1>2. CASE RecvLink(a)
  <2>1. control[a] # <<>> /\ links'[a] = links[a] \cup {Head(control[a]).peer}
    BY <1>1, <1>2 DEF RecvLink, TakeControl, InsertLink
  <2> QED BY <1>1, <2>1, ContainsHead
<1>3. CASE TakeLink(a)
  <2>1. /\ mailbox[a] # <<>> /\ Head(mailbox[a]).kind = "Link"
        /\ links'[a] = links[a] \cup {Head(mailbox[a]).peer}
    BY <1>1, <1>3 DEF TakeLink, Take, InsertLink
  <2> QED BY <1>1, <2>1, ContainsHead
<1>4. CASE TakeUnlink(a)
  BY <1>1, <1>4 DEF TakeUnlink
<1>5. CASE RecvLinkedExit(a) \/ SendReverseLink(a) \/ PostStop(a) \/ Propagate(a)
  BY <1>5 DEF RecvLinkedExit, SendReverseLink, PostStop, Propagate, SendControl
<1>6. CASE PreStartErr(a) \/ Unregister(a) \/ Abort(a) \/ LinksKept(a)
  BY <1>6 DEF PreStartErr, Unregister, Abort, LinksKept
<1> QED BY <1>2, <1>3, <1>4, <1>5, <1>6, LinkStep

\* Every link, queued Link and control message names an actor that was spawned.
LEMMA NamedStep == TypeInv /\ Named /\ [Next]_vars => Named'
<1> SUFFICES ASSUME TypeInv, Named, [Next]_vars PROVE Named'
  OBVIOUS
<1>1. TypeOK /\ TypeOK'
  BY TypeInvStep DEF TypeInv
<1>2. ASSUME NEW a \in Actor, Client(a) \/ Step(a) \/ Abort(a), NEW c \in Actor PROVE NamedOf(c)'
  <2>1. NamedOf(c)
    BY DEF Named
  <2>2. ASSUME NEW b \in links'[c] PROVE pc'[b] # "unborn"
    <3>1. links[c] \subseteq Actor /\ links'[c] \subseteq Actor
      BY <1>1 DEF TypeOK
    <3>2. pc[b] # "unborn"
      <4>1. CASE c = a
        BY <1>2, <2>1, <4>1, LinksContents DEF NamedOf
      <4>2. CASE c # a
        BY <1>1, <1>2, <2>1, <4>2, Locality DEF NamedOf, Untouched
      <4> QED BY <4>1, <4>2
    <3> QED BY <3>1, <3>2, Born
  <2>3. ASSUME NEW e, Contains(mailbox'[c], e)
        PROVE  /\ e.kind = "Link" => pc'[e.peer] # "unborn"
               /\ Budget["Unlink"] = 0 => e.kind # "Unlink"
    <3>1. e \in Envelope
      BY <1>1, <2>3, ContainsType DEF TypeOK
    <3>2. CASE Contains(mailbox[c], e)
      <4>1. e.kind = "Link" => pc[e.peer] # "unborn" /\ e.peer \in Actor
        BY <2>1, <3>1, <3>2, EnvelopeFields DEF NamedOf
      <4> QED BY <2>1, <3>2, <4>1, Born DEF NamedOf
    <3>3. ASSUME c = a, Request(a, e) PROVE e.kind # "Link" /\ (Budget["Unlink"] = 0 => e.kind # "Unlink")
      <4>1. e.kind # "Link" /\ calls[e.kind] < Budget[e.kind] /\ calls \in [CallKinds -> Nat]
        BY <1>1, <3>3 DEF Request, Post, Call, TypeOK
      <4> QED BY <4>1 DEF CallKinds
    <3>4. ASSUME NEW b \in Actor, c = a, Link(a, b), e = [kind |-> "Link", peer |-> b]
          PROVE  e.kind = "Link" /\ pc'[e.peer] # "unborn"
      <4>1. pc[b] # "unborn"
        BY <3>4 DEF Link
      <4> QED BY <3>4, <4>1, Born
    <3>5. ASSUME NEW t \in Token, e = [kind |-> "Monitor", token |-> t] PROVE e.kind = "Monitor"
      BY <3>5
    <3>6. CASE c = a
      BY <1>2, <2>3, <3>2, <3>3, <3>4, <3>5, <3>6, MailboxStep
    <3>7. CASE c # a
      <4>1. mailbox'[c] = mailbox[c]
        BY <1>1, <1>2, <3>7, Locality DEF Untouched
      <4> QED BY <2>3, <3>2, <4>1
    <3> QED BY <3>6, <3>7
  <2>4. ASSUME NEW m, Contains(control'[c], m) PROVE pc'[m.peer] # "unborn"
    <3>1. m \in ControlMsg
      BY <1>1, <2>4, ContainsType DEF TypeOK
    <3>2. pc[m.peer] # "unborn" /\ m.peer \in Actor
      <4>1. CASE Contains(control[c], m)
        BY <2>1, <3>1, <4>1 DEF NamedOf, ControlMsg
      <4>2. CASE pc[a] # "unborn" /\ m \in {LinkMsg(a), LinkedExitMsg(a)}
        BY <4>2 DEF LinkMsg, LinkedExitMsg
      <4> QED BY <1>2, <2>4, <4>1, <4>2, ControlContents
    <3> QED BY <3>2, Born
  <2> QED BY <2>2, <2>3, <2>4 DEF NamedOf
<1>3. CASE SupervisorRecv \/ SupervisorGone \/ UNCHANGED vars
  BY <1>3 DEF SupervisorRecv, SupervisorGone, vars, chans, Named, NamedOf
<1> QED BY <1>2, <1>3 DEF Next, Named

\* A control message stays queued until it is received; what was trapped stays so.
LEMMA ControlKept ==
    ASSUME TypeInv, NEW c \in Actor, Client(c) \/ Step(c) \/ Abort(c), NEW b \in Actor, Serving(b)'
    PROVE  /\ trapped[b] \subseteq trapped'[b]
           /\ \A m \in ControlMsg : Contains(control[b], m) =>
                \/ Contains(control'[b], m)
                \/ c = b /\ (RecvLink(b) \/ RecvLinkedExit(b)) /\ Head(control[b]) = m
<1> DEFINE Kept(m) == \/ Contains(control'[b], m)
                      \/ c = b /\ (RecvLink(b) \/ RecvLinkedExit(b)) /\ Head(control[b]) = m
<1>1. control \in [Actor -> Seq(ControlMsg)] /\ TypeOK /\ pc \in [Actor -> PC]
      /\ trapped \in [Actor -> SUBSET Actor]
  BY DEF TypeInv, TypeOK
<1>2. ASSUME NEW x \in ControlMsg, control'[b] = control[b] \/ control'[b] = Append(control[b], x),
             NEW m \in ControlMsg, Contains(control[b], m)
      PROVE  Contains(control'[b], m)
  <2>1. control[b] \in Seq(ControlMsg)
    BY <1>1
  <2>2. Contains(Append(control[b], x), m)
    BY <1>2, <2>1, ContainsAppend
  <2> QED BY <1>2, <2>2
<1>3. CASE c # b
  <2>1. Untouched(b) /\ ControlStep(c, b)
    BY <1>1, <1>3, Locality
  <2>2. PICK x \in ControlMsg : control'[b] = control[b] \/ control'[b] = Append(control[b], x)
    BY <2>1, EnvelopeTypes DEF ControlStep
  <2>3. ASSUME NEW m \in ControlMsg, Contains(control[b], m) PROVE Kept(m)
    BY <1>2, <2>2, <2>3
  <2> QED BY <2>1, <2>3 DEF Untouched
<1>4. CASE c = b
  <2>1. ASSUME RecvLink(b) \/ RecvLinkedExit(b), NEW m \in ControlMsg, Contains(control[b], m) PROVE Kept(m)
    <3>1. TakeControl(b)
      BY <2>1 DEF RecvLink, RecvLinkedExit
    <3>2. control'[b] = Tail(control[b]) /\ control[b] # <<>>
      BY <1>1, <3>1 DEF TakeControl
    <3>3. Head(control[b]) = m \/ Contains(Tail(control[b]), m)
      BY <1>1, <2>1, <3>2, ContainsTail
    <3> QED BY <1>4, <2>1, <3>2, <3>3
  <2>2. ASSUME TakeLink(b) \/ TakeUnlink(b) \/ PostStop(b) \/ LinksKept(b) PROVE control'[b] = control[b]
    BY <2>2 DEF TakeLink, TakeUnlink, Take, PostStop, LinksKept, chans
  <2>3. ASSUME SendReverseLink(b) \/ Propagate(b)
        PROVE  \E x \in ControlMsg : control'[b] = control[b] \/ control'[b] = Append(control[b], x)
    <3>1. PICK x \in ControlMsg : SendControl(b, x)
      BY <2>3, EnvelopeTypes DEF SendReverseLink, Propagate
    <3> QED BY <1>1, <3>1 DEF SendControl
  <2>4. ~PreStartErr(b) /\ ~Unregister(b) /\ ~Abort(b)
    BY <1>1 DEF PreStartErr, Unregister, Abort, Serving, Loop
  <2>5. ASSUME NEW m \in ControlMsg, Contains(control[b], m) PROVE Kept(m)
    <3>1. LinkMsg(b) \in ControlMsg
      BY EnvelopeTypes
    <3> QED BY <1>2, <1>4, <2>1, <2>2, <2>3, <2>4, <2>5, <3>1, LinkStep
  <2>6. trapped[b] \subseteq trapped'[b]
    <3>1. CASE RecvLinkedExit(b)
      <4>1. trapped' = trapped \/ trapped' = [trapped EXCEPT ![b] = @ \cup {Head(control[b]).peer}]
        BY <3>1, Zenon DEF RecvLinkedExit
      <4> QED BY <1>1, <4>1
    <3>2. CASE RecvLink(b) \/ TakeLink(b) \/ TakeUnlink(b) \/ SendReverseLink(b) \/ PostStop(b) \/ Propagate(b)
      BY <3>2 DEF RecvLink, TakeLink, TakeUnlink, Take, SendReverseLink, PostStop, Propagate, SendControl, history
    <3>3. CASE LinksKept(b)
      BY <3>3 DEF LinksKept
    <3> QED BY <1>4, <2>4, <3>1, <3>2, <3>3, LinkStep
  <2> QED BY <2>5, <2>6
<1> QED BY <1>3, <1>4

\* Only a spawn makes a task serve that did not serve before.
LEMMA ServingStep ==
    ASSUME TypeInv, NEW c \in Actor, Client(c) \/ Step(c) \/ Abort(c), NEW b \in Actor, Serving(b)',
           pc[b] # "unborn"
    PROVE  Serving(b)
<1>1. CASE c = b
  <2>1. LifeCycle(b)
    BY <1>1, LifeCycleStep DEF TypeInv
  <2> QED BY <2>1 DEF LifeCycle, Serving, Loop
<1>2. CASE c # b
  BY <1>2, Locality DEF Untouched, Serving, TypeInv
<1> QED BY <1>1, <1>2

\* A message to the head of the outgoing list of a task that serves is queued.
LEMMA SentToServing ==
    ASSUME TypeInv, NEW a \in Actor, NEW m \in ControlMsg, SendControl(a, m), NEW b \in Actor,
           Head(outbox[a]) = b, Serving(b)
    PROVE  Contains(control'[b], m)
<1>1. Reachable(b)
  BY DEF TypeInv, Shape, ShapeOf, Reachable, Open, Serving, Live
<1>2. control'[b] = Append(control[b], m) /\ control[b] \in Seq(ControlMsg)
  BY <1>1 DEF SendControl, TypeInv, TypeOK
<1> QED BY <1>2, ContainsAppend

\* LinkedExitDelivered, made inductive: while the set is being walked, the peers
\* not yet told are still in the outgoing list.
DeliveredTo(a, b) ==
    pc[a] \in {"propagate", "exited"} /\ ShouldPropagate(reason[a]) /\ b \in links[a] /\ Serving(b) =>
        \/ pc[a] = "propagate" /\ Contains(outbox[a], b)
        \/ Contains(control[b], LinkedExitMsg(a))
        \/ a \in trapped[b]

Delivered == \A a, b \in Actor : DeliveredTo(a, b)

LEMMA DeliveredInit == Init => Delivered
BY DEF Init, Delivered, DeliveredTo

\* A peer leaves a walk only when its LinkedExit is in its channel or it no
\* longer serves.
LEMMA DeliveredStep == TypeInv /\ Named /\ Delivered /\ [Next]_vars => Delivered'
<1> SUFFICES ASSUME TypeInv, Named, Delivered, [Next]_vars PROVE Delivered'
  OBVIOUS
<1>1. ASSUME NEW c \in Actor, Client(c) \/ Step(c) \/ Abort(c), NEW a \in Actor, NEW b \in Actor
      PROVE  DeliveredTo(a, b)'
  <2> SUFFICES ASSUME pc'[a] \in {"propagate", "exited"}, ShouldPropagate(reason'[a]), b \in links'[a],
                      Serving(b)'
               PROVE  \/ pc'[a] = "propagate" /\ Contains(outbox'[a], b)
                      \/ Contains(control'[b], LinkedExitMsg(a))
                      \/ a \in trapped'[b]
    BY DEF DeliveredTo, ShouldPropagate, Serving
  <2>1. TypeOK /\ DeliveredTo(a, b) /\ a # b /\ LinkedExitMsg(a) \in ControlMsg
    BY EnvelopeTypes DEF TypeInv, Delivered, Serving, Loop
  <2>2. /\ pc \in [Actor -> PC] /\ links \in [Actor -> SUBSET Actor] /\ outbox \in [Actor -> Seq(Actor)]
        /\ control \in [Actor -> Seq(ControlMsg)]
    BY <2>1 DEF TypeOK
  <2>3. b \in links[a] => Serving(b)
    BY <1>1, ServingStep DEF Named, NamedOf
  <2>4. /\ trapped[b] \subseteq trapped'[b]
        /\ Contains(control[b], LinkedExitMsg(a)) =>
             \/ Contains(control'[b], LinkedExitMsg(a))
             \/ c = b /\ (RecvLink(b) \/ RecvLinkedExit(b)) /\ Head(control[b]) = LinkedExitMsg(a)
    BY <1>1, <2>1, ControlKept
  <2>5. CASE c = a
    <3>1. CASE PostStop(a)
      <4>1. links[a] \in SUBSET Actor /\ b \in links[a] /\ ShouldPropagate(reason[a]) /\ pc'[a] = "propagate"
        BY <2>2, <3>1 DEF PostStop
      <4>2. PICK order \in SetToSeqs(links[a]) : outbox'[a] = order
        BY <2>2, <3>1, <4>1 DEF PostStop
      <4> QED BY <4>1, <4>2, WalkOrder
    <3>2. CASE Propagate(a)
      <4>1. /\ SendControl(a, LinkedExitMsg(a)) /\ pc'[a] = "propagate" /\ pc[a] = "propagate"
            /\ links'[a] = links[a] /\ reason'[a] = reason[a]
            /\ outbox[a] # <<>> /\ outbox'[a] = Tail(outbox[a])
        BY <2>2, <3>2 DEF Propagate, SendControl
      <4>2. ASSUME Contains(outbox[a], b) PROVE Contains(outbox'[a], b) \/ Contains(control'[b], LinkedExitMsg(a))
        <5>1. Head(outbox[a]) = b \/ Contains(Tail(outbox[a]), b)
          BY <2>2, <4>1, <4>2, ContainsTail
        <5> QED BY <2>1, <2>3, <4>1, <5>1, SentToServing
      <4> QED BY <2>1, <2>3, <2>4, <2>5, <4>1, <4>2 DEF DeliveredTo
    <3>3. CASE Unregister(a)
      <4>1. pc[a] = "propagate" /\ outbox[a] = <<>> /\ links'[a] = links[a] /\ reason'[a] = reason[a]
        BY <3>3 DEF Unregister
      <4> QED BY <2>1, <2>3, <2>4, <2>5, <4>1, ContainsEmpty DEF DeliveredTo
    <3>4. CASE LinksKept(a)
      <4>1. pc'[a] = pc[a] /\ links'[a] = links[a] /\ outbox'[a] = outbox[a]
        BY <3>4 DEF LinksKept
      <4>2. reason'[a] = reason[a]
        BY <1>1, <2>1, <2>5, <4>1, LifeCycleStep DEF LifeCycle, Loop
      <4> QED BY <2>1, <2>3, <2>4, <2>5, <4>1, <4>2 DEF DeliveredTo
    <3>5. ~PreStartErr(a)
      BY <2>2 DEF PreStartErr, TypeInv, Shape, ShapeOf, ShouldPropagate, Reason, HandleFailure
    <3>6. ~RecvLinkedExit(a)
      <4>1. ASSUME RecvLinkedExit(a) PROVE pc[a] = "control" /\ (UNCHANGED pc \/ Break(a, "Linked", "post_stop"))
        BY <4>1, Zenon DEF RecvLinkedExit, TakeControl
      <4> QED BY <2>2, <4>1 DEF Break
    <3>7. ~RecvLink(a) /\ ~TakeLink(a) /\ ~TakeUnlink(a) /\ ~SendReverseLink(a) /\ ~Abort(a)
      BY <2>2 DEF RecvLink, TakeLink, TakeUnlink, InsertLink, SendReverseLink, Abort
    <3> QED BY <1>1, <2>5, <3>1, <3>2, <3>3, <3>4, <3>5, <3>6, <3>7, LinkStep
  <2>6. CASE c # a
    <3>1. Untouched(a)
      BY <1>1, <2>1, <2>6, Locality
    <3>2. ASSUME RecvLink(b), Head(control[b]) = LinkedExitMsg(a) PROVE FALSE
      BY <3>2 DEF RecvLink, LinkedExitMsg
    <3>3. ASSUME RecvLinkedExit(b), Head(control[b]) = LinkedExitMsg(a) PROVE a \in trapped'[b]
      <4>1. \/ trapped' = [trapped EXCEPT ![b] = @ \cup {Head(control[b]).peer}]
            \/ Break(b, "Linked", "post_stop")
        BY <3>3, Zenon DEF RecvLinkedExit
      <4>2. ~Break(b, "Linked", "post_stop")
        BY <2>2 DEF Break, Serving, Loop
      <4>3. trapped \in [Actor -> SUBSET Actor]
        BY <2>1 DEF TypeOK
      <4> QED BY <3>3, <4>1, <4>2, <4>3 DEF LinkedExitMsg
    <3>4. \/ pc[a] = "propagate" /\ Contains(outbox[a], b)
          \/ Contains(control[b], LinkedExitMsg(a))
          \/ a \in trapped[b]
      BY <2>1, <2>3, <3>1 DEF DeliveredTo, Untouched
    <3> QED BY <2>4, <3>1, <3>2, <3>3, <3>4 DEF Untouched
  <2> QED BY <2>5, <2>6
<1>2. CASE SupervisorRecv \/ SupervisorGone \/ UNCHANGED vars
  BY <1>2 DEF SupervisorRecv, SupervisorGone, vars, chans, history, Delivered, DeliveredTo, Serving
<1> QED BY <1>1, <1>2 DEF Next, Delivered

\* ActorRuntime.LinkedExitDelivered: an actor that exited abnormally has put its
\* LinkedExit into the control channel of every linked peer that still serves,
\* in whatever order propagate_linked_exit walked the set and however long it
\* waited for room.
THEOREM LinkedExitIsDelivered == Spec => []LinkedExitDelivered
<1> DEFINE I == TypeInv /\ Named /\ Delivered
<1>1. Init => I
  BY TypeInvInit, NamedInit, DeliveredInit
<1>2. I /\ [Next]_vars => I'
  BY TypeInvStep, NamedStep, DeliveredStep
<1>3. I => LinkedExitDelivered
  BY DEF Delivered, DeliveredTo, LinkedExitDelivered
<1> QED BY <1>1, <1>2, <1>3, PTL DEF Spec

\* While nobody unlinks, link sets only grow.
LEMMA LinksGrow ==
    ASSUME TypeInv, Named, Budget["Unlink"] = 0, NEW a \in Actor, Client(a) \/ Step(a) \/ Abort(a)
    PROVE  ~TakeUnlink(a) /\ links[a] \subseteq links'[a]
<1>1. links \in [Actor -> SUBSET Actor] /\ mailbox \in [Actor -> Seq(Envelope)]
  BY DEF TypeInv, TypeOK
<1>2. ASSUME TakeUnlink(a) PROVE FALSE
  <2>1. mailbox[a] # <<>> /\ Head(mailbox[a]).kind = "Unlink"
    BY <1>2 DEF TakeUnlink, Take
  <2> QED BY <1>1, <2>1, ContainsHead DEF Named, NamedOf
<1>3. CASE RecvLink(a) \/ TakeLink(a)
  BY <1>1, <1>2, <1>3 DEF RecvLink, TakeLink, InsertLink
<1>4. CASE RecvLinkedExit(a) \/ SendReverseLink(a) \/ PostStop(a) \/ Propagate(a)
  BY <1>2, <1>4 DEF RecvLinkedExit, SendReverseLink, PostStop, Propagate, SendControl
<1>5. CASE PreStartErr(a) \/ Unregister(a) \/ Abort(a) \/ LinksKept(a)
  BY <1>2, <1>5 DEF PreStartErr, Unregister, Abort, LinksKept
<1> QED BY <1>2, <1>3, <1>4, <1>5, LinkStep

SymmetricTo(a, b) ==
    b \in links[a] /\ Serving(b) /\ pc[a] # "aborted" =>
        \/ a \in links[b]
        \/ Contains(control[b], LinkMsg(a))
        \/ pc[a] = "reverse_link" /\ outbox[a] = <<b>>

\* The handshake step by step: the task that inserts the link, its message, and
\* the task that receives it.
LEMMA SymmetricStep ==
    TypeInv /\ Named /\ LinkSymmetric /\ [Next]_vars => LinkSymmetric'
<1> SUFFICES ASSUME TypeInv, Named, LinkSymmetric, [Next]_vars, Budget["Unlink"] = 0,
                    NEW a \in Actor, NEW b \in Actor
             PROVE  SymmetricTo(a, b)'
  BY DEF LinkSymmetric, SymmetricTo, Serving
<1>1. ASSUME NEW c \in Actor, Client(c) \/ Step(c) \/ Abort(c) PROVE SymmetricTo(a, b)'
  <2> SUFFICES ASSUME b \in links'[a], Serving(b)', pc'[a] # "aborted", a # b
               PROVE  \/ a \in links'[b]
                      \/ Contains(control'[b], LinkMsg(a))
                      \/ pc'[a] = "reverse_link" /\ outbox'[a] = <<b>>
    BY DEF SymmetricTo, Serving
  <2>1. TypeOK /\ SymmetricTo(a, b) /\ LinkMsg(a) \in ControlMsg
    BY EnvelopeTypes DEF TypeInv, LinkSymmetric, SymmetricTo
  <2>2. /\ pc \in [Actor -> PC] /\ links \in [Actor -> SUBSET Actor] /\ outbox \in [Actor -> Seq(Actor)]
        /\ control \in [Actor -> Seq(ControlMsg)]
    BY <2>1 DEF TypeOK
  <2>3. b \in links[a] => Serving(b)
    BY <1>1, ServingStep DEF Named, NamedOf
  <2>4. Contains(control[b], LinkMsg(a)) =>
          \/ Contains(control'[b], LinkMsg(a))
          \/ c = b /\ (RecvLink(b) \/ RecvLinkedExit(b)) /\ Head(control[b]) = LinkMsg(a)
    BY <1>1, <2>1, ControlKept
  <2>5. a \in links[b] => a \in links'[b]
    <3>1. CASE c = b
      BY <1>1, <3>1, LinksGrow
    <3>2. CASE c # b
      BY <1>1, <2>1, <3>2, Locality DEF Untouched
    <3> QED BY <3>1, <3>2
  <2>6. CASE c = a
    <3>1. ASSUME b \in links[a], pc[a] # "aborted", ~(pc[a] = "reverse_link" /\ outbox[a] = <<b>>)
          PROVE  a \in links'[b] \/ Contains(control'[b], LinkMsg(a))
      BY <2>1, <2>3, <2>4, <2>5, <2>6, <3>1 DEF SymmetricTo
    <3>2. CASE RecvLink(a) \/ TakeLink(a)
      <4>1. PICK peer : InsertLink(a, peer)
        BY <3>2 DEF RecvLink, TakeLink
      <4>2. pc[a] \in {"control", "mailbox"}
        BY <3>2 DEF RecvLink, TakeLink, TakeControl, Take
      <4>3. CASE b \in links[a]
        BY <3>1, <4>2, <4>3
      <4>4. CASE b \notin links[a]
        BY <2>2, <4>1, <4>4 DEF InsertLink
      <4> QED BY <4>3, <4>4
    <3>3. CASE SendReverseLink(a)
      <4>1. SendControl(a, LinkMsg(a)) /\ links'[a] = links[a] /\ pc[a] = "reverse_link"
        BY <3>3 DEF SendReverseLink, SendControl
      <4>2. CASE outbox[a] = <<b>>
        <5>1. Head(outbox[a]) = b
          BY <4>2
        <5> QED BY <2>1, <2>3, <4>1, <5>1, SentToServing
      <4> QED BY <3>1, <4>1, <4>2
    <3>4. CASE RecvLinkedExit(a) \/ PostStop(a) \/ Propagate(a) \/ PreStartErr(a) \/ Unregister(a)
      <4>1. links'[a] = links[a] /\ pc[a] \in {"control", "post_stop", "propagate", "pre_start"}
        BY <3>4 DEF RecvLinkedExit, TakeControl, PostStop, Propagate, SendControl, PreStartErr, Unregister
      <4> QED BY <3>1, <4>1
    <3>5. CASE LinksKept(a)
      <4>1. links'[a] = links[a] /\ outbox'[a] = outbox[a] /\ (pc[a] = "reverse_link" => pc'[a] = "reverse_link")
        BY <3>5 DEF LinksKept
      <4>2. pc[a] # "aborted"
        BY <1>1, <2>1, <2>6, LifeCycleStep DEF LifeCycle, NotifySupervisor, Loop, Live
      <4> QED BY <3>1, <4>1, <4>2
    <3>6. ~Abort(a)
      BY <2>2 DEF Abort
    <3>7. ~TakeUnlink(a)
      BY <1>1, <2>6, LinksGrow
    <3> QED BY <1>1, <2>6, <3>2, <3>3, <3>4, <3>5, <3>6, <3>7, LinkStep
  <2>7. CASE c # a
    <3>1. Untouched(a)
      BY <1>1, <2>1, <2>7, Locality
    <3>2. ASSUME RecvLink(b), Head(control[b]) = LinkMsg(a) PROVE a \in links'[b]
      BY <2>2, <3>2 DEF RecvLink, InsertLink, LinkMsg
    <3>3. ASSUME RecvLinkedExit(b), Head(control[b]) = LinkMsg(a) PROVE FALSE
      BY <3>3 DEF RecvLinkedExit, LinkMsg
    <3>4. \/ a \in links[b]
          \/ Contains(control[b], LinkMsg(a))
          \/ pc[a] = "reverse_link" /\ outbox[a] = <<b>>
      BY <2>1, <2>3, <3>1 DEF SymmetricTo, Untouched
    <3> QED BY <2>4, <2>5, <3>1, <3>2, <3>3, <3>4 DEF Untouched
  <2> QED BY <2>6, <2>7
<1>2. CASE SupervisorRecv \/ SupervisorGone \/ UNCHANGED vars
  BY <1>2 DEF SupervisorRecv, SupervisorGone, vars, chans, LinkSymmetric, SymmetricTo, Serving
<1> QED BY <1>1, <1>2 DEF Next

\* ActorRuntime.LinkSymmetric: while nobody calls unlink(), no interleaving of link
\* calls, echoes, exits and failed starts leaves a half-open link: it is in both
\* sets, or the message that will put it there is on its way.
THEOREM LinksAreSymmetric == Spec => []LinkSymmetric
<1> DEFINE I == TypeInv /\ Named /\ LinkSymmetric
<1>1. Init => I
  BY TypeInvInit, NamedInit DEF Init, LinkSymmetric
<1>2. I /\ [Next]_vars => I'
  BY TypeInvStep, NamedStep, SymmetricStep
<1> QED BY <1>1, <1>2, PTL DEF Spec
=============================================================================
