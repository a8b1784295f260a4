-------------------------- MODULE SupervisorProofs --------------------------
(***************************************************************************)
(* Theorems about Supervisor, for every number of slots, every capacity,   *)
(* intensity and bound. Restart intensity is bounded under every strategy; *)
(* under OneForOne no two instances of a slot ever serve at the same time, *)
(* the registry publishes the one that serves, and a child given up stays  *)
(* down; under OneForOne and OneForAll every restart has a cause.          *)
(***************************************************************************)
EXTENDS Supervisor, FiniteSetTheorems, SequenceTheorems, TLAPS

\* The pruned restart log is again a sequence of times, and not empty.
LEMMA PrunedType ==
    ASSUME TypeOK
    PROVE  Pruned \in Seq(0 .. MaxTime)
<1>1. Len(restart_log) \in Nat /\ DOMAIN restart_log = 1 .. Len(restart_log)
  BY LenProperties DEF TypeOK
<1>2. Stale \in SUBSET (1 .. Len(restart_log))
  BY <1>1 DEF Stale
<1>3. IsFiniteSet(1 .. Len(restart_log))
  BY <1>1, FS_Interval
<1>4. IsFiniteSet(Stale)
  BY <1>2, <1>3, FS_Subset
<1>5. Cardinality(Stale) \in Nat
  BY <1>4, FS_CardinalityType
<1>6. \A i \in Cardinality(Stale) + 1 .. Len(restart_log) : restart_log[i] \in 0 .. MaxTime
  <2> SUFFICES ASSUME NEW i \in Cardinality(Stale) + 1 .. Len(restart_log)
               PROVE  restart_log[i] \in 0 .. MaxTime
    OBVIOUS
  <2>1. i \in 1 .. Len(restart_log)
    BY <1>1, <1>5
  <2> QED BY <2>1, ElementOfSeq DEF TypeOK
<1>7. SubSeq(restart_log, Cardinality(Stale) + 1, Len(restart_log)) \in Seq(0 .. MaxTime)
  BY <1>1, <1>5, <1>6, SubSeqProperties
<1> QED BY <1>7, AppendProperties DEF Pruned, TypeOK

\* What spawning from a factory does to the types.
LEMMA FactoryType ==
    ASSUME TypeOK, NEW s \in Slot, Factory(s)
    PROVE  /\ born' \in {DEAD} \cup Inst
           /\ next' \in 1 .. MaxInst + 1
           /\ slotOf' \in [Inst -> {0} \cup Slot]
           /\ phase' \in [Inst -> Phase]
<1>1. next \in Inst
  BY DEF Factory
<1>2. next' \in 1 .. MaxInst + 1
  BY <1>1, ConstantsAssumption DEF Factory, Inst
<1>3. slotOf' \in [Inst -> {0} \cup Slot]
  BY DEF Factory, TypeOK
<1>4. phase' \in [Inst -> Phase]
  BY DEF Factory, TypeOK, Phase
<1> QED BY <1>1, <1>2, <1>3, <1>4 DEF Factory

\* What its return does to them.
LEMMA ReturnType ==
    ASSUME TypeOK, NEW s \in Slot, FactoryReturns(s)
    PROVE  /\ born \in Inst /\ born' = DEAD
           /\ slotId' \in [Slot -> {DEAD} \cup Inst]
           /\ current_refs' \in [Slot -> {DEAD} \cup Inst]
           /\ refs' \in [Slot -> {DEAD} \cup Inst]
           /\ generations' \in [Slot -> Nat]
           /\ todo' \subseteq Slot
<1>1. born \in Inst /\ born' = DEAD
  BY DEF FactoryReturns, TypeOK
<1>2. /\ slotId' \in [Slot -> {DEAD} \cup Inst]
      /\ current_refs' \in [Slot -> {DEAD} \cup Inst]
      /\ todo' \subseteq Slot
  BY <1>1 DEF FactoryReturns, TypeOK
<1>3. refs' \in [Slot -> {DEAD} \cup Inst]
  <2>1. CASE UseRegistry
    <3>1. refs' = [refs EXCEPT ![s] = born] /\ refs \in [Slot -> {DEAD} \cup Inst]
      BY <2>1 DEF FactoryReturns, TrackAndBump, TypeOK
    <3> QED BY <1>1, <3>1
  <2>2. CASE ~UseRegistry
    BY <2>2 DEF FactoryReturns, TypeOK, regVars
  <2> QED BY <2>1, <2>2
<1>4. generations' \in [Slot -> Nat]
  <2>1. CASE UseRegistry
    <3>1. generations[s] + 1 \in Nat
      BY DEF TypeOK
    <3> QED BY <2>1, <3>1 DEF FactoryReturns, TrackAndBump, TypeOK
  <2>2. CASE ~UseRegistry
    BY <2>2 DEF FactoryReturns, TypeOK, regVars
  <2> QED BY <2>1, <2>2
<1> QED BY <1>1, <1>2, <1>3, <1>4

\* The initial state is well typed.
LEMMA InitTypeOK == Init => TypeOK
BY ConstantsAssumption DEF Init, TypeOK, Slot, Inst, DEAD, Phase

\* Each step preserves the types.
LEMMA TypeOKStep == TypeOK /\ [Next]_vars => TypeOK'
<1> SUFFICES ASSUME TypeOK, [Next]_vars PROVE TypeOK'
  OBVIOUS
<1> USE ConstantsAssumption
<1> USE DEF supVars, regVars, childVars, history
<1>1. ASSUME NEW i \in Inst, ChildStep(i) PROVE TypeOK'
  <2>1. CASE PreStartOk(i)
    BY <2>1 DEF PreStartOk, TypeOK, Phase
  <2>2. CASE PreStartErr(i)
    BY <2>2 DEF PreStartErr, Die, TypeOK, Phase
  <2>3. CASE Serve(i)
    <3>1. /\ mailbox' \in [Inst -> Seq({"Msg", "Kill", "Stop"})]
          /\ \A j \in Inst : Len(mailbox'[j]) <= MboxCap
      BY <2>3, HeadTailProperties DEF Serve, TypeOK
    <3>2. phase' \in [Inst -> Phase]
      BY <2>3 DEF Serve, TypeOK, Phase
    <3> QED BY <2>3, <3>1, <3>2 DEF Serve, TypeOK
  <2>4. CASE MailboxClosed(i)
    BY <2>4 DEF MailboxClosed, TypeOK, Phase
  <2>5. CASE Notify(i)
    <3>1. signals' \in Seq(Inst) /\ Len(signals') <= SigCap
      <4>1. CASE ReceiverAlive
        <5>1. signals' = Append(signals, i) /\ Len(signals) < SigCap
          BY <2>5, <4>1 DEF Notify, SignalRoom
        <5>2. signals \in Seq(Inst) /\ Len(signals) \in Nat
          BY LenProperties DEF TypeOK
        <5> QED BY <5>1, <5>2, AppendProperties
      <4>2. CASE ~ReceiverAlive
        BY <2>5, <4>2 DEF Notify, TypeOK
      <4> QED BY <4>1, <4>2
    <3>2. failed' \subseteq Inst /\ phase' \in [Inst -> Phase]
      BY <2>5 DEF Notify, TypeOK, Phase
    <3> QED BY <2>5, <3>1, <3>2 DEF Notify, TypeOK
  <2>6. CASE Exit(i)
    BY <2>6 DEF Exit, Die, TypeOK, Phase
  <2> QED BY <1>1, <2>1, <2>2, <2>3, <2>4, <2>5, <2>6 DEF ChildStep
<1>2. ASSUME NEW i \in Inst, NEW e \in {"Msg", "Kill"}, Send(i, e) PROVE TypeOK'
  <2>1. /\ mailbox' \in [Inst -> Seq({"Msg", "Kill", "Stop"})]
        /\ \A j \in Inst : Len(mailbox'[j]) <= MboxCap
    BY <1>2, AppendProperties DEF Send, TypeOK
  <2> QED BY <1>2, <2>1 DEF Send, TypeOK
<1>3. ASSUME NEW s \in Slot, StartChild(s) PROVE TypeOK'
  <2>1. initial_refs' \in [Slot -> {DEAD} \cup Inst]
    BY <1>3, ReturnType DEF StartChild, TypeOK
  <2> QED BY <1>3, <2>1, ReturnType DEF StartChild, FactoryReturns, TypeOK
<1>4. ASSUME NEW s \in Slot, StartFails(s) PROVE TypeOK'
  BY <1>4 DEF StartFails, TypeOK
<1>5. ASSUME NEW s \in Slot, RestartChild(s) PROVE TypeOK'
  BY <1>5, ReturnType DEF RestartChild, FactoryReturns, TypeOK
<1>6. ASSUME NEW s \in Slot, RestartChildFails(s) PROVE TypeOK'
  BY <1>6 DEF RestartChildFails, TypeOK
<1>7. ASSUME NEW s \in Slot, StopChild(s) PROVE TypeOK'
  <2>1. /\ mailbox' \in [Inst -> Seq({"Msg", "Kill", "Stop"})]
        /\ \A j \in Inst : Len(mailbox'[j]) <= MboxCap
    <3> DEFINE i == current_refs[s]
    <3>1. CASE ~Open(i)
      BY <1>7, <3>1 DEF StopChild, ToStop, TypeOK
    <3>2. CASE Open(i) /\ i \in Inst
      <4>1. /\ Append(mailbox[i], "Stop") \in Seq({"Msg", "Kill", "Stop"})
            /\ Len(Append(mailbox[i], "Stop")) <= MboxCap
        BY <1>7, <3>2, AppendProperties DEF StopChild, ToStop, TypeOK
      <4>2. /\ mailbox' = [mailbox EXCEPT ![i] = Append(mailbox[i], "Stop")]
            /\ mailbox \in [Inst -> Seq({"Msg", "Kill", "Stop"})]
            /\ \A j \in Inst : Len(mailbox[j]) <= MboxCap
        BY <1>7, <3>2 DEF StopChild, ToStop, TypeOK
      <4> QED BY <3>2, <4>1, <4>2
    <3>3. CASE Open(i) /\ i \notin Inst
      <4>1. /\ mailbox' = [mailbox EXCEPT ![i] = Append(mailbox[i], "Stop")]
            /\ mailbox \in [Inst -> Seq({"Msg", "Kill", "Stop"})]
            /\ \A j \in Inst : Len(mailbox[j]) <= MboxCap
        BY <1>7, <3>3 DEF StopChild, ToStop, TypeOK
      <4> QED BY <3>3, <4>1
    <3> QED BY <3>1, <3>2, <3>3
  <2> QED BY <1>7, <2>1 DEF StopChild, ToStop, TypeOK
<1>8. CASE Started
  BY <1>8 DEF Started, TypeOK
<1>9. ASSUME TakeSignal
      PROVE  /\ signals' \in Seq(Inst) /\ Len(signals') <= SigCap
             /\ restart_log' \in Seq(0 .. MaxTime)
             /\ Head(signals) \in Inst
  BY <1>9, HeadTailProperties, PrunedType DEF TakeSignal, TypeOK
<1>10. CASE Restart
  <2>1. todo' \subseteq Slot
    BY <1>10 DEF Restart, ToRestart, Occupants
  <2>2. rounds' \in Seq(0 .. MaxTime)
    BY <1>10, AppendProperties DEF Restart, TakeSignal, TypeOK
  <2> QED BY <1>9, <1>10, <2>1, <2>2 DEF Restart, TakeSignal, TypeOK
<1>11. CASE IntensityShutdown
  BY <1>9, <1>11 DEF IntensityShutdown, TakeSignal, TypeOK
<1>12. CASE Abandon
  BY <1>9, <1>12 DEF Abandon, TakeSignal, Occupants, TypeOK
<1>13. CASE RestartDone
  BY <1>13 DEF RestartDone, TypeOK
<1>14. CASE Shutdown
  BY <1>14 DEF Shutdown, TypeOK
<1>15. CASE Stopped
  BY <1>15 DEF Stopped, TypeOK
<1>16. CASE CallStop
  BY <1>16 DEF CallStop, TypeOK
<1>17. CASE DropHandle
  BY <1>17 DEF DropHandle, TypeOK
<1>18. CASE Tick
  BY <1>18 DEF Tick, TypeOK
<1>19. CASE UNCHANGED vars
  BY <1>19 DEF vars, TypeOK
<1>20. ASSUME NEW s \in Slot, Factory(s) PROVE TypeOK'
  BY <1>20, FactoryType DEF Factory, TypeOK
<1> QED
  BY <1>1, <1>2, <1>3, <1>4, <1>5, <1>6, <1>7, <1>8, <1>10, <1>11, <1>12, <1>13,
     <1>14, <1>15, <1>16, <1>17, <1>18, <1>19, <1>20 DEF Next, SupStep

\* Type correctness of the supervisor model: every queue keeps its capacity and
\* every id a slot, ref or signal holds is one that was handed out.
THEOREM TypeCorrect == Spec => []TypeOK
BY InitTypeOK, TypeOKStep, PTL DEF Spec
-----------------------------------------------------------------------------
(* OneForOne.                                                               *)

\* The invariant holds before any child is spawned.
LEMMA InitOneForOne == Init => OneForOneInv
<1> SUFFICES ASSUME Init PROVE OneForOneInv
  OBVIOUS
<1>1. IdsInOrder
  BY ConstantsAssumption DEF Init, IdsInOrder, Inst
<1>2. \A i \in Inst : ~Active(i)
  BY DEF Init, Active
<1>3. SignalledIsDone
  BY DEF Init, SignalledIsDone
<1>4. BornIsFirst
  BY DEF Init, BornIsFirst
<1> QED BY <1>1, <1>2, <1>3, <1>4
        DEF OneForOneInv, ActiveOccupies, TodoIsVacant, ActivePublished, Settled

\* A step that spawns nothing, moves no slot and only lets instances move towards
\* their end keeps the invariant.
LEMMA QuietStep ==
    ASSUME TypeOK, OneForOneInv,
           UNCHANGED <<next, slotOf, born, slotId, refs>>,
           \A i \in Inst : /\ Active(i)' => Active(i)
                           /\ phase'[i] = "unborn" <=> phase[i] = "unborn",
           SignalledIsDone', TodoIsVacant', BornIsFirst'
    PROVE  OneForOneInv'
<1>1. IdsInOrder'
  BY DEF OneForOneInv, IdsInOrder
<1>2. \A i \in Inst : Settled(i)' => Settled(i)
  BY DEF Settled
<1>3. ActiveOccupies' /\ ActivePublished'
  BY <1>2 DEF OneForOneInv, ActiveOccupies, ActivePublished
<1> QED BY <1>1, <1>3 DEF OneForOneInv

\* Outside the loops that spawn no factory runs.
LEMMA NotBorn ==
    ASSUME TypeOK, OneForOneInv, sup \notin {"starting", "restart"}
    PROVE  born = DEAD
BY DEF OneForOneInv, BornIsFirst

\* A step of one child keeps the invariant.
LEMMA ChildKeeps ==
    ASSUME TypeOK, OneForOneInv, NEW i \in Inst, ChildStep(i)
    PROVE  OneForOneInv'
<1> USE DEF supVars, regVars, childVars, history
<1>1. UNCHANGED <<next, slotOf, born, slotId, refs, sup, todo>>
  BY DEF ChildStep, PreStartOk, PreStartErr, Serve, MailboxClosed, Notify, Exit, Die
<1>2. /\ phase[i] # "unborn"
      /\ \A j \in Inst \ {i} : phase'[j] = phase[j]
      /\ phase'[i] # "unborn"
      /\ Active(i)' => Active(i)
  BY DEF ChildStep, PreStartOk, PreStartErr, Serve, MailboxClosed, Notify, Exit, Die,
         TypeOK, Active
<1>3. \A j \in Inst : /\ Active(j)' => Active(j)
                      /\ phase'[j] = "unborn" <=> phase[j] = "unborn"
  BY <1>2 DEF Active
<1>4. TodoIsVacant' /\ BornIsFirst'
  BY <1>1, <1>3 DEF OneForOneInv, TodoIsVacant, BornIsFirst, Settled, First
<1>5. SignalledIsDone'
  <2>1. CASE signals' = signals
    <3> SUFFICES ASSUME NEW k \in DOMAIN signals
                 PROVE  ~Active(signals[k])' /\ phase'[signals[k]] # "unborn"
      BY <2>1 DEF SignalledIsDone, Active
    <3>1. signals[k] \in Inst
      BY LenProperties, ElementOfSeq DEF TypeOK
    <3> QED BY <1>3, <2>1, <3>1 DEF OneForOneInv, SignalledIsDone, Active
  <2>2. CASE signals' # signals
    <3>1. Notify(i) /\ signals' = Append(signals, i)
      BY <2>2 DEF ChildStep, PreStartOk, PreStartErr, Serve, MailboxClosed, Notify, Exit, Die
    <3>2. phase'[i] = "exiting"
      BY <3>1 DEF Notify, TypeOK
    <3>3. SUFFICES ASSUME NEW k \in DOMAIN signals'
                   PROVE  phase'[signals'[k]] \in {"exiting", "dead"}
      BY DEF SignalledIsDone, Active
    <3>4. k \in 1 .. Len(signals) \/ signals'[k] = i
      BY <3>1, AppendProperties, LenProperties DEF TypeOK
    <3>5. CASE k \in 1 .. Len(signals)
      <4>1. signals'[k] = signals[k] /\ signals[k] \in Inst /\ k \in DOMAIN signals
        BY <3>1, <3>5, AppendProperties, LenProperties, ElementOfSeq DEF TypeOK
      <4>2. phase[signals[k]] \in {"exiting", "dead"}
        BY <4>1 DEF OneForOneInv, SignalledIsDone, Active, TypeOK, Phase
      <4>3. CASE signals[k] = i
        BY <3>2, <4>1, <4>3
      <4>4. CASE signals[k] # i
        BY <1>2, <4>1, <4>2, <4>4
      <4> QED BY <4>3, <4>4
    <3>6. CASE signals'[k] = i
      BY <3>2, <3>6
    <3> QED BY <3>4, <3>5, <3>6
  <2> QED BY <2>1, <2>2
<1> QED BY <1>1, <1>3, <1>4, <1>5, QuietStep

\* A new instance: it is nobody's occupant yet.
LEMMA SpawnKeeps ==
    ASSUME TypeOK, OneForOneInv, NEW s \in Slot, Factory(s)
    PROVE  OneForOneInv'
<1> USE DEF supVars, regVars, history
<1>1. /\ s \in todo /\ sup \in {"starting", "restart"} /\ First(s)
      /\ next \in Inst /\ next' = next + 1 /\ born = DEAD /\ born' = next
      /\ UNCHANGED <<sup, todo, slotId, refs, signals>>
  BY DEF Factory, First
<1>2. /\ \A i \in Inst \ {next} : phase'[i] = phase[i] /\ slotOf'[i] = slotOf[i]
      /\ phase'[next] = "starting" /\ slotOf'[next] = s
      /\ phase[next] = "unborn"
  BY <1>1 DEF Factory, TypeOK, OneForOneInv, IdsInOrder, Inst
<1>3. IdsInOrder'
  <2> SUFFICES ASSUME NEW i \in Inst
               PROVE  /\ phase'[i] = "unborn" <=> i >= next'
                      /\ slotOf'[i] = 0 <=> i >= next'
    BY DEF IdsInOrder
  <2>1. i \in Int /\ next \in Int /\ s # 0
    BY <1>1, ConstantsAssumption DEF Inst, Slot
  <2>2. CASE i = next
    BY <1>1, <1>2, <2>1, <2>2
  <2>3. CASE i # next
    <3>1. i >= next' <=> i >= next
      BY <1>1, <2>1, <2>3
    <3> QED BY <1>2, <2>3, <3>1 DEF OneForOneInv, IdsInOrder
  <2> QED BY <2>2, <2>3
<1>4. \A i \in Inst : Settled(i)' => i # next /\ Settled(i)
  <2> SUFFICES ASSUME NEW i \in Inst, Settled(i)' PROVE i # next /\ Settled(i)
    OBVIOUS
  <2>1. i # next /\ Active(i)
    BY <1>1, <1>2 DEF Settled, Active
  <2>2. i # DEAD
    BY ConstantsAssumption DEF Inst, DEAD
  <2> QED BY <1>1, <2>1, <2>2 DEF Settled
<1>5. ActiveOccupies' /\ ActivePublished'
  BY <1>1, <1>2, <1>4 DEF OneForOneInv, ActiveOccupies, ActivePublished
<1>6. TodoIsVacant'
  BY <1>1, <1>2, <1>4 DEF OneForOneInv, TodoIsVacant
<1>7. SignalledIsDone'
  <2> SUFFICES ASSUME NEW k \in DOMAIN signals
               PROVE  ~Active(signals[k])' /\ phase'[signals[k]] # "unborn"
    BY <1>1 DEF SignalledIsDone, Active
  <2>1. signals[k] \in Inst /\ signals[k] # next
    BY <1>2, LenProperties, ElementOfSeq DEF OneForOneInv, SignalledIsDone, TypeOK
  <2>2. ~Active(signals[k]) /\ phase[signals[k]] # "unborn"
    BY DEF OneForOneInv, SignalledIsDone
  <2>3. signals' = signals /\ phase'[signals[k]] = phase[signals[k]]
    BY <1>1, <1>2, <2>1
  <2> QED BY <2>2, <2>3 DEF Active
<1>8. BornIsFirst'
  BY <1>1, <1>2 DEF BornIsFirst, First
<1> QED BY <1>3, <1>5, <1>6, <1>7, <1>8 DEF OneForOneInv

\* The instance a factory returns was spawned for the slot it is stored in.
LEMMA BornFor ==
    ASSUME TypeOK, BornIsFirst, NEW s \in Slot, FactoryReturns(s)
    PROVE  /\ born \in Inst /\ born # DEAD /\ slotOf[born] = s
           /\ s \in todo /\ sup \in {"starting", "restart"}
<1>1. First(s) /\ s \in todo /\ born \in Inst /\ born # DEAD
  BY DEF FactoryReturns, First, TypeOK
<1>2. First(slotOf[born]) /\ sup \in {"starting", "restart"}
  BY <1>1 DEF BornIsFirst
<1>3. slotOf[born] \in Nat /\ s \in Nat /\ slotOf[born] \in todo
  BY <1>1, <1>2, ConstantsAssumption DEF First, TypeOK, Slot
<1>4. s <= slotOf[born] /\ slotOf[born] <= s
  BY <1>1, <1>2, <1>3 DEF First
<1> QED BY <1>1, <1>2, <1>3, <1>4

\* The new instance becomes the occupant of its slot, and is published, when the
\* factory returns: StartChild and RestartChild.
LEMMA ReturnKeeps ==
    ASSUME TypeOK, OneForOneInv, NEW s \in Slot, FactoryReturns(s)
    PROVE  OneForOneInv'
<1> USE DEF history
<1>1. /\ s \in todo /\ First(s) /\ born \in Inst /\ born # DEAD /\ born' = DEAD
      /\ UNCHANGED <<sup, signals, next, slotOf, phase>>
      /\ slotId' = [slotId EXCEPT ![s] = born] /\ todo' = todo \ {s}
  BY DEF FactoryReturns, First, TypeOK
<1>2. slotOf[born] = s /\ sup \in {"starting", "restart"}
  BY BornFor DEF OneForOneInv
<1>3. ASSUME NEW i \in Inst \ {born}, Active(i)
      PROVE  Settled(i) /\ slotOf[i] \in Slot /\ slotOf[i] # s
  <2>1. Settled(i)
    BY <1>3 DEF Settled
  <2>2. slotOf[i] # s
    BY <1>1, <1>2, <2>1 DEF OneForOneInv, TodoIsVacant
  <2>3. phase[i] # "unborn"
    BY <1>3 DEF Active
  <2>4. slotOf[i] \in Slot
    BY <2>3 DEF OneForOneInv, IdsInOrder, TypeOK
  <2> QED BY <2>1, <2>2, <2>4
<1>4. \A i \in Inst : Settled(i)' => Active(i)
  BY <1>1 DEF Settled, Active
<1>5. ActiveOccupies'
  <2> SUFFICES ASSUME NEW i \in Inst, Active(i) PROVE slotId'[slotOf[i]] = i
    BY <1>1, <1>4 DEF ActiveOccupies
  <2>1. CASE i = born
    BY <1>1, <1>2, <2>1 DEF TypeOK
  <2>2. CASE i # born
    BY <1>1, <1>3, <2>2 DEF TypeOK, OneForOneInv, ActiveOccupies
  <2> QED BY <2>1, <2>2
<1>6. ActivePublished'
  <2> SUFFICES ASSUME UseRegistry, NEW i \in Inst, Active(i) PROVE refs'[slotOf[i]] = i
    BY <1>1, <1>4 DEF ActivePublished
  <2>0. refs' = [refs EXCEPT ![s] = born]
    BY DEF FactoryReturns, TrackAndBump
  <2>1. CASE i = born
    BY <1>1, <1>2, <2>0, <2>1 DEF TypeOK
  <2>2. CASE i # born
    BY <1>1, <1>3, <2>0, <2>2 DEF TypeOK, OneForOneInv, ActivePublished
  <2> QED BY <2>1, <2>2
<1>7. TodoIsVacant'
  <2> SUFFICES ASSUME NEW i \in Inst, Active(i) PROVE slotOf[i] \notin todo \ {s}
    BY <1>1, <1>4 DEF TodoIsVacant
  <2>1. CASE i = born
    BY <1>2, <2>1
  <2>2. CASE i # born
    BY <1>2, <1>3, <2>2 DEF OneForOneInv, TodoIsVacant
  <2> QED BY <2>1, <2>2
<1>8. IdsInOrder' /\ SignalledIsDone' /\ BornIsFirst'
  BY <1>1 DEF OneForOneInv, IdsInOrder, SignalledIsDone, Active, BornIsFirst
<1> QED BY <1>5, <1>6, <1>7, <1>8 DEF OneForOneInv

\* Taking a signal keeps what is known of the rest of the channel, and its
\* sender is not active.
LEMMA TakenSignal ==
    ASSUME TypeOK, OneForOneInv, TakeSignal
    PROVE  /\ SignalledIsDone'
           /\ Head(signals) \in Inst
           /\ ~Active(Head(signals))
<1>1. signals \in Seq(Inst) /\ signals # <<>> /\ signals' = Tail(signals) /\ phase' = phase
  BY DEF TypeOK, TakeSignal
<1>2. 1 \in DOMAIN signals /\ Head(signals) = signals[1]
  BY <1>1, EmptySeq, LenProperties
<1>3. \A k \in DOMAIN signals' : k + 1 \in DOMAIN signals /\ signals'[k] = signals[k + 1]
  BY <1>1, HeadTailProperties, LenProperties
<1>4. SignalledIsDone'
  BY <1>1, <1>3 DEF OneForOneInv, SignalledIsDone, Active
<1> QED BY <1>1, <1>2, <1>4, HeadTailProperties DEF OneForOneInv, SignalledIsDone

\* Each step of a OneForOne supervisor preserves the invariant.
LEMMA OneForOneStep ==
    ASSUME Strategy = "OneForOne", TypeOK, OneForOneInv, [Next]_vars
    PROVE  OneForOneInv'
<1> USE DEF supVars, regVars, childVars, history
<1>0. \A i \in Inst : i # DEAD
  BY ConstantsAssumption DEF Inst, DEAD
<1>1. ASSUME NEW i \in Inst, ChildStep(i) PROVE OneForOneInv'
  BY <1>1, ChildKeeps
<1>2. ASSUME NEW s \in Slot, StartChild(s) PROVE OneForOneInv'
  BY <1>2, ReturnKeeps DEF StartChild
<1>3. ASSUME NEW s \in Slot, RestartChild(s) PROVE OneForOneInv'
  BY <1>3, ReturnKeeps DEF RestartChild
<1>4. ASSUME NEW s \in Slot, RestartChildFails(s) PROVE OneForOneInv'
  <2>1. /\ UNCHANGED <<next, slotOf, born, phase, refs, signals, sup>>
        /\ slotId' = [slotId EXCEPT ![s] = DEAD]
        /\ todo' = todo \ {s}
        /\ s \in todo /\ sup = "restart" /\ born = DEAD
    BY <1>4 DEF RestartChildFails, First
  <2>2. \A i \in Inst : Settled(i) => slotOf[i] # s /\ slotOf[i] \in Slot
    BY <2>1 DEF OneForOneInv, TodoIsVacant, IdsInOrder, Settled, Active, TypeOK
  <2>3. ActiveOccupies'
    BY <2>1, <2>2 DEF OneForOneInv, ActiveOccupies, Settled, Active, TypeOK
  <2>4. IdsInOrder' /\ BornIsFirst' /\ ActivePublished'
    BY <2>1 DEF OneForOneInv, IdsInOrder, BornIsFirst, ActivePublished, Settled, Active
  <2>5. SignalledIsDone' /\ TodoIsVacant'
    BY <2>1 DEF OneForOneInv, SignalledIsDone, TodoIsVacant, Settled, Active
  <2> QED BY <2>3, <2>4, <2>5 DEF OneForOneInv
<1>5. ASSUME UNCHANGED <<next, slotOf, born, phase, refs, slotId>>,
             SignalledIsDone', TodoIsVacant', BornIsFirst'
      PROVE  OneForOneInv'
  BY <1>5, QuietStep DEF Active
<1>6. ASSUME TakeSignal
      PROVE  /\ SignalledIsDone' /\ BornIsFirst'
             /\ UNCHANGED <<next, slotOf, born, phase, refs>> /\ born = DEAD
  <2>1. sup = "select" /\ UNCHANGED <<next, slotOf, born, phase, refs>>
    BY <1>6 DEF TakeSignal
  <2>2. born = DEAD
    BY <2>1, NotBorn
  <2> QED BY <1>6, <2>1, <2>2, TakenSignal DEF BornIsFirst
<1>7. CASE Restart
  <2>1. /\ slotId' = slotId /\ TakeSignal
        /\ todo' = {s \in Slot : slotId[s] = Head(signals)}
    BY <1>7 DEF Restart, ToRestart, Occupants
  <2>2. TodoIsVacant'
    <3> SUFFICES ASSUME NEW i \in Inst, Settled(i)' PROVE slotOf'[i] \notin todo'
      BY DEF TodoIsVacant
    <3>1. Settled(i) /\ slotOf'[i] = slotOf[i]
      BY <1>6, <2>1 DEF Settled, Active
    <3> QED BY <2>1, <3>1, TakenSignal DEF OneForOneInv, ActiveOccupies, Settled
  <2> QED BY <1>5, <1>6, <2>1, <2>2
<1>8. CASE IntensityShutdown
  <2>1. slotId' = slotId /\ sup' = "stopping" /\ TakeSignal
    BY <1>8 DEF IntensityShutdown
  <2>2. TodoIsVacant'
    BY <2>1 DEF TodoIsVacant
  <2> QED BY <1>5, <1>6, <2>1, <2>2
<1>9. CASE Abandon
  <2>1. /\ sup' = sup /\ sup = "select"
        /\ slotId' = [s \in Slot |-> IF slotId[s] = Head(signals) THEN DEAD ELSE slotId[s]]
        /\ TakeSignal
    BY <1>9 DEF Abandon, TakeSignal
  <2>2. UNCHANGED <<next, slotOf, born, phase, refs>> /\ SignalledIsDone' /\ BornIsFirst'
    BY <1>6, <2>1
  <2>3. ~Active(Head(signals))
    BY <2>1, TakenSignal
  <2>4. \A i \in Inst : Settled(i) => slotOf[i] \in Slot /\ i # Head(signals)
    BY <2>3 DEF OneForOneInv, IdsInOrder, Settled, Active, TypeOK
  <2>5. ActiveOccupies'
    BY <2>1, <2>2, <2>4 DEF OneForOneInv, ActiveOccupies, Settled, Active, TypeOK
  <2>6. IdsInOrder' /\ TodoIsVacant' /\ ActivePublished'
    BY <2>1, <2>2 DEF OneForOneInv, IdsInOrder, TodoIsVacant, ActivePublished, Settled, Active
  <2> QED BY <2>2, <2>5, <2>6 DEF OneForOneInv
<1>10. ASSUME UNCHANGED <<next, slotOf, born, phase, refs, slotId>>,
              \/ UNCHANGED <<sup, todo>>
              \/ born = DEAD /\ sup' \in {"select", "stopping", "stopped", "failed"},
              signals' \in {signals, <<>>}
       PROVE  OneForOneInv'
  <2>1. SignalledIsDone'
    BY <1>10 DEF OneForOneInv, SignalledIsDone, Active
  <2>2. TodoIsVacant'
    BY <1>10 DEF OneForOneInv, TodoIsVacant, Settled, Active
  <2>3. BornIsFirst'
    BY <1>10 DEF OneForOneInv, BornIsFirst, First
  <2> QED BY <1>5, <1>10, <2>1, <2>2, <2>3
<1>11. ASSUME NEW i \in Inst, NEW e \in {"Msg", "Kill"}, Send(i, e) PROVE OneForOneInv'
  BY <1>10, <1>11 DEF Send
<1>12. ASSUME NEW s \in Slot, StartFails(s) PROVE OneForOneInv'
  BY <1>10, <1>12 DEF StartFails
<1>13. ASSUME NEW s \in Slot, StopChild(s) PROVE OneForOneInv'
  <2>1. /\ sup' \in {"select", "stopping", "stopped", "failed"}
        /\ sup \notin {"starting", "restart"}
        /\ UNCHANGED <<next, slotOf, born, phase, refs, slotId, signals>>
    BY <1>13 DEF StopChild
  <2> QED BY <1>10, <2>1, NotBorn
<1>14. CASE Started \/ RestartDone
  <2>1. born = DEAD
    BY <1>14 DEF Started, RestartDone, OneForOneInv, BornIsFirst, First
  <2> QED BY <1>10, <1>14, <2>1 DEF Started, RestartDone
<1>15. CASE Shutdown \/ Stopped
  BY <1>10, <1>15, NotBorn DEF Shutdown, Stopped
<1>16. CASE CallStop \/ DropHandle \/ Tick
  BY <1>10, <1>16 DEF CallStop, DropHandle, Tick
<1>17. CASE UNCHANGED vars
  BY <1>10, <1>17 DEF vars
<1>18. ASSUME NEW s \in Slot, Factory(s) PROVE OneForOneInv'
  BY <1>18, SpawnKeeps
<1> QED
  BY <1>1, <1>2, <1>3, <1>4, <1>7, <1>8, <1>9, <1>11, <1>12, <1>13, <1>14, <1>15, <1>16,
     <1>17, <1>18
  DEF Next, SupStep

\* The invariant excludes two serving instances of one slot.
LEMMA InvImpliesOneServing == TypeOK /\ OneForOneInv => OneServingPerSlot
<1> SUFFICES ASSUME TypeOK, OneForOneInv, NEW i \in Inst, NEW j \in Inst,
                    Active(i), Active(j), slotOf[i] = slotOf[j]
             PROVE  i = j
  BY DEF OneServingPerSlot, Serving, Active
<1>1. ASSUME Settled(i), Settled(j) PROVE i = j
  BY <1>1 DEF OneForOneInv, ActiveOccupies
<1>2. ASSUME NEW k \in Inst, Settled(k) PROVE born = DEAD \/ slotOf[k] # slotOf[born]
  BY <1>2 DEF OneForOneInv, BornIsFirst, TodoIsVacant, First
<1>3. i = born => born # DEAD
  BY ConstantsAssumption DEF Inst, DEAD
<1>4. j = born => born # DEAD
  BY ConstantsAssumption DEF Inst, DEAD
<1> QED BY <1>1, <1>2, <1>3, <1>4 DEF Settled

\* Under OneForOne, for any number of children, capacities and intensity, and
\* whatever the order of failures, signals, restarts and shutdown, at most one
\* instance of a slot serves: the supervisor never runs a replacement beside a
\* predecessor that still handles messages.
THEOREM OneForOneServing ==
    ASSUME Strategy = "OneForOne"
    PROVE  Spec => []OneServingPerSlot
<1>1. Init => TypeOK /\ OneForOneInv
  BY InitTypeOK, InitOneForOne
<1>2. TypeOK /\ OneForOneInv /\ [Next]_vars => (TypeOK /\ OneForOneInv)'
  BY TypeOKStep, OneForOneStep
<1> QED BY <1>1, <1>2, InvImpliesOneServing, PTL DEF Spec

-----------------------------------------------------------------------------
(* Restart intensity, for every strategy and both intensity actions.        *)

\* The times in restart_log never decrease and lie in the past.
LogInOrder ==
    /\ \A k \in DOMAIN restart_log : restart_log[k] <= now
    /\ \A k, l \in DOMAIN restart_log : k <= l => restart_log[k] <= restart_log[l]

\* The log has forgotten no round of the current window: counted from the end,
\* the entry in the place of such a round is there and is at least as late.
RoundsLogged ==
    \A k \in DOMAIN rounds :
        /\ rounds[k] <= now
        /\ rounds[k] + Window >= now =>
              \E l \in DOMAIN restart_log : /\ l + Len(rounds) = Len(restart_log) + k
                                            /\ rounds[k] <= restart_log[l]

IntensityInv == LogInOrder /\ RoundsLogged /\ IntensityBound

\* Times are numbers.
LEMMA TimesAreNatural ==
    ASSUME NEW q \in Seq(0 .. MaxTime)
    PROVE  \A k \in DOMAIN q : q[k] \in Nat
<1> SUFFICES ASSUME NEW k \in DOMAIN q PROVE q[k] \in Nat
  OBVIOUS
<1>1. q[k] \in 0 .. MaxTime
  BY ElementOfSeq, LenProperties
<1> QED BY <1>1, ConstantsAssumption

\* The size of an interval from one.
LEMMA CountTo ==
    ASSUME NEW k \in Nat
    PROVE  IsFiniteSet(1 .. k) /\ Cardinality(1 .. k) = k
<1>1. 1 \in Int /\ k \in Int
  OBVIOUS
<1>2. IsFiniteSet(1 .. k) /\ Cardinality(1 .. k) = IF 1 > k THEN 0 ELSE k - 1 + 1
  BY <1>1, FS_Interval
<1> QED BY <1>2

\* The pop_front loop drops stale entries only; what is left keeps its order and
\* the time of the signal comes last.
LEMMA PrunedFacts ==
    ASSUME TypeOK, LogInOrder,
           NEW n, n = Len(restart_log), NEW c, c = Cardinality(Stale)
    PROVE  /\ n \in Nat /\ c \in Nat /\ c <= n
           /\ Pruned \in Seq(0 .. MaxTime) /\ Len(Pruned) = n - c + 1
           /\ \A k \in 1 .. n - c : Pruned[k] = restart_log[k + c]
           /\ Pruned[n - c + 1] = now
           /\ \A k \in 1 .. n : restart_log[k] + Window >= now => c < k
<1>1. n \in Nat /\ DOMAIN restart_log = 1 .. n /\ restart_log \in Seq(0 .. MaxTime)
  BY LenProperties DEF TypeOK
<1>2. Stale \in SUBSET (1 .. n)
  BY <1>1 DEF Stale
<1>3. IsFiniteSet(1 .. n) /\ Cardinality(1 .. n) = n
  BY <1>1, CountTo
<1>4. IsFiniteSet(Stale) /\ c <= n
  BY <1>2, <1>3, FS_Subset
<1>5. c \in Nat
  BY <1>4, FS_CardinalityType
<1>6. ASSUME NEW k \in 1 .. n, restart_log[k] + Window >= now
      PROVE  c < k
  <2>1. ASSUME NEW l \in Stale PROVE l \in 1 .. k - 1
    <3>1. l \in 1 .. n /\ restart_log[l] + Window < now
      BY <1>1, <2>1 DEF Stale
    <3>2. restart_log[l] \in Nat /\ restart_log[k] \in Nat /\ now \in Nat /\ Window \in Nat
      BY <1>1, <3>1, ConstantsAssumption, ElementOfSeq DEF TypeOK
    <3>3. ~(k <= l)
      BY <1>1, <1>6, <3>1, <3>2 DEF LogInOrder
    <3> QED BY <1>1, <3>1, <3>3
  <2>2. Stale \in SUBSET (1 .. k - 1)
    BY <2>1
  <2>3. IsFiniteSet(1 .. k - 1) /\ Cardinality(1 .. k - 1) = k - 1
    <3>1. k - 1 \in Nat
      BY <1>1
    <3> QED BY <3>1, CountTo
  <2>4. c <= k - 1
    <3>1. Cardinality(Stale) <= Cardinality(1 .. k - 1)
      BY <2>2, <2>3, FS_Subset
    <3> QED BY <2>3, <3>1
  <2> QED BY <1>1, <1>5, <2>4
<1>7. /\ SubSeq(restart_log, c + 1, n) \in Seq(0 .. MaxTime)
      /\ Len(SubSeq(restart_log, c + 1, n)) = n - c
      /\ \A k \in 1 .. n - c : SubSeq(restart_log, c + 1, n)[k] = restart_log[k + c]
  <2>1. ASSUME NEW k \in c + 1 .. n PROVE restart_log[k] \in 0 .. MaxTime
    <3>1. k \in 1 .. n
      BY <1>1, <1>5
    <3> QED BY <1>1, <3>1, ElementOfSeq
  <2>2. SubSeq(restart_log, c + 1, n) \in Seq(0 .. MaxTime)
    BY <1>1, <1>4, <1>5, <2>1, SubSeqProperties
  <2>3. Len(SubSeq(restart_log, c + 1, n)) = n - c
    BY <1>1, <1>4, <1>5, <2>1, SubSeqProperties
  <2>4. ASSUME NEW k \in 1 .. n - c
        PROVE  SubSeq(restart_log, c + 1, n)[k] = restart_log[k + c]
    BY <1>1, <1>4, <1>5, <2>1, SubSeqProperties
  <2> QED BY <2>2, <2>3, <2>4
<1>8. Pruned = Append(SubSeq(restart_log, c + 1, n), now) /\ now \in 0 .. MaxTime
  BY DEF Pruned, TypeOK
<1>9. /\ Pruned \in Seq(0 .. MaxTime) /\ Len(Pruned) = n - c + 1
      /\ \A k \in 1 .. n - c : Pruned[k] = SubSeq(restart_log, c + 1, n)[k]
      /\ Pruned[n - c + 1] = now
  BY <1>7, <1>8, AppendProperties
<1> QED BY <1>1, <1>4, <1>5, <1>6, <1>7, <1>9

\* Taking a signal keeps the log in order, and every entry of the window in it,
\* one place further from the end.
LEMMA LogKeeps ==
    ASSUME TypeOK, LogInOrder, TakeSignal
    PROVE  /\ LogInOrder'
           /\ Len(restart_log') \in DOMAIN restart_log'
           /\ restart_log'[Len(restart_log')] = now
           /\ \A l \in DOMAIN restart_log :
                restart_log[l] + Window >= now =>
                  \E m \in DOMAIN restart_log' :
                     /\ m + Len(restart_log) + 1 = Len(restart_log') + l
                     /\ restart_log'[m] = restart_log[l]
<1> DEFINE n == Len(restart_log)
<1>0. PICK c : c = Cardinality(Stale)
  OBVIOUS
<1>1. restart_log' = Pruned /\ now' = now
  BY DEF TakeSignal
<1>2. /\ n \in Nat /\ c \in Nat /\ c <= n
      /\ Pruned \in Seq(0 .. MaxTime) /\ Len(Pruned) = n - c + 1
      /\ \A k \in 1 .. n - c : Pruned[k] = restart_log[k + c]
      /\ Pruned[n - c + 1] = now
      /\ \A k \in 1 .. n : restart_log[k] + Window >= now => c < k
  BY <1>0, PrunedFacts
<1>3. DOMAIN restart_log = 1 .. n /\ DOMAIN Pruned = 1 .. n - c + 1
  BY <1>2, LenProperties DEF TypeOK
<1>4. \A k \in 1 .. n : restart_log[k] \in Nat /\ restart_log[k] <= now
  <2> SUFFICES ASSUME NEW k \in 1 .. n
               PROVE  restart_log[k] \in Nat /\ restart_log[k] <= now
    OBVIOUS
  <2>1. restart_log[k] \in 0 .. MaxTime
    BY <1>3, ElementOfSeq DEF TypeOK
  <2> QED BY <1>3, <2>1 DEF LogInOrder
<1>5. now \in Nat
  BY DEF TypeOK
<1>6. \A k \in 1 .. n - c + 1 : Pruned[k] \in Nat /\ Pruned[k] <= now
  <2> SUFFICES ASSUME NEW k \in 1 .. n - c + 1
               PROVE  Pruned[k] \in Nat /\ Pruned[k] <= now
    OBVIOUS
  <2>1. CASE k = n - c + 1
    BY <1>2, <1>5, <2>1
  <2>2. CASE k # n - c + 1
    <3>1. k \in 1 .. n - c /\ k + c \in 1 .. n
      BY <1>2, <2>2
    <3> QED BY <1>2, <1>4, <3>1
  <2> QED BY <2>1, <2>2
<1>7. ASSUME NEW k \in 1 .. n - c + 1, NEW l \in 1 .. n - c + 1, k <= l
      PROVE  Pruned[k] <= Pruned[l]
  <2>1. CASE l = n - c + 1
    BY <1>2, <1>6, <2>1
  <2>2. CASE l # n - c + 1
    <3>1. /\ k \in 1 .. n - c /\ l \in 1 .. n - c
          /\ k + c \in 1 .. n /\ l + c \in 1 .. n /\ k + c <= l + c
      BY <1>2, <1>7, <2>2
    <3>2. restart_log[k + c] <= restart_log[l + c]
      BY <1>3, <3>1 DEF LogInOrder
    <3> QED BY <1>2, <3>1, <3>2
  <2> QED BY <2>1, <2>2
<1>8. LogInOrder'
  BY <1>1, <1>3, <1>6, <1>7 DEF LogInOrder
<1>9. ASSUME NEW l \in 1 .. n, restart_log[l] + Window >= now
      PROVE  \E m \in 1 .. n - c + 1 : m + n + 1 = n - c + 1 + l /\ Pruned[m] = restart_log[l]
  <2>1. l - c \in 1 .. n - c /\ l - c + c = l /\ l - c + n + 1 = n - c + 1 + l
    BY <1>2, <1>9
  <2>2. Pruned[l - c] = restart_log[l]
    BY <1>2, <2>1
  <2>3. l - c \in 1 .. n - c + 1
    BY <1>2, <2>1
  <2> QED BY <2>1, <2>2, <2>3
<1>10. n - c + 1 \in 1 .. n - c + 1
  BY <1>2
<1> QED BY <1>1, <1>2, <1>3, <1>8, <1>9, <1>10

\* An entry of the log for every round of the window, one place further on.
LEMMA RoundsKept ==
    ASSUME TypeOK, IntensityInv, TakeSignal,
           NEW k \in DOMAIN rounds, rounds[k] + Window >= now
    PROVE  \E m \in DOMAIN restart_log' : /\ m + Len(rounds) + 1 = Len(restart_log') + k
                                          /\ rounds[k] <= restart_log'[m]
<1>1. PICK l \in DOMAIN restart_log : /\ l + Len(rounds) = Len(restart_log) + k
                                      /\ rounds[k] <= restart_log[l]
  BY DEF IntensityInv, RoundsLogged
<1>2. rounds[k] \in Nat /\ restart_log[l] \in Nat /\ now \in Nat /\ Window \in Nat
  <2>1. rounds \in Seq(0 .. MaxTime) /\ restart_log \in Seq(0 .. MaxTime) /\ now \in Nat
    BY DEF TypeOK
  <2>2. rounds[k] \in Nat /\ restart_log[l] \in Nat
    BY <2>1, TimesAreNatural
  <2> QED BY <2>1, <2>2, ConstantsAssumption
<1>3. restart_log[l] + Window >= now
  BY <1>1, <1>2
<1>4. PICK m \in DOMAIN restart_log' : /\ m + Len(restart_log) + 1 = Len(restart_log') + l
                                       /\ restart_log'[m] = restart_log[l]
  BY <1>3, LogKeeps DEF IntensityInv
<1>5. /\ k \in Nat /\ l \in Nat /\ m \in Nat /\ Len(rounds) \in Nat
      /\ Len(restart_log) \in Nat /\ Len(restart_log') \in Nat
  <2>1. /\ rounds \in Seq(0 .. MaxTime) /\ restart_log \in Seq(0 .. MaxTime)
        /\ restart_log' \in Seq(0 .. MaxTime)
    BY PrunedType DEF TypeOK, TakeSignal
  <2>2. /\ Len(rounds) \in Nat /\ DOMAIN rounds = 1 .. Len(rounds)
        /\ Len(restart_log) \in Nat /\ DOMAIN restart_log = 1 .. Len(restart_log)
        /\ Len(restart_log') \in Nat /\ DOMAIN restart_log' = 1 .. Len(restart_log')
    BY <2>1, LenProperties
  <2> QED BY <2>2
<1>6. m + Len(rounds) + 1 = Len(restart_log') + k
  <2>1. PICK R \in Nat : R = Len(rounds)
    BY <1>5
  <2>2. PICK L \in Nat : L = Len(restart_log)
    BY <1>5
  <2>3. PICK L1 \in Nat : L1 = Len(restart_log')
    BY <1>5
  <2>4. l + R = L + k /\ m + L + 1 = L1 + l
    BY <1>1, <1>4, <2>1, <2>2, <2>3, Zenon
  <2>5. k \in Nat /\ l \in Nat /\ m \in Nat
    BY <1>5
  <2>6. m + R + 1 = L1 + k
    BY <2>4, <2>5
  <2> QED BY <2>1, <2>3, <2>6, Zenon
<1>7. rounds[k] <= restart_log'[m]
  BY <1>1, <1>4
<1> QED BY <1>6, <1>7

\* A round that is begun has at most max_restarts - 1 others in its window.
LEMMA RestartKeepsIntensity ==
    ASSUME TypeOK, IntensityInv, Restart
    PROVE  IntensityInv'
<1> DEFINE r == Len(rounds)
<1>1. TakeSignal /\ rounds' = Append(rounds, now) /\ now' = now /\ now \in 0 .. MaxTime
  BY DEF Restart, TakeSignal, TypeOK
<1>2. rounds \in Seq(0 .. MaxTime) /\ r \in Nat /\ DOMAIN rounds = 1 .. r
  BY LenProperties DEF TypeOK
<1>3. /\ Len(rounds') = r + 1 /\ DOMAIN rounds' = 1 .. r + 1
      /\ rounds'[r + 1] = now /\ \A k \in 1 .. r : rounds'[k] = rounds[k]
  BY <1>1, <1>2, AppendProperties, LenProperties
<1>4. Len(restart_log') \in Nat /\ DOMAIN restart_log' = 1 .. Len(restart_log')
  BY <1>1, PrunedType, LenProperties DEF TakeSignal
<1>5. Len(restart_log') <= MaxRestarts /\ MaxRestarts \in Nat /\ Window \in Nat
  BY <1>1, ConstantsAssumption DEF Restart, TakeSignal, Exceeded
<1>6. /\ LogInOrder'
      /\ Len(restart_log') \in DOMAIN restart_log'
      /\ restart_log'[Len(restart_log')] = now
  BY <1>1, LogKeeps DEF IntensityInv
<1>7. ASSUME NEW k \in 1 .. r
      PROVE  /\ rounds[k] \in Nat /\ rounds[k] <= now
             /\ rounds[k] + Window >= now =>
                  \E m \in DOMAIN restart_log' : /\ m + (r + 1) = Len(restart_log') + k
                                                 /\ rounds[k] <= restart_log'[m]
  <2>1. rounds[k] \in 0 .. MaxTime /\ rounds[k] <= now
    BY <1>2, ElementOfSeq DEF IntensityInv, RoundsLogged
  <2>2. ASSUME rounds[k] + Window >= now
        PROVE  \E m \in DOMAIN restart_log' : /\ m + (r + 1) = Len(restart_log') + k
                                              /\ rounds[k] <= restart_log'[m]
    <3>1. PICK m \in DOMAIN restart_log' : /\ m + Len(rounds) + 1 = Len(restart_log') + k
                                           /\ rounds[k] <= restart_log'[m]
      BY <1>1, <1>2, <2>2, RoundsKept
    <3>2. m + (r + 1) = Len(restart_log') + k
      BY <1>2, <1>4, <3>1
    <3> QED BY <3>1, <3>2
  <2> QED BY <2>1, <2>2
<1>8. RoundsLogged'
  <2> SUFFICES ASSUME NEW k \in 1 .. r + 1
               PROVE  /\ rounds'[k] <= now
                      /\ rounds'[k] + Window >= now =>
                           \E l \in DOMAIN restart_log' : /\ l + (r + 1) = Len(restart_log') + k
                                                          /\ rounds'[k] <= restart_log'[l]
    BY <1>1, <1>3 DEF RoundsLogged
  <2>1. CASE k = r + 1
    <3>1. rounds'[k] <= now
      BY <1>1, <1>3, <2>1
    <3>2. Len(restart_log') + (r + 1) = Len(restart_log') + k /\ rounds'[k] <= restart_log'[Len(restart_log')]
      BY <1>3, <1>6, <2>1, <3>1
    <3> QED BY <1>6, <3>1, <3>2
  <2>2. CASE k # r + 1
    <3>1. k \in 1 .. r
      BY <1>2, <2>2
    <3> QED BY <1>3, <1>7, <3>1
  <2> QED BY <2>1, <2>2
<1>9. IntensityBound'
  <2> SUFFICES ASSUME NEW k \in 1 .. r + 1, k + MaxRestarts \in 1 .. r + 1
               PROVE  rounds'[k] + Window < rounds'[k + MaxRestarts]
    BY <1>3 DEF IntensityBound
  <2>1. CASE k + MaxRestarts = r + 1
    <3>1. MaxRestarts >= 1
      BY <1>4, <1>5, <1>6
    <3>2. k \in 1 .. r /\ rounds'[k] = rounds[k] /\ rounds'[k + MaxRestarts] = now
      BY <1>2, <1>3, <1>5, <2>1, <3>1
    <3>3. ASSUME rounds[k] + Window >= now PROVE FALSE
      <4>1. PICK m \in DOMAIN restart_log' : m + (r + 1) = Len(restart_log') + k
        BY <1>7, <3>2, <3>3
      <4> QED BY <1>2, <1>4, <1>5, <2>1, <4>1
    <3> QED BY <1>1, <1>5, <1>7, <3>2, <3>3
  <2>2. CASE k + MaxRestarts # r + 1
    <3>1. k \in 1 .. r /\ k + MaxRestarts \in 1 .. r
      BY <1>2, <1>5, <2>2
    <3> QED BY <1>2, <1>3, <3>1 DEF IntensityInv, IntensityBound
  <2> QED BY <2>1, <2>2
<1> QED BY <1>6, <1>8, <1>9 DEF IntensityInv

\* A signal that is not answered is logged all the same: the entries of the
\* rounds only get later.
LEMMA RefusalKeepsIntensity ==
    ASSUME TypeOK, IntensityInv, TakeSignal, rounds' = rounds
    PROVE  IntensityInv'
<1> DEFINE r == Len(rounds)
<1>1. now' = now /\ now \in 0 .. MaxTime
  BY DEF TakeSignal, TypeOK
<1>2. r \in Nat /\ DOMAIN rounds = 1 .. r
  BY LenProperties DEF TypeOK
<1>3. restart_log' \in Seq(0 .. MaxTime)
  BY PrunedType DEF TakeSignal
<1>4. Len(restart_log') \in Nat /\ DOMAIN restart_log' = 1 .. Len(restart_log')
  BY <1>3, LenProperties
<1>5. /\ LogInOrder'
      /\ Len(restart_log') \in DOMAIN restart_log'
      /\ restart_log'[Len(restart_log')] = now
  BY LogKeeps DEF IntensityInv
<1>6. ASSUME NEW k \in 1 .. r, rounds[k] + Window >= now
      PROVE  \E l \in DOMAIN restart_log' : /\ l + r = Len(restart_log') + k
                                            /\ rounds[k] <= restart_log'[l]
  <2>1. PICK m \in DOMAIN restart_log' : /\ m + r + 1 = Len(restart_log') + k
                                         /\ rounds[k] <= restart_log'[m]
    BY <1>2, <1>6, RoundsKept
  <2>2. m + 1 + r = Len(restart_log') + k /\ m + 1 \in DOMAIN restart_log'
    BY <1>2, <1>4, <2>1
  <2>3. restart_log'[m] <= restart_log'[m + 1]
    BY <1>4, <1>5, <2>1, <2>2 DEF LogInOrder
  <2>4. rounds[k] \in 0 .. MaxTime
    BY <1>2, ElementOfSeq DEF TypeOK
  <2>5. restart_log'[m] \in 0 .. MaxTime /\ restart_log'[m + 1] \in 0 .. MaxTime
    BY <1>3, <1>4, <2>1, <2>2, ElementOfSeq
  <2>6. rounds[k] <= restart_log'[m + 1]
    BY <2>1, <2>3, <2>4, <2>5
  <2> QED BY <2>2, <2>6
<1>7. RoundsLogged'
  BY <1>1, <1>2, <1>6 DEF IntensityInv, RoundsLogged
<1>8. IntensityBound'
  BY DEF IntensityInv, IntensityBound
<1> QED BY <1>5, <1>7, <1>8 DEF IntensityInv

\* Each step of a supervisor keeps the intensity invariant.
LEMMA IntensityStep == TypeOK /\ IntensityInv /\ [Next]_vars => IntensityInv'
<1> SUFFICES ASSUME TypeOK, IntensityInv, [Next]_vars PROVE IntensityInv'
  OBVIOUS
<1> USE DEF supVars, regVars, childVars, history
<1>1. CASE Restart
  BY <1>1, RestartKeepsIntensity
<1>2. CASE IntensityShutdown \/ Abandon
  BY <1>2, RefusalKeepsIntensity DEF IntensityShutdown, Abandon
<1>3. CASE Tick
  <2>1. now' = now + 1 /\ UNCHANGED <<rounds, restart_log>> /\ now \in Nat /\ Window \in Nat
    BY <1>3, ConstantsAssumption DEF Tick, TypeOK
  <2>2. \A k \in DOMAIN restart_log : restart_log[k] \in Nat
    BY TimesAreNatural DEF TypeOK
  <2>3. \A k \in DOMAIN rounds : rounds[k] \in Nat
    BY TimesAreNatural DEF TypeOK
  <2>4. LogInOrder'
    BY <2>1, <2>2 DEF IntensityInv, LogInOrder
  <2>5. RoundsLogged'
    <3> SUFFICES ASSUME NEW k \in DOMAIN rounds
                 PROVE  /\ rounds[k] <= now + 1
                        /\ rounds[k] + Window >= now + 1 =>
                             \E l \in DOMAIN restart_log : /\ l + Len(rounds) = Len(restart_log) + k
                                                           /\ rounds[k] <= restart_log[l]
      BY <2>1 DEF RoundsLogged
    <3>1. rounds[k] <= now + 1
      BY <2>1, <2>3 DEF IntensityInv, RoundsLogged
    <3>2. ASSUME rounds[k] + Window >= now + 1 PROVE rounds[k] + Window >= now
      BY <2>1, <2>3, <3>2
    <3> QED BY <3>1, <3>2 DEF IntensityInv, RoundsLogged
  <2>6. IntensityBound'
    BY <2>1 DEF IntensityInv, IntensityBound
  <2> QED BY <2>4, <2>5, <2>6 DEF IntensityInv
<1>4. ASSUME UNCHANGED <<rounds, restart_log, now>> PROVE IntensityInv'
  BY <1>4 DEF IntensityInv, LogInOrder, RoundsLogged, IntensityBound
<1>5. ASSUME NEW i \in Inst, ChildStep(i) PROVE IntensityInv'
  BY <1>4, <1>5 DEF ChildStep, PreStartOk, PreStartErr, Serve, MailboxClosed, Notify, Exit, Die
<1>6. ASSUME NEW i \in Inst, NEW e \in {"Msg", "Kill"}, Send(i, e) PROVE IntensityInv'
  BY <1>4, <1>6 DEF Send
<1>7. ASSUME NEW s \in Slot, \/ Factory(s) \/ StartChild(s) \/ StartFails(s) \/ RestartChild(s)
                             \/ RestartChildFails(s) \/ StopChild(s)
      PROVE  IntensityInv'
  BY <1>4, <1>7 DEF Factory, StartChild, StartFails, RestartChild, FactoryReturns, RestartChildFails,
                  StopChild
<1>8. CASE Started \/ RestartDone \/ Shutdown \/ Stopped \/ CallStop \/ DropHandle \/ UNCHANGED vars
  BY <1>4, <1>8 DEF Started, RestartDone, Shutdown, Stopped, CallStop, DropHandle, vars
<1> QED BY <1>1, <1>2, <1>3, <1>5, <1>6, <1>7, <1>8 DEF Next, SupStep

\* Restart intensity holds for every strategy, intensity, window and order of
\* failures: max_restarts + 1 rounds in a row take longer than within_secs, also
\* when signals are refused in between (AbandonChild), since those are logged too.
THEOREM IntensityIsBounded == Spec => []IntensityBound
<1>1. Init => TypeOK /\ IntensityInv
  <2>1. Init => IntensityInv
    BY DEF Init, IntensityInv, LogInOrder, RoundsLogged, IntensityBound
  <2> QED BY <2>1, InitTypeOK
<1>2. TypeOK /\ IntensityInv /\ [Next]_vars => (TypeOK /\ IntensityInv)'
  BY TypeOKStep, IntensityStep
<1>3. IntensityInv => IntensityBound
  BY DEF IntensityInv
<1> QED BY <1>1, <1>2, <1>3, PTL DEF Spec

-----------------------------------------------------------------------------
(* What is spawned for a slot.                                              *)

Instances(s) == {i \in Inst : slotOf[i] = s}

\* Finiteness of everything that is counted below.
LEMMA InstFinite == \A S \in SUBSET Inst : IsFiniteSet(S) /\ Cardinality(S) \in Nat
<1>1. IsFiniteSet(Inst)
  BY CountTo, ConstantsAssumption DEF Inst
<1> SUFFICES ASSUME NEW S \in SUBSET Inst PROVE IsFiniteSet(S) /\ Cardinality(S) \in Nat
  OBVIOUS
<1>2. IsFiniteSet(S)
  BY <1>1, FS_Subset
<1> QED BY <1>2, FS_CardinalityType

\* A factory call gives its slot one instance more, with a fresh id, and leaves
\* the other slots alone.
LEMMA Spawned ==
    ASSUME TypeOK, IdsInOrder, NEW s \in Slot, Factory(s)
    PROVE  /\ IdsInOrder'
           /\ next \in Inst /\ phase[next] = "unborn" /\ phase'[next] = "starting"
           /\ born = DEAD /\ born' = next
           /\ next \notin Instances(s) /\ slotOf[next] = 0 /\ slotOf'[next] = s
           /\ Instances(s)' = Instances(s) \cup {next}
           /\ \A t \in Slot \ {s} : Instances(t)' = Instances(t)
           /\ \A i \in Inst \ {next} : phase'[i] = phase[i] /\ slotOf'[i] = slotOf[i]
<1>1. next \in Inst /\ next' = next + 1 /\ s # 0 /\ 0 \notin Slot
  BY ConstantsAssumption DEF Factory, Slot
<1>2. /\ \A i \in Inst \ {next} : phase'[i] = phase[i] /\ slotOf'[i] = slotOf[i]
      /\ phase'[next] = "starting" /\ slotOf'[next] = s
  BY <1>1 DEF Factory, TypeOK
<1>3. next \in Nat /\ \A i \in Inst : i \in Nat
  BY <1>1, ConstantsAssumption DEF Inst
<1>4. phase[next] = "unborn" /\ slotOf[next] = 0
  BY <1>1, <1>3 DEF IdsInOrder
<1>5. IdsInOrder'
  <2> SUFFICES ASSUME NEW i \in Inst
               PROVE  /\ phase'[i] = "unborn" <=> i >= next'
                      /\ slotOf'[i] = 0 <=> i >= next'
    BY DEF IdsInOrder
  <2>1. CASE i = next
    BY <1>1, <1>2, <1>3, <2>1
  <2>2. CASE i # next
    <3>1. i >= next' <=> i >= next
      BY <1>1, <1>3, <2>2
    <3> QED BY <1>2, <2>2, <3>1 DEF IdsInOrder
  <2> QED BY <2>1, <2>2
<1>6. Instances(s)' = Instances(s) \cup {next}
  BY <1>1, <1>2, <1>4 DEF Instances
<1>7. \A t \in Slot \ {s} : Instances(t)' = Instances(t)
  BY <1>1, <1>2, <1>4 DEF Instances
<1>8. born = DEAD /\ born' = next
  BY DEF Factory
<1> QED BY <1>1, <1>2, <1>4, <1>5, <1>6, <1>7, <1>8 DEF Instances

\* What follows a spawn: its factory returns.
Returns(s) == StartChild(s) \/ RestartChild(s)

\* Whatever else happens leaves ids, slots, registry and current_refs alone.
NoSpawn ==
    /\ UNCHANGED <<next, slotOf, born, refs, generations, current_refs>>
    /\ \A i \in Inst : phase'[i] = "unborn" <=> phase[i] = "unborn"

\* Every step is a spawn, a return or leaves ids, slots and the registry alone.
LEMMA SpawnOrNot ==
    ASSUME TypeOK, [Next]_vars
    PROVE  NoSpawn \/ \E s \in Slot : Factory(s) \/ Returns(s)
<1> USE DEF supVars, regVars, childVars, history
<1>1. ASSUME NEW i \in Inst, ChildStep(i) PROVE NoSpawn
  <2>1. UNCHANGED <<next, slotOf, born, refs, generations, current_refs>>
    BY <1>1 DEF ChildStep, PreStartOk, PreStartErr, Serve, MailboxClosed, Notify, Exit, Die
  <2>2. /\ phase[i] # "unborn" /\ phase'[i] # "unborn"
        /\ \A j \in Inst \ {i} : phase'[j] = phase[j]
    BY <1>1 DEF ChildStep, PreStartOk, PreStartErr, Serve, MailboxClosed, Notify, Exit, Die, TypeOK
  <2> QED BY <2>1, <2>2 DEF NoSpawn
<1>2. ASSUME NEW i \in Inst, NEW e \in {"Msg", "Kill"}, Send(i, e) PROVE NoSpawn
  BY <1>2 DEF Send, NoSpawn
<1>3. ASSUME NEW s \in Slot, StartFails(s) \/ RestartChildFails(s) \/ StopChild(s) PROVE NoSpawn
  BY <1>3 DEF StartFails, RestartChildFails, StopChild, NoSpawn
<1>4. CASE Restart \/ IntensityShutdown \/ Abandon
  BY <1>4 DEF Restart, IntensityShutdown, Abandon, TakeSignal, NoSpawn
<1>5. CASE Started \/ RestartDone \/ Shutdown \/ Stopped \/ CallStop \/ DropHandle \/ Tick \/ UNCHANGED vars
  BY <1>5 DEF Started, RestartDone, Shutdown, Stopped, CallStop, DropHandle, Tick, vars, NoSpawn
<1> QED BY <1>1, <1>2, <1>3, <1>4, <1>5 DEF Next, SupStep, Returns

\* Ids are handed out in order under every strategy.
LEMMA IdsStep == TypeOK /\ IdsInOrder /\ [Next]_vars => IdsInOrder'
<1> SUFFICES ASSUME TypeOK, IdsInOrder, [Next]_vars PROVE IdsInOrder'
  OBVIOUS
<1>1. CASE NoSpawn
  BY <1>1 DEF NoSpawn, IdsInOrder
<1>2. ASSUME NEW s \in Slot, Factory(s) PROVE IdsInOrder'
  BY <1>2, Spawned
<1>3. ASSUME NEW s \in Slot, Returns(s) PROVE IdsInOrder'
  BY <1>3 DEF Returns, StartChild, RestartChild, FactoryReturns, IdsInOrder
<1> QED BY <1>1, <1>2, <1>3, SpawnOrNot

\* ChildRegistry::track_and_bump counts the instances of a name, but for the one
\* whose factory still waits for the lock.
GenerationsCount ==
    UseRegistry => \A s \in Slot : generations[s] = Cardinality(Instances(s) \ {born})

\* The generation of a name grows when a factory returns, by the instance it
\* spawned.
LEMMA GenerationsStep ==
    TypeOK /\ IdsInOrder /\ BornIsFirst /\ GenerationsCount /\ [Next]_vars => GenerationsCount'
<1> SUFFICES ASSUME TypeOK, IdsInOrder, BornIsFirst, GenerationsCount, [Next]_vars, UseRegistry,
                    NEW t \in Slot
             PROVE  generations'[t] = Cardinality(Instances(t)' \ {born'})
  BY DEF GenerationsCount
<1>1. CASE NoSpawn
  BY <1>1 DEF NoSpawn, GenerationsCount, Instances
<1>2. ASSUME NEW s \in Slot, Factory(s)
      PROVE  generations'[t] = Cardinality(Instances(t)' \ {born'})
  <2>1. /\ born = DEAD /\ born' = next /\ next \notin Instances(t)
        /\ Instances(t)' = IF t = s THEN Instances(t) \cup {next} ELSE Instances(t)
    BY <1>2, Spawned, ConstantsAssumption DEF Instances, Slot
  <2>2. Instances(t)' \ {born'} = Instances(t) \ {born}
    <3>1. DEAD \notin Instances(t)
      BY ConstantsAssumption DEF Instances, Inst, DEAD
    <3> QED BY <2>1, <3>1
  <2>3. generations' = generations
    BY <1>2 DEF Factory, regVars
  <2> QED BY <2>2, <2>3 DEF GenerationsCount
<1>3. ASSUME NEW s \in Slot, Returns(s)
      PROVE  generations'[t] = Cardinality(Instances(t)' \ {born'})
  <2>1. FactoryReturns(s)
    BY <1>3 DEF Returns, StartChild, RestartChild
  <2>2. /\ generations' = [generations EXCEPT ![s] = @ + 1]
        /\ born' = DEAD /\ Instances(t)' = Instances(t)
    BY <2>1 DEF FactoryReturns, TrackAndBump, Instances
  <2>3. born \in Instances(s) /\ (t # s => born \notin Instances(t))
    BY <2>1, BornFor DEF Instances
  <2>4. Instances(t)' \ {born'} = Instances(t)
    BY <2>2, ConstantsAssumption DEF Instances, Inst, DEAD
  <2>5. CASE t = s
    <3>1. PICK A : A = Instances(s) \ {born}
      OBVIOUS
    <3>2. IsFiniteSet(A) /\ born \notin A /\ Instances(s) = A \cup {born}
      BY <2>3, <3>1, InstFinite DEF Instances
    <3>3. Cardinality(A \cup {born}) = Cardinality(A) + 1
      BY <3>2, FS_AddElement
    <3>4. generations'[s] = generations[s] + 1 /\ generations[s] = Cardinality(A)
      BY <2>2, <3>1 DEF TypeOK, GenerationsCount
    <3> QED BY <2>4, <2>5, <3>2, <3>3, <3>4
  <2>6. CASE t # s
    <3>1. generations'[t] = generations[t] /\ Instances(t) \ {born} = Instances(t)
      BY <2>2, <2>3, <2>6 DEF TypeOK
    <3> QED BY <2>4, <3>1 DEF GenerationsCount
  <2> QED BY <2>5, <2>6
<1> QED BY <1>1, <1>2, <1>3, SpawnOrNot

\* Under OneForOne what the ChildRegistry publishes for a name is the instance
\* that serves, and its generation the number of instances the name has had,
\* except for the one a factory has spawned and waits to publish.
THEOREM RegistryPublishesServing ==
    ASSUME Strategy = "OneForOne"
    PROVE  Spec => []ServingIsPublished
<1> DEFINE Inv == TypeOK /\ OneForOneInv /\ GenerationsCount
<1>1. Init => Inv
  <2>1. Init => GenerationsCount
    <3> SUFFICES ASSUME Init, NEW s \in Slot
                 PROVE  generations[s] = Cardinality(Instances(s) \ {born})
      BY DEF GenerationsCount
    <3>1. Instances(s) \ {born} = {} /\ generations[s] = 0
      BY ConstantsAssumption DEF Init, Instances, Slot
    <3> QED BY <3>1, FS_EmptySet
  <2> QED BY <2>1, InitTypeOK, InitOneForOne
<1>2. Inv /\ [Next]_vars => Inv'
  BY TypeOKStep, OneForOneStep, GenerationsStep DEF OneForOneInv
<1>3. Inv => ServingIsPublished
  <2> SUFFICES ASSUME Inv, UseRegistry PROVE ServingIsPublished
    BY DEF ServingIsPublished
  <2>1. \A i \in Inst : Serving(i) /\ i # born => refs[slotOf[i]] = i
    BY DEF OneForOneInv, ActivePublished, Settled, Active, Serving
  <2>2. \A s \in Slot : {i \in Inst : slotOf[i] = s /\ i # born} = Instances(s) \ {born}
    BY DEF Instances
  <2> QED BY <2>1, <2>2 DEF ServingIsPublished, GenerationsCount
<1> QED BY <1>1, <1>2, <1>3, PTL DEF Spec
-----------------------------------------------------------------------------
(* AbandonChild.                                                            *)

\* A slot that was given up has no id a signal could name, and the restart loop
\* is not about to visit it.
GivenUp ==
    /\ sup = "starting" => abandoned = {}
    /\ \A s \in abandoned : slotId[s] = DEAD /\ (sup = "restart" => s \notin todo)

\* A given-up slot keeps no id that a signal could match, and no round visits
\* it.
LEMMA GivenUpStep ==
    ASSUME Strategy = "OneForOne", TypeOK, GivenUp, [Next]_vars
    PROVE  GivenUp'
<1> USE DEF supVars, regVars, childVars, history
<1>1. ASSUME NEW s \in Slot, StartChild(s) PROVE GivenUp'
  BY <1>1 DEF StartChild, FactoryReturns, First, GivenUp, TypeOK
<1>2. ASSUME NEW s \in Slot, RestartChild(s) PROVE GivenUp'
  BY <1>2 DEF RestartChild, FactoryReturns, First, GivenUp, TypeOK
<1>3. ASSUME NEW s \in Slot, RestartChildFails(s) PROVE GivenUp'
  BY <1>3 DEF RestartChildFails, First, GivenUp, TypeOK
<1>4. ASSUME TakeSignal PROVE Head(signals) \in Inst /\ Head(signals) # DEAD
  <2>1. Head(signals) \in Inst
    BY <1>4, HeadTailProperties DEF TakeSignal, TypeOK
  <2> QED BY <2>1, ConstantsAssumption DEF Inst, DEAD
<1>5. CASE Restart
  <2>1. /\ TakeSignal /\ sup' = "restart" /\ UNCHANGED <<slotId, abandoned>>
        /\ todo' = {s \in Slot : slotId[s] = Head(signals)}
    BY <1>5 DEF Restart, ToRestart, Occupants
  <2> QED BY <1>4, <2>1 DEF GivenUp
<1>6. CASE IntensityShutdown
  BY <1>6 DEF IntensityShutdown, TakeSignal, GivenUp
<1>7. CASE Abandon
  <2>1. /\ sup = "select" /\ sup' = "select"
        /\ slotId' = [s \in Slot |-> IF slotId[s] = Head(signals) THEN DEAD ELSE slotId[s]]
        /\ abandoned' = abandoned \cup {s \in Slot : slotId[s] = Head(signals)}
    BY <1>7 DEF Abandon, TakeSignal, Occupants
  <2> QED BY <2>1 DEF GivenUp, TypeOK
<1>8. ASSUME UNCHANGED <<slotId, abandoned>>,
             UNCHANGED <<sup, todo>> \/ sup' \notin {"starting", "restart"}
      PROVE  GivenUp'
  BY <1>8 DEF GivenUp
<1>9. ASSUME NEW i \in Inst, ChildStep(i) PROVE GivenUp'
  BY <1>8, <1>9 DEF ChildStep, PreStartOk, PreStartErr, Serve, MailboxClosed, Notify, Exit, Die
<1>10. ASSUME NEW i \in Inst, NEW e \in {"Msg", "Kill"}, Send(i, e) PROVE GivenUp'
  BY <1>8, <1>10 DEF Send
<1>11. ASSUME NEW s \in Slot, Factory(s) \/ StartFails(s) \/ StopChild(s) PROVE GivenUp'
  BY <1>8, <1>11 DEF Factory, StartFails, StopChild
<1>12. CASE Started \/ RestartDone \/ Shutdown \/ Stopped \/ CallStop \/ DropHandle \/ Tick \/ UNCHANGED vars
  BY <1>8, <1>12 DEF Started, RestartDone, Shutdown, Stopped, CallStop, DropHandle, Tick, vars
<1> QED
  BY <1>1, <1>2, <1>3, <1>5, <1>6, <1>7, <1>9, <1>10, <1>11, <1>12 DEF Next, SupStep

\* Under OneForOne a child that was given up is never restarted, whatever
\* signals of it or of its siblings are still queued.
THEOREM AbandonedStayDown ==
    ASSUME Strategy = "OneForOne"
    PROVE  Spec => AbandonedStaysDown
<1> DEFINE Inv == TypeOK /\ GivenUp
<1>1. Init => Inv
  BY InitTypeOK DEF Init, GivenUp
<1>2. Inv /\ [Next]_vars => Inv'
  BY TypeOKStep, GivenUpStep
<1>3. Inv /\ [Next]_vars => [\A s \in abandoned : current_refs'[s] = current_refs[s]]_vars
  <2> SUFFICES ASSUME Inv, [Next]_vars, NEW t \in abandoned
               PROVE  current_refs'[t] = current_refs[t]
    OBVIOUS
  <2>1. CASE NoSpawn
    BY <2>1 DEF NoSpawn
  <2>2. ASSUME NEW s \in Slot, Factory(s) PROVE current_refs'[t] = current_refs[t]
    BY <2>2 DEF Factory, supVars
  <2>3. ASSUME NEW s \in Slot, Returns(s) PROVE current_refs'[t] = current_refs[t]
    <3>1. /\ s \in todo /\ sup \in {"starting", "restart"}
          /\ current_refs' = [current_refs EXCEPT ![s] = born]
      BY <2>3 DEF Returns, StartChild, RestartChild, FactoryReturns, First
    <3>2. t # s
      BY <3>1 DEF GivenUp
    <3> QED BY <3>1, <3>2 DEF TypeOK
  <2> QED BY <2>1, <2>2, <2>3, SpawnOrNot
<1> QED BY <1>1, <1>2, <1>3, PTL DEF Spec, AbandonedStaysDown

-----------------------------------------------------------------------------
(* Restarts and the failures that cause them.                               *)

Queued == {signals[k] : k \in DOMAIN signals}

\* One for a slot that the spawn or the restart loop has still to spawn for.
Pending(s) == IF sup \in {"starting", "restart"} /\ s \in todo /\ ~Filling(s) THEN 1 ELSE 0

\* An instance signals once: after its signal it only exits.
SignalsOnce ==
    /\ \A i \in failed : phase[i] \in {"exiting", "dead"}
    /\ Queued \subseteq failed
    /\ \A k, l \in DOMAIN signals : signals[k] = signals[l] => k = l

\* A slot's id is that of an instance spawned for it.
SlotIdsOwn == \A s \in Slot : slotId[s] # DEAD => slotOf[slotId[s]] = s

\* Every instance of a slot but the first, spawned or about to be, is paid for
\* by a cause whose signal has left the channel.
Charged ==
    \A s \in Slot :
        Cardinality(Instances(s)) + Pending(s) <= 1 + Cardinality(Causes(s) \ Queued)

CauseInv == IdsInOrder /\ BornIsFirst /\ SignalsOnce /\ SlotIdsOwn /\ Charged

\* What counts does not shrink: the bound survives a step that spawns nothing,
\* fills no loop and leaves every paid cause paid.
LEMMA StillCharged ==
    ASSUME TypeOK, TypeOK', Charged, slotOf' = slotOf,
           \A s \in Slot : Pending(s)' <= Pending(s),
           \A s \in Slot : Causes(s) \ Queued \subseteq (Causes(s) \ Queued)'
    PROVE  Charged'
<1> SUFFICES ASSUME NEW s \in Slot
             PROVE  Cardinality(Instances(s)') + Pending(s)' <= 1 + Cardinality((Causes(s) \ Queued)')
  BY DEF Charged
<1>1. Instances(s)' = Instances(s)
  BY DEF Instances
<1>2. PICK A : A = Causes(s) \ Queued
  OBVIOUS
<1>3. PICK B : B = (Causes(s) \ Queued)'
  OBVIOUS
<1>4. A \subseteq B /\ B \in SUBSET Inst /\ A \in SUBSET Inst
  BY <1>2, <1>3 DEF Causes, TypeOK
<1>5. Cardinality(A) <= Cardinality(B) /\ Cardinality(A) \in Nat /\ Cardinality(B) \in Nat
  BY <1>4, InstFinite, FS_Subset
<1>6. Pending(s) \in Nat /\ Pending(s)' \in Nat /\ Pending(s)' <= Pending(s)
  BY DEF Pending
<1>7. Cardinality(Instances(s)) \in Nat
  BY InstFinite DEF Instances
<1>8. Cardinality(Instances(s)) + Pending(s) <= 1 + Cardinality(A)
  BY <1>2 DEF Charged
<1> QED BY <1>1, <1>3, <1>5, <1>6, <1>7, <1>8

\* Under every strategy a factory runs for the slot the loop has come to.
LEMMA BornStep ==
    ASSUME TypeOK, BornIsFirst, [Next]_vars
    PROVE  BornIsFirst'
<1> USE DEF supVars, regVars, childVars, history
<1>1. ASSUME UNCHANGED <<born, slotOf, sup, todo>> PROVE BornIsFirst'
  BY <1>1 DEF BornIsFirst, First
<1>2. ASSUME born = DEAD, born' = DEAD PROVE BornIsFirst'
  BY <1>2 DEF BornIsFirst
<1>3. ASSUME NEW i \in Inst, ChildStep(i) PROVE BornIsFirst'
  BY <1>1, <1>3 DEF ChildStep, PreStartOk, PreStartErr, Serve, MailboxClosed, Notify, Exit, Die
<1>4. ASSUME NEW i \in Inst, NEW e \in {"Msg", "Kill"}, Send(i, e) PROVE BornIsFirst'
  BY <1>1, <1>4 DEF Send
<1>5. ASSUME NEW s \in Slot, Factory(s) PROVE BornIsFirst'
  <2>1. /\ sup \in {"starting", "restart"} /\ First(s) /\ next \in Inst /\ born' = next
        /\ slotOf' = [slotOf EXCEPT ![next] = s] /\ UNCHANGED <<sup, todo>>
    BY <1>5 DEF Factory
  <2>2. slotOf'[next] = s
    BY <2>1 DEF TypeOK
  <2> QED BY <2>1, <2>2 DEF BornIsFirst, First
<1>6. ASSUME NEW s \in Slot, StartChild(s) \/ RestartChild(s) PROVE BornIsFirst'
  BY <1>6 DEF StartChild, RestartChild, FactoryReturns, BornIsFirst
<1>7. ASSUME NEW s \in Slot, StartFails(s) \/ RestartChildFails(s) PROVE BornIsFirst'
  BY <1>2, <1>7 DEF StartFails, RestartChildFails
<1>8. ASSUME NEW s \in Slot, StopChild(s) PROVE BornIsFirst'
  BY <1>2, <1>8 DEF StopChild, BornIsFirst
<1>9. CASE Started \/ RestartDone
  BY <1>2, <1>9 DEF Started, RestartDone, BornIsFirst, First
<1>10. CASE Restart \/ IntensityShutdown \/ Abandon \/ Shutdown \/ Stopped
  BY <1>2, <1>10 DEF Restart, IntensityShutdown, Abandon, TakeSignal, Shutdown, Stopped, BornIsFirst
<1>11. CASE CallStop \/ DropHandle \/ Tick \/ UNCHANGED vars
  BY <1>1, <1>11 DEF CallStop, DropHandle, Tick, vars
<1> QED BY <1>3, <1>4, <1>5, <1>6, <1>7, <1>8, <1>9, <1>10, <1>11 DEF Next, SupStep

\* Spawning for a slot turns what is pending into an instance.
LEMMA SpawnCharged ==
    ASSUME TypeOK, TypeOK', CauseInv, NEW s \in Slot, Factory(s)
    PROVE  CauseInv'
<1> USE DEF supVars, regVars, history
<1>1. /\ s \in todo /\ sup \in {"starting", "restart"}
      /\ UNCHANGED <<sup, todo, slotId, signals, failed>>
  BY DEF Factory, First
<1>2. /\ IdsInOrder'
      /\ next \in Inst /\ phase[next] = "unborn" /\ born = DEAD /\ born' = next
      /\ next \notin Instances(s) /\ slotOf[next] = 0 /\ slotOf'[next] = s
      /\ Instances(s)' = Instances(s) \cup {next}
      /\ \A t \in Slot \ {s} : Instances(t)' = Instances(t)
      /\ \A i \in Inst \ {next} : phase'[i] = phase[i] /\ slotOf'[i] = slotOf[i]
  BY Spawned DEF CauseInv
<1>3. next \notin failed /\ failed \subseteq Inst
  BY <1>2 DEF CauseInv, SignalsOnce, TypeOK
<1>4. SignalsOnce'
  BY <1>1, <1>2, <1>3 DEF CauseInv, SignalsOnce, Queued
<1>5. SlotIdsOwn'
  <2> SUFFICES ASSUME NEW t \in Slot, slotId[t] # DEAD PROVE slotOf'[slotId[t]] = t
    BY <1>1 DEF SlotIdsOwn
  <2>1. slotId[t] \in Inst /\ slotOf[slotId[t]] = t
    BY DEF TypeOK, CauseInv, SlotIdsOwn
  <2>2. slotId[t] # next
    BY <1>2, <2>1, ConstantsAssumption DEF Slot
  <2> QED BY <1>2, <2>1, <2>2
<1>6. \A t \in Slot : (Causes(t) \ Queued)' = Causes(t) \ Queued
  BY <1>1, <1>2, <1>3 DEF Causes, Queued
<1>7. ASSUME NEW t \in Slot
      PROVE  Cardinality(Instances(t)') + Pending(t)' = Cardinality(Instances(t)) + Pending(t)
  <2>0. next # DEAD
    BY <1>2, ConstantsAssumption DEF Inst, DEAD
  <2>1. CASE t = s
    <3>1. IsFiniteSet(Instances(s)) /\ Cardinality(Instances(s)) \in Nat
      BY InstFinite DEF Instances
    <3>2. Cardinality(Instances(s)') = Cardinality(Instances(s)) + 1
      <4>1. next \notin Instances(s) /\ Instances(s)' = Instances(s) \cup {next}
        BY <1>2
      <4>2. Cardinality(Instances(s) \cup {next}) = Cardinality(Instances(s)) + 1
        BY <3>1, <4>1, FS_AddElement
      <4> QED BY <4>1, <4>2
    <3>3. Pending(s) = 1 /\ Pending(s)' = 0
      BY <1>1, <1>2, <2>0 DEF Pending, Filling
    <3> QED BY <2>1, <3>1, <3>2, <3>3
  <2>2. CASE t # s
    <3>1. Pending(t)' = Pending(t)
      BY <1>1, <1>2, <2>2 DEF Pending, Filling
    <3> QED BY <1>2, <2>2, <3>1
  <2> QED BY <2>1, <2>2
<1>8. Charged'
  BY <1>6, <1>7 DEF CauseInv, Charged
<1>9. BornIsFirst'
  BY <1>1, <1>2 DEF Factory, BornIsFirst, First
<1> QED BY <1>2, <1>4, <1>5, <1>8, <1>9 DEF CauseInv

\* When its factory returns the slot is neither pending nor filled once more.
LEMMA ReturnCharged ==
    ASSUME TypeOK, TypeOK', CauseInv, NEW s \in Slot, FactoryReturns(s)
    PROVE  CauseInv'
<1> USE DEF history
<1>1. /\ UNCHANGED <<sup, signals, failed, next, slotOf, phase>>
      /\ born' = DEAD /\ todo' = todo \ {s} /\ slotId' = [slotId EXCEPT ![s] = born]
  BY DEF FactoryReturns
<1>2. born \in Inst /\ born # DEAD /\ slotOf[born] = s
  BY BornFor DEF CauseInv
<1>3. IdsInOrder' /\ SignalsOnce' /\ BornIsFirst'
  BY <1>1 DEF CauseInv, IdsInOrder, SignalsOnce, Queued, BornIsFirst
<1>4. SlotIdsOwn'
  BY <1>1, <1>2 DEF CauseInv, SlotIdsOwn, TypeOK
<1>5. ASSUME NEW t \in Slot PROVE Pending(t)' <= Pending(t)
  BY <1>1, <1>2 DEF Pending, Filling
<1>6. \A t \in Slot : Causes(t) \ Queued \subseteq (Causes(t) \ Queued)'
  BY <1>1 DEF Causes, Queued
<1>7. Charged'
  BY <1>1, <1>5, <1>6, StillCharged DEF CauseInv
<1> QED BY <1>3, <1>4, <1>7 DEF CauseInv

\* A signal that is taken leaves the channel for good.
LEMMA TakenOnce ==
    ASSUME TypeOK, CauseInv, TakeSignal
    PROVE  /\ Head(signals) \in Queued /\ Head(signals) \in failed /\ Head(signals) \in Inst
           /\ Queued' = Queued \ {Head(signals)}
           /\ SignalsOnce'
<1>1. signals \in Seq(Inst) /\ signals # <<>> /\ signals' = Tail(signals) /\ UNCHANGED <<phase, failed>>
  BY DEF TypeOK, TakeSignal
<1>2. PICK n \in Nat : n = Len(signals) - 1 /\ DOMAIN signals = 1 .. n + 1
  BY <1>1, EmptySeq, LenProperties
<1>3. DOMAIN signals' = 1 .. n /\ \A k \in 1 .. n : signals'[k] = signals[k + 1]
  BY <1>1, <1>2, HeadTailProperties, LenProperties
<1>4. Head(signals) = signals[1] /\ Head(signals) \in Inst
  BY <1>1, HeadTailProperties
<1>5. /\ \A k, l \in 1 .. n + 1 : signals[k] = signals[l] => k = l
      /\ Queued \subseteq failed /\ \A i \in failed : phase[i] \in {"exiting", "dead"}
  BY <1>2 DEF CauseInv, SignalsOnce
<1>6. \A k \in 1 .. n : k + 1 \in 1 .. n + 1 /\ k + 1 # 1
  OBVIOUS
<1>7. 1 \in 1 .. n + 1 /\ \A k \in 1 .. n + 1 : k = 1 \/ (k - 1 \in 1 .. n /\ k - 1 + 1 = k)
  OBVIOUS
<1>8. Queued' = {signals[k + 1] : k \in 1 .. n} /\ Queued = {signals[k] : k \in 1 .. n + 1}
  BY <1>2, <1>3 DEF Queued
<1>9. Queued' = Queued \ {Head(signals)}
  <2>1. ASSUME NEW x \in Queued' PROVE x \in Queued /\ x # Head(signals)
    BY <1>4, <1>5, <1>6, <1>7, <1>8, <2>1
  <2>2. ASSUME NEW x \in Queued, x # Head(signals) PROVE x \in Queued'
    BY <1>4, <1>7, <1>8, <2>2
  <2> QED BY <2>1, <2>2
<1>10. \A k, l \in 1 .. n : signals'[k] = signals'[l] => k = l
  <2> SUFFICES ASSUME NEW k \in 1 .. n, NEW l \in 1 .. n, signals'[k] = signals'[l] PROVE k = l
    OBVIOUS
  <2>1. k + 1 = l + 1
    BY <1>3, <1>5, <1>6
  <2> QED BY <2>1
<1>11. SignalsOnce'
  BY <1>1, <1>3, <1>5, <1>9, <1>10 DEF SignalsOnce
<1> QED BY <1>4, <1>5, <1>7, <1>8, <1>9, <1>11

\* A restart round is paid for by the signal that starts it.
LEMMA RestartCharged ==
    ASSUME Strategy \in {"OneForOne", "OneForAll"}, TypeOK, CauseInv, Restart
    PROVE  CauseInv'
<1>1. PICK h : h = Head(signals)
  OBVIOUS
<1>2. /\ TakeSignal /\ sup = "select" /\ sup' = "restart"
      /\ UNCHANGED <<slotId, next, slotOf, born, phase, failed>>
      /\ todo' = ToRestart(h)
  BY <1>1 DEF Restart, TakeSignal, childVars
<1>3. /\ h \in Queued /\ h \in failed /\ h \in Inst
      /\ Queued' = Queued \ {h} /\ SignalsOnce'
  BY <1>1, <1>2, TakenOnce
<1>4. IdsInOrder' /\ SlotIdsOwn' /\ BornIsFirst'
  BY <1>2 DEF CauseInv, IdsInOrder, SlotIdsOwn, BornIsFirst
<1>5. h # DEAD
  BY <1>3, ConstantsAssumption DEF Inst, DEAD
<1>6. ASSUME NEW s \in Slot PROVE s \in todo' => h \in Causes(s)
  <2>1. CASE Strategy = "OneForOne"
    BY <1>2, <1>3, <1>5, <2>1 DEF ToRestart, Occupants, Causes, CauseInv, SlotIdsOwn
  <2>2. CASE Strategy = "OneForAll"
    BY <1>3, <2>2 DEF Causes
  <2> QED BY <2>1, <2>2
<1>7. Charged'
  <2> SUFFICES ASSUME NEW s \in Slot
               PROVE  Cardinality(Instances(s)') + Pending(s)' <= 1 + Cardinality((Causes(s) \ Queued)')
    BY DEF Charged
  <2>1. Instances(s)' = Instances(s) /\ Causes(s)' = Causes(s) /\ Pending(s) = 0
    BY <1>2 DEF Instances, Causes, Pending
  <2>2. PICK A : A = Causes(s) \ Queued
    OBVIOUS
  <2>3. A \in SUBSET Inst /\ h \notin A
    BY <1>3, <2>2 DEF Causes, TypeOK
  <2>4. IsFiniteSet(A) /\ Cardinality(A) \in Nat /\ Cardinality(Instances(s)) \in Nat
    BY <2>3, InstFinite DEF Instances
  <2>5. Cardinality(Instances(s)) <= 1 + Cardinality(A)
    BY <2>1, <2>2, <2>4 DEF CauseInv, Charged
  <2>6. CASE h \in Causes(s)
    <3>1. (Causes(s) \ Queued)' = A \cup {h}
      BY <1>3, <2>1, <2>2, <2>6
    <3>2. Cardinality(A \cup {h}) = Cardinality(A) + 1
      BY <2>3, <2>4, FS_AddElement
    <3>3. Pending(s)' \in {0, 1}
      BY DEF Pending
    <3>4. Cardinality(Instances(s)) + Pending(s)' <= 1 + (Cardinality(A) + 1)
      BY <2>4, <2>5, <3>3
    <3> QED BY <2>1, <3>1, <3>2, <3>4
  <2>7. CASE h \notin Causes(s)
    <3>1. (Causes(s) \ Queued)' = A
      BY <1>3, <2>1, <2>2, <2>7
    <3>2. Pending(s)' = 0
      BY <1>6, <2>7 DEF Pending
    <3> QED BY <2>1, <2>4, <2>5, <3>1, <3>2
  <2> QED BY <2>6, <2>7
<1> QED BY <1>3, <1>4, <1>7 DEF CauseInv

\* The signal of an instance goes into the channel together with the failure it
\* is about; no other step of a child touches either.
LEMMA ChildCharged ==
    ASSUME TypeOK, TypeOK', CauseInv, NEW i \in Inst, ChildStep(i)
    PROVE  CauseInv'
<1> USE DEF supVars, regVars, childVars, history
<1>1. UNCHANGED <<next, slotOf, born, slotId, sup, todo>>
  BY DEF ChildStep, PreStartOk, PreStartErr, Serve, MailboxClosed, Notify, Exit, Die
<1>2. /\ phase[i] # "unborn" /\ phase'[i] # "unborn"
      /\ phase[i] \in {"exiting", "dead"} => phase'[i] \in {"exiting", "dead"}
      /\ \A j \in Inst \ {i} : phase'[j] = phase[j]
  BY DEF ChildStep, PreStartOk, PreStartErr, Serve, MailboxClosed, Notify, Exit, Die, TypeOK
<1>3. IdsInOrder' /\ SlotIdsOwn' /\ BornIsFirst'
  BY <1>1, <1>2 DEF CauseInv, IdsInOrder, SlotIdsOwn, BornIsFirst, First
<1>4. \A s \in Slot : Pending(s)' <= Pending(s)
  BY <1>1 DEF Pending, Filling
<1>5. failed \subseteq Inst
  BY DEF TypeOK
<1>6. CASE UNCHANGED <<signals, failed>>
  <2>1. SignalsOnce'
    BY <1>2, <1>5, <1>6 DEF CauseInv, SignalsOnce, Queued
  <2>2. \A s \in Slot : Causes(s) \ Queued \subseteq (Causes(s) \ Queued)'
    BY <1>1, <1>6 DEF Causes, Queued
  <2>3. Charged'
    BY <1>1, <1>4, <2>2, StillCharged DEF CauseInv
  <2> QED BY <1>3, <2>1, <2>3 DEF CauseInv
<1>7. CASE ~UNCHANGED <<signals, failed>>
  <2>1. /\ phase[i] = "notifying" /\ phase'[i] = "exiting"
        /\ signals' = Append(signals, i) /\ failed' = failed \cup {i}
    BY <1>7 DEF ChildStep, PreStartOk, PreStartErr, Serve, MailboxClosed, Notify, Exit, Die, TypeOK
  <2>2. i \notin failed /\ i \notin Queued
    BY <2>1 DEF CauseInv, SignalsOnce
  <2>3. PICK n \in Nat : n = Len(signals) /\ DOMAIN signals = 1 .. n
    BY LenProperties DEF TypeOK
  <2>4. /\ DOMAIN signals' = 1 .. n + 1 /\ signals'[n + 1] = i
        /\ \A k \in 1 .. n : signals'[k] = signals[k]
    BY <2>1, <2>3, AppendProperties, LenProperties DEF TypeOK
  <2>5. \A k \in 1 .. n + 1 : k \in 1 .. n \/ k = n + 1
    OBVIOUS
  <2>6. \A k \in 1 .. n : k \in 1 .. n + 1
    OBVIOUS
  <2>7. n + 1 \in 1 .. n + 1
    OBVIOUS
  <2>8. Queued' = Queued \cup {i}
    BY <2>3, <2>4, <2>5, <2>6, <2>7 DEF Queued
  <2>9. \A k \in 1 .. n : signals[k] # i
    BY <2>2, <2>3 DEF Queued
  <2>10. \A k, l \in 1 .. n + 1 : signals'[k] = signals'[l] => k = l
    BY <2>3, <2>4, <2>5, <2>9 DEF CauseInv, SignalsOnce
  <2>11. \A j \in failed' : phase'[j] \in {"exiting", "dead"}
    BY <1>2, <1>5, <2>1 DEF CauseInv, SignalsOnce
  <2>12. SignalsOnce'
    BY <2>1, <2>4, <2>8, <2>10, <2>11 DEF CauseInv, SignalsOnce
  <2>13. \A s \in Slot : Causes(s) \ Queued \subseteq (Causes(s) \ Queued)'
    BY <1>1, <2>1, <2>2, <2>8 DEF Causes
  <2>14. Charged'
    BY <1>1, <1>4, <2>13, StillCharged DEF CauseInv
  <2> QED BY <1>3, <2>12, <2>14 DEF CauseInv
<1> QED BY <1>6, <1>7

\* Each restart uses up one failure of the instance it replaces.
LEMMA CauseStep ==
    ASSUME Strategy \in {"OneForOne", "OneForAll"}, TypeOK, CauseInv, [Next]_vars
    PROVE  CauseInv'
<1> USE DEF supVars, regVars, childVars, history
<1>0. TypeOK'
  BY TypeOKStep
<1>1. ASSUME NEW i \in Inst, ChildStep(i) PROVE CauseInv'
  BY <1>0, <1>1, ChildCharged
<1>2. ASSUME NEW s \in Slot, Factory(s) \/ Returns(s) PROVE CauseInv'
  BY <1>0, <1>2, SpawnCharged, ReturnCharged DEF Returns, StartChild, RestartChild
<1>3. CASE Restart
  BY <1>3, RestartCharged
<1>4. ASSUME UNCHANGED <<next, slotOf, born, phase, failed>>, SignalsOnce', Queued' \subseteq Queued,
             SlotIdsOwn', \A s \in Slot : Pending(s)' <= Pending(s)
      PROVE  CauseInv'
  <2>1. IdsInOrder'
    BY <1>4 DEF CauseInv, IdsInOrder
  <2>2. \A s \in Slot : Causes(s) \ Queued \subseteq (Causes(s) \ Queued)'
    BY <1>4 DEF Causes
  <2>3. Charged'
    BY <1>0, <1>4, <2>2, StillCharged DEF CauseInv
  <2>4. BornIsFirst'
    BY BornStep DEF CauseInv
  <2> QED BY <1>4, <2>1, <2>3, <2>4 DEF CauseInv
<1>5. CASE IntensityShutdown \/ Abandon
  <2>1. TakeSignal /\ sup' \in {"stopping", "select"}
    BY <1>5 DEF IntensityShutdown, Abandon, TakeSignal
  <2>2. UNCHANGED <<next, slotOf, born, phase, failed>>
    BY <2>1 DEF TakeSignal
  <2>3. SignalsOnce' /\ Queued' \subseteq Queued
    BY <2>1, TakenOnce
  <2>4. \A s \in Slot : slotId'[s] \in {slotId[s], DEAD}
    BY <1>5 DEF IntensityShutdown, Abandon, TypeOK
  <2>5. SlotIdsOwn'
    BY <2>2, <2>4 DEF CauseInv, SlotIdsOwn
  <2>6. \A s \in Slot : Pending(s)' <= Pending(s)
    BY <2>1 DEF Pending
  <2> QED BY <1>4, <2>2, <2>3, <2>5, <2>6
<1>6. ASSUME UNCHANGED <<next, slotOf, born, phase, failed>>, signals' \in {signals, <<>>},
             \A s \in Slot : slotId'[s] \in {slotId[s], DEAD},
             (todo' \subseteq todo /\ sup' = sup) \/ sup' \notin {"starting", "restart"}
      PROVE  CauseInv'
  <2>1. SignalsOnce' /\ Queued' \subseteq Queued
    BY <1>6 DEF CauseInv, SignalsOnce, Queued
  <2>2. SlotIdsOwn'
    BY <1>6 DEF CauseInv, SlotIdsOwn
  <2>3. \A s \in Slot : Pending(s)' <= Pending(s)
    BY <1>6 DEF Pending, Filling
  <2> QED BY <1>4, <1>6, <2>1, <2>2, <2>3
<1>7. ASSUME NEW i \in Inst, NEW e \in {"Msg", "Kill"}, Send(i, e) PROVE CauseInv'
  BY <1>6, <1>7 DEF Send
<1>8. ASSUME NEW s \in Slot, StartFails(s) \/ RestartChildFails(s) \/ StopChild(s) PROVE CauseInv'
  BY <1>6, <1>8 DEF StartFails, RestartChildFails, StopChild, TypeOK
<1>9. CASE Started \/ RestartDone \/ Shutdown \/ Stopped \/ CallStop \/ DropHandle \/ Tick \/ UNCHANGED vars
  BY <1>6, <1>9 DEF Started, RestartDone, Shutdown, Stopped, CallStop, DropHandle, Tick, vars
<1> QED BY <1>1, <1>2, <1>3, <1>5, <1>7, <1>8, <1>9 DEF Next, SupStep, Returns

\* Under OneForOne and OneForAll no instance is spawned without a failure of its
\* own: a signal restarts a slot at most once, a stale one nothing it should not.
\* RestForOne is left out because there it is false (run sup_rest_for_one_stale).
THEOREM RestartsAreCaused ==
    ASSUME Strategy \in {"OneForOne", "OneForAll"}
    PROVE  Spec => []RestartsHaveCause
<1> DEFINE Inv == TypeOK /\ CauseInv
<1>1. Init => Inv
  <2> SUFFICES ASSUME Init PROVE CauseInv
    BY InitTypeOK
  <2>1. IdsInOrder /\ BornIsFirst
    BY InitOneForOne DEF OneForOneInv
  <2>2. SignalsOnce /\ SlotIdsOwn
    BY DEF Init, SignalsOnce, Queued, SlotIdsOwn
  <2>3. ASSUME NEW s \in Slot
        PROVE  Cardinality(Instances(s)) + Pending(s) <= 1 + Cardinality(Causes(s) \ Queued)
    <3>1. Instances(s) = {} /\ Causes(s) \ Queued = {} /\ Pending(s) = 1
      BY ConstantsAssumption DEF Init, Instances, Causes, Pending, Filling, Slot
    <3> QED BY <3>1, FS_EmptySet
  <2> QED BY <2>1, <2>2, <2>3 DEF CauseInv, Charged
<1>2. Inv /\ [Next]_vars => Inv'
  BY TypeOKStep, CauseStep
<1>3. Inv => RestartsHaveCause
  <2> SUFFICES ASSUME Inv, NEW s \in Slot
               PROVE  Cardinality(Instances(s)) <= 1 + Cardinality(Causes(s))
    BY DEF RestartsHaveCause, Instances
  <2>1. Causes(s) \in SUBSET Inst /\ Causes(s) \ Queued \in SUBSET Causes(s)
    BY DEF Causes, TypeOK
  <2>2. /\ IsFiniteSet(Causes(s)) /\ Cardinality(Causes(s)) \in Nat
        /\ Cardinality(Causes(s) \ Queued) \in Nat
    BY <2>1, InstFinite
  <2>3. Cardinality(Causes(s) \ Queued) <= Cardinality(Causes(s))
    BY <2>1, <2>2, FS_Subset
  <2>4. Cardinality(Instances(s)) \in Nat /\ Pending(s) \in Nat
    BY InstFinite DEF Instances, Pending
  <2> QED BY <2>2, <2>3, <2>4 DEF CauseInv, Charged
<1> QED BY <1>1, <1>2, <1>3, PTL DEF Spec

-----------------------------------------------------------------------------
(* OneForOne implements SupervisedSlots.                                    *)

\* A slot has one ref, of an instance spawned for it; its id, if any, is the same.
SlotRefs ==
    \A s \in Slot :
        /\ slotId[s] \in {DEAD, current_refs[s]}
        /\ current_refs[s] # DEAD => current_refs[s] < next /\ slotOf[current_refs[s]] = s

\* The spawn loop visits the slots without an instance, the restart loop those
\* that have an id.
LoopSlots ==
    /\ sup = "starting" => \A s \in Slot : s \in todo <=> current_refs[s] = DEAD
    /\ sup = "restart" => \A s \in todo : slotId[s] # DEAD

SlotsInv == SlotRefs /\ LoopSlots

\* Ids of instances are positive.
LEMMA InstPositive == \A i \in Inst : i \in Nat /\ i # DEAD
BY ConstantsAssumption DEF Inst, DEAD

\* A step that leaves slots and instances where they are, and begins no loop that
\* spawns, keeps the invariant.
LEMMA SlotsKept ==
    ASSUME SlotsInv, UNCHANGED <<slotId, current_refs, next, slotOf>>,
           UNCHANGED <<sup, todo>> \/ sup' \notin {"starting", "restart"}
    PROVE  SlotsInv'
BY DEF SlotsInv, SlotRefs, LoopSlots

\* A spawn gives its slot no ref yet.
LEMMA SpawnKeepsSlots ==
    ASSUME TypeOK, OneForOneInv, SlotsInv, NEW s \in Slot, Factory(s)
    PROVE  SlotsInv'
<1>1. /\ UNCHANGED <<slotId, current_refs, sup, todo>>
      /\ next \in Inst /\ next' = next + 1
      /\ \A i \in Inst \ {next} : slotOf'[i] = slotOf[i]
  BY Spawned DEF OneForOneInv, Factory, supVars
<1>2. ASSUME NEW r \in Slot, current_refs[r] # DEAD
      PROVE  current_refs[r] < next' /\ slotOf'[current_refs[r]] = r
  <2>1. current_refs[r] \in Inst /\ current_refs[r] < next /\ slotOf[current_refs[r]] = r
    BY <1>2 DEF SlotsInv, SlotRefs, TypeOK
  <2>2. current_refs[r] \in Nat /\ next \in Nat
    BY <1>1, <2>1, InstPositive
  <2> QED BY <1>1, <2>1, <2>2
<1>3. SlotRefs'
  BY <1>1, <1>2 DEF SlotsInv, SlotRefs, DEAD
<1>4. LoopSlots'
  BY <1>1 DEF SlotsInv, LoopSlots
<1> QED BY <1>3, <1>4 DEF SlotsInv

\* What a return does to the slots.
LEMMA ReturnFacts ==
    ASSUME TypeOK, OneForOneInv, NEW s \in Slot, Returns(s)
    PROVE  /\ FactoryReturns(s) /\ s \in todo /\ sup \in {"starting", "restart"}
           /\ UNCHANGED <<sup, signals, next, slotOf, phase>> /\ todo' = todo \ {s}
           /\ born \in Inst /\ born # DEAD /\ slotOf[born] = s /\ born' = DEAD
           /\ slotId'[s] = born /\ current_refs'[s] = born
           /\ \A r \in Slot \ {s} : slotId'[r] = slotId[r] /\ current_refs'[r] = current_refs[r]
<1>1. FactoryReturns(s)
  BY DEF Returns, StartChild, RestartChild
<1>2. /\ s \in todo /\ sup \in {"starting", "restart"}
      /\ born \in Inst /\ born # DEAD /\ slotOf[born] = s
  BY <1>1, BornFor DEF OneForOneInv
<1> QED BY <1>1, <1>2 DEF FactoryReturns, TypeOK

\* A return gives its slot the id of the instance spawned for it and takes it off
\* the loop.
LEMMA ReturnKeepsSlots ==
    ASSUME TypeOK, OneForOneInv, SlotsInv, NEW s \in Slot, Returns(s)
    PROVE  SlotsInv'
<1>1. /\ UNCHANGED <<sup, next, slotOf>> /\ todo' = todo \ {s} /\ s \in Slot
      /\ born \in Inst /\ born # DEAD /\ slotOf[born] = s
      /\ slotId'[s] = born /\ current_refs'[s] = born
      /\ \A r \in Slot \ {s} : slotId'[r] = slotId[r] /\ current_refs'[r] = current_refs[r]
  BY ReturnFacts
<1>2. born < next
  <2>1. slotOf[born] # 0
    BY <1>1, ConstantsAssumption DEF Slot
  <2>2. ~(born >= next)
    BY <1>1, <2>1 DEF OneForOneInv, IdsInOrder
  <2> QED BY <1>1, <2>2, InstPositive DEF TypeOK
<1>3. SlotRefs'
  BY <1>1, <1>2 DEF SlotsInv, SlotRefs, DEAD
<1>4. LoopSlots'
  <2>1. todo \subseteq Slot
    BY DEF TypeOK
  <2>2. ASSUME sup = "starting", NEW r \in Slot
        PROVE  r \in todo' <=> current_refs'[r] = DEAD
    <3>1. r \in todo <=> current_refs[r] = DEAD
      BY <2>2 DEF SlotsInv, LoopSlots
    <3> QED BY <1>1, <3>1
  <2>3. ASSUME sup = "restart", NEW r \in todo' PROVE slotId'[r] # DEAD
    <3>1. r \in todo /\ r \in Slot /\ r # s
      BY <1>1, <2>1, <2>3
    <3> QED BY <1>1, <2>3, <3>1 DEF SlotsInv, LoopSlots
  <2> QED BY <1>1, <2>2, <2>3 DEF LoopSlots, DEAD
<1> QED BY <1>3, <1>4 DEF SlotsInv

\* Each step of a OneForOne supervisor keeps the slots in order.
LEMMA SlotsInvStep ==
    ASSUME Strategy = "OneForOne", TypeOK, OneForOneInv, SlotsInv, [Next]_vars
    PROVE  SlotsInv'
<1> USE DEF supVars, regVars, childVars, history
<1>1. ASSUME NEW i \in Inst, ChildStep(i) PROVE SlotsInv'
  <2>1. UNCHANGED <<slotId, current_refs, next, slotOf, sup, todo>>
    BY <1>1 DEF ChildStep, PreStartOk, PreStartErr, Serve, MailboxClosed, Notify, Exit, Die
  <2> QED BY <2>1, SlotsKept
<1>2. ASSUME NEW i \in Inst, NEW e \in {"Msg", "Kill"}, Send(i, e) PROVE SlotsInv'
  BY <1>2, SlotsKept DEF Send
<1>3. ASSUME NEW s \in Slot, Factory(s) \/ Returns(s) PROVE SlotsInv'
  BY <1>3, SpawnKeepsSlots, ReturnKeepsSlots
<1>4. ASSUME NEW s \in Slot, StartFails(s) PROVE SlotsInv'
  BY <1>4, SlotsKept DEF StartFails
<1>5. ASSUME NEW s \in Slot, RestartChildFails(s) PROVE SlotsInv'
  <2>1. /\ UNCHANGED <<current_refs, next, slotOf, sup>> /\ sup = "restart"
        /\ slotId' = [slotId EXCEPT ![s] = DEAD] /\ todo' = todo \ {s}
    BY <1>5 DEF RestartChildFails
  <2> QED BY <2>1 DEF SlotsInv, SlotRefs, LoopSlots, TypeOK
<1>6. ASSUME NEW s \in Slot, StopChild(s) PROVE SlotsInv'
  BY <1>6, SlotsKept DEF StopChild
<1>7. CASE Restart
  <2>1. /\ UNCHANGED <<current_refs, next, slotOf, slotId>> /\ sup' = "restart"
        /\ todo' = {s \in Slot : slotId[s] = Head(signals)} /\ TakeSignal
    BY <1>7 DEF Restart, TakeSignal, ToRestart, Occupants
  <2>2. Head(signals) # DEAD
    BY <2>1, TakenSignal, InstPositive
  <2> QED BY <2>1, <2>2 DEF SlotsInv, SlotRefs, LoopSlots
<1>8. CASE Abandon
  <2>1. /\ UNCHANGED <<current_refs, next, slotOf, sup>> /\ sup = "select"
        /\ slotId' = [s \in Slot |-> IF slotId[s] = Head(signals) THEN DEAD ELSE slotId[s]]
    BY <1>8 DEF Abandon, TakeSignal
  <2> QED BY <2>1 DEF SlotsInv, SlotRefs, LoopSlots
<1>9. CASE IntensityShutdown
  BY <1>9, SlotsKept DEF IntensityShutdown, TakeSignal
<1>10. CASE Started \/ RestartDone \/ Shutdown \/ Stopped \/ CallStop \/ DropHandle \/ Tick
            \/ UNCHANGED vars
  BY <1>10, SlotsKept DEF Started, RestartDone, Shutdown, Stopped, CallStop, DropHandle,
                          Tick, vars
<1> QED BY <1>1, <1>2, <1>3, <1>4, <1>5, <1>6, <1>7, <1>8, <1>9, <1>10
        DEF Next, SupStep, Returns

\* A step that moves slots only to their end, and no ref, is a step of End.
LEMMA EndsOnly ==
    ASSUME \A s \in Slot : Current(s)' = Current(s),
           \A s \in Slot : \/ Status(s)' = Status(s)
                           \/ Status(s) \in {"up", "failed"} /\ Status(s)' = "down"
    PROVE  Slots!Next
<1> DEFINE S == {s \in Slot : Status(s)' # Status(s)}
<1>1. \A s \in S : Status(s) \in {"up", "failed"}
  OBVIOUS
<1>2. \A s \in Slot : Status(s)' = IF s \in S THEN "down" ELSE Status(s)
  OBVIOUS
<1>3. Slots!End(S)
  BY <1>1, <1>2 DEF Slots!End
<1> QED BY <1>3 DEF Slots!Next

\* Where no ref and no instance moves, a slot can only lose its pending answer.
LEMMA AwaitedOnly ==
    ASSUME UNCHANGED <<current_refs, phase, born, slotOf>>,
           \A s \in Slot : Current(s) # DEAD /\ Awaited(s)' => Awaited(s)
    PROVE  Slots!Next
<1>1. \A s \in Slot : Current(s)' = Current(s)
  BY DEF Current, Filling
<1> SUFFICES ASSUME NEW s \in Slot
             PROVE  \/ Status(s)' = Status(s)
                    \/ Status(s) \in {"up", "failed"} /\ Status(s)' = "down"
  BY <1>1, EndsOnly
<1> QED BY <1>1 DEF Status, Serving, DEAD

\* A signal that is taken was the first of the channel; the others stay.
LEMMA StillQueued ==
    ASSUME TypeOK, TakeSignal, NEW k \in DOMAIN signals'
    PROVE  \E l \in DOMAIN signals : signals[l] = signals'[k]
<1>1. signals \in Seq(Inst) /\ signals # <<>> /\ signals' = Tail(signals)
  BY DEF TypeOK, TakeSignal
<1>2. k + 1 \in DOMAIN signals /\ signals'[k] = signals[k + 1]
  BY <1>1, HeadTailProperties, LenProperties
<1> QED BY <1>2

\* The head of the channel is in it.
LEMMA HeadQueued ==
    ASSUME TypeOK, TakeSignal
    PROVE  1 \in DOMAIN signals /\ signals[1] = Head(signals)
BY EmptySeq, LenProperties DEF TypeOK, TakeSignal

\* A step of the supervisor or a client that is no spawn and no return answers
\* signals or forgets them, and asks for no answer that was not due.
LEMMA QuietSlots ==
    ASSUME Strategy = "OneForOne", TypeOK, OneForOneInv, SlotsInv, [Next]_vars,
           \A i \in Inst : ~ChildStep(i),
           \A s \in Slot : ~Factory(s) /\ ~Returns(s)
    PROVE  Slots!Next
<1> USE DEF supVars, regVars, childVars, history
<1>1. ASSUME UNCHANGED <<current_refs, phase, born, slotOf, slotId>>, signals' \in {signals, <<>>},
             UNCHANGED <<sup, todo>> \/ sup' # "restart"
      PROVE  Slots!Next
  <2>1. \A s \in Slot : Awaited(s)' => Awaited(s)
    BY <1>1 DEF Awaited, Current, Filling
  <2> QED BY <1>1, <2>1, AwaitedOnly
\* Where no factory runs a slot is what its ref says.
<1>2. ASSUME born = DEAD, born' = DEAD, current_refs' = current_refs, NEW s \in Slot
      PROVE  /\ Current(s) = current_refs[s] /\ ~Filling(s) /\ ~Filling(s)'
             /\ Current(s)' = current_refs[s]
  BY <1>2 DEF Current, Filling
<1>3. ASSUME NEW s \in Slot, RestartChildFails(s) PROVE Slots!Next
  <2>1. /\ UNCHANGED <<current_refs, phase, born, slotOf, sup, signals>> /\ born = DEAD
        /\ slotId' = [slotId EXCEPT ![s] = DEAD] /\ todo' = todo \ {s}
    BY <1>3 DEF RestartChildFails
  <2>2. ASSUME NEW r \in Slot, Current(r) # DEAD, Awaited(r)' PROVE Awaited(r)
    <3>1. current_refs[r] # DEAD
      BY <1>2, <2>1, <2>2
    <3>2. slotId'[r] = current_refs[r] => slotId[r] = current_refs[r]
      BY <2>1, <3>1 DEF TypeOK
    <3> QED BY <1>2, <2>1, <2>2, <3>2 DEF Awaited
  <2> QED BY <2>1, <2>2, AwaitedOnly
<1>4. ASSUME TakeSignal
      PROVE  UNCHANGED <<current_refs, phase, born, slotOf>> /\ born = DEAD
  <2>1. sup = "select" /\ UNCHANGED <<current_refs, phase, born, slotOf>>
    BY <1>4 DEF TakeSignal
  <2> QED BY <2>1, NotBorn
<1>5. CASE Restart
  <2>1. /\ UNCHANGED <<current_refs, phase, born, slotOf, slotId>> /\ born = DEAD
        /\ sup' = "restart" /\ TakeSignal
        /\ todo' = {s \in Slot : slotId[s] = Head(signals)}
    BY <1>4, <1>5 DEF Restart, ToRestart, Occupants
  <2>2. ASSUME NEW s \in Slot, Current(s) # DEAD, Awaited(s)' PROVE Awaited(s)
    <3>0. Current(s) = current_refs[s] /\ ~Filling(s) /\ ~Filling(s)' /\ Current(s)' = current_refs[s]
      BY <1>2, <2>1
    <3>1. CASE s \in todo'
      <4>1. slotId[s] = Head(signals) /\ slotId[s] # DEAD
        BY <2>1, <3>1, TakenSignal, InstPositive
      <4>2. slotId[s] = current_refs[s]
        BY <4>1 DEF SlotsInv, SlotRefs
      <4> QED BY <2>1, <3>0, <4>1, <4>2, HeadQueued DEF Awaited
    <3>2. CASE s \notin todo'
      <4>1. /\ slotId[s] = current_refs[s]
            /\ \E k \in DOMAIN signals' : signals'[k] = current_refs[s]
        BY <2>1, <2>2, <3>0, <3>2 DEF Awaited
      <4> QED BY <2>1, <3>0, <4>1, StillQueued DEF Awaited
    <3> QED BY <3>1, <3>2
  <2> QED BY <2>1, <2>2, AwaitedOnly
<1>6. CASE IntensityShutdown \/ Abandon
  <2>1. /\ UNCHANGED <<current_refs, phase, born, slotOf>> /\ born = DEAD
        /\ sup' # "restart" /\ TakeSignal
        /\ \A s \in Slot : slotId'[s] \in {DEAD, slotId[s]}
    BY <1>4, <1>6 DEF IntensityShutdown, Abandon, TakeSignal
  <2>2. ASSUME NEW s \in Slot, Current(s) # DEAD, Awaited(s)' PROVE Awaited(s)
    <3>0. Current(s) = current_refs[s] /\ ~Filling(s) /\ ~Filling(s)' /\ Current(s)' = current_refs[s]
      BY <1>2, <2>1
    <3>1. /\ slotId'[s] = current_refs[s]
          /\ \E k \in DOMAIN signals' : signals'[k] = current_refs[s]
      BY <2>1, <2>2, <3>0 DEF Awaited
    <3>2. slotId[s] = current_refs[s]
      BY <2>1, <2>2, <3>0, <3>1
    <3> QED BY <2>1, <3>0, <3>1, <3>2, StillQueued DEF Awaited
  <2> QED BY <2>1, <2>2, AwaitedOnly
<1>7. ASSUME NEW i \in Inst, NEW e \in {"Msg", "Kill"}, Send(i, e) PROVE Slots!Next
  BY <1>1, <1>7 DEF Send
<1>8. ASSUME NEW s \in Slot, StartFails(s) \/ StopChild(s) PROVE Slots!Next
  BY <1>1, <1>8 DEF StartFails, StopChild
<1>9. CASE Started \/ RestartDone \/ Shutdown \/ Stopped \/ CallStop \/ DropHandle \/ Tick
           \/ UNCHANGED vars
  BY <1>1, <1>9 DEF Started, RestartDone, Shutdown, Stopped, CallStop, DropHandle, Tick, vars
<1> QED BY <1>3, <1>5, <1>6, <1>7, <1>8, <1>9 DEF Next, SupStep, Returns

\* A spawn fills the slot the loop has come to and no other.
LEMMA SpawnFills ==
    ASSUME TypeOK, OneForOneInv, SlotsInv, NEW s \in Slot, Factory(s)
    PROVE  Slots!Next
<1>1. /\ next \in Inst /\ phase'[next] = "starting" /\ slotOf'[next] = s
      /\ \A i \in Inst \ {next} : phase'[i] = phase[i]
      /\ born = DEAD /\ born' = next
      /\ UNCHANGED <<current_refs, slotId, signals, sup, todo>>
      /\ s \in todo /\ sup \in {"starting", "restart"}
  BY Spawned DEF OneForOneInv, Factory, First, supVars
<1>2. next \in Nat /\ next # DEAD
  BY <1>1, InstPositive
<1>3. ASSUME NEW r \in Slot
      PROVE  /\ Current(r) = current_refs[r] /\ ~Filling(r)
             /\ Filling(r)' <=> r = s
             /\ Current(r)' = IF r = s THEN next ELSE current_refs[r]
  BY <1>1, <1>2 DEF Current, Filling
<1>4. ASSUME NEW r \in Slot
      PROVE  /\ current_refs[r] \in {DEAD} \cup Inst
             /\ current_refs[r] # DEAD => current_refs[r] \in Inst \ {next} /\ current_refs[r] < next
  <2>1. current_refs[r] \in {DEAD} \cup Inst
    BY DEF TypeOK
  <2>2. ASSUME current_refs[r] # DEAD
        PROVE  current_refs[r] \in Inst \ {next} /\ current_refs[r] < next
    <3>1. current_refs[r] \in Inst /\ current_refs[r] < next
      BY <2>1, <2>2 DEF SlotsInv, SlotRefs
    <3>2. current_refs[r] \in Nat
      BY <3>1, InstPositive
    <3> QED BY <1>2, <3>1, <3>2
  <2> QED BY <2>1, <2>2
<1>5. Status(s)' = "up"
  BY <1>1, <1>2, <1>3 DEF Status, Serving, DEAD
<1>6. ASSUME NEW r \in Slot \ {s} PROVE Status(r)' = Status(r)
  <2>1. Current(r)' = Current(r) /\ (Filling(r)' <=> Filling(r)) /\ Current(r) = current_refs[r]
    BY <1>3
  <2>2. Awaited(r)' = Awaited(r)
    BY <1>1, <2>1 DEF Awaited
  <2>3. current_refs[r] # DEAD => phase'[current_refs[r]] = phase[current_refs[r]]
    BY <1>1, <1>4
  <2> QED BY <2>1, <2>2, <2>3 DEF Status, Serving, DEAD
<1>7. Status(s) \in {"vacant", "failed"}
  <2>1. CASE sup = "starting"
    <3>1. current_refs[s] = DEAD
      BY <1>1, <2>1 DEF SlotsInv, LoopSlots
    <3> QED BY <1>3, <3>1 DEF Status
  <2>2. CASE sup = "restart"
    <3>1. Awaited(s)
      BY <1>1, <1>3, <2>2 DEF Awaited
    <3>2. ASSUME current_refs[s] # DEAD PROVE ~Serving(current_refs[s])
      <4>1. /\ current_refs[s] \in Inst /\ slotOf[current_refs[s]] = s
            /\ current_refs[s] # born
        BY <1>1, <1>4, <3>2 DEF SlotsInv, SlotRefs
      <4> QED BY <1>1, <4>1 DEF OneForOneInv, TodoIsVacant, Settled, Active, Serving
    <3> QED BY <1>3, <3>1, <3>2 DEF Status
  <2> QED BY <1>1, <2>1, <2>2
<1>8. Current(s)' > Current(s)
  <2>1. CASE current_refs[s] = DEAD
    BY <1>2, <1>3, <2>1 DEF DEAD
  <2>2. CASE current_refs[s] # DEAD
    BY <1>2, <1>3, <1>4, <2>2, InstPositive
  <2> QED BY <2>1, <2>2
<1>9. Slots!Fill(s)
  <2>1. [r \in Slot |-> Status(r)'] = [[r \in Slot |-> Status(r)] EXCEPT ![s] = "up"]
    BY <1>5, <1>6
  <2>2. [r \in Slot |-> Current(r)'] = [[r \in Slot |-> Current(r)] EXCEPT ![s] = Current(s)']
    BY <1>3
  <2>3. Current(s)' \in Nat
    BY <1>2, <1>3
  <2> QED BY <1>7, <1>8, <2>1, <2>2, <2>3 DEF Slots!Fill
<1> QED BY <1>9 DEF Slots!Next

\* A return moves no slot: the instance was the slot's own from its spawn on.
LEMMA ReturnStutters ==
    ASSUME TypeOK, OneForOneInv, SlotsInv, NEW s \in Slot, Returns(s)
    PROVE  Slots!Next
<1>1. /\ UNCHANGED <<sup, signals, slotOf, phase>> /\ todo' = todo \ {s}
      /\ born \in Inst /\ born # DEAD /\ slotOf[born] = s /\ born' = DEAD
      /\ slotId'[s] = born /\ current_refs'[s] = born
      /\ \A r \in Slot \ {s} : slotId'[r] = slotId[r] /\ current_refs'[r] = current_refs[r]
  BY ReturnFacts
<1>2. ASSUME NEW r \in Slot
      PROVE  /\ Filling(r) <=> r = s
             /\ ~Filling(r)'
             /\ Current(r)' = Current(r)
  BY <1>1 DEF Filling, Current
<1>3. ASSUME NEW r \in Slot PROVE Awaited(r)' = Awaited(r)
  <2>1. CASE r = s
    BY <1>1, <1>2, <2>1 DEF Awaited
  <2>2. CASE r # s
    BY <1>1, <1>2, <2>2 DEF Awaited
  <2> QED BY <2>1, <2>2
<1>4. \A r \in Slot : Status(r)' = Status(r)
  BY <1>1, <1>2, <1>3 DEF Status, Serving
<1> QED BY <1>2, <1>4, EndsOnly

\* An active instance is the one its slot has, and no answer is due for it.
LEMMA ActiveIsCurrent ==
    ASSUME TypeOK, OneForOneInv, SlotsInv, NEW i \in Inst, Active(i)
    PROVE  /\ slotOf[i] \in Slot /\ Current(slotOf[i]) = i
           /\ ~Awaited(slotOf[i])
<1>1. slotOf[i] \in Slot /\ i # DEAD
  BY InstPositive DEF OneForOneInv, IdsInOrder, Active, TypeOK
<1>2. ~\E k \in DOMAIN signals : signals[k] = i
  BY DEF OneForOneInv, SignalledIsDone
<1>3. CASE i = born
  <2>1. Filling(slotOf[i]) /\ Current(slotOf[i]) = i
    BY <1>1, <1>3 DEF Filling, Current
  <2> QED BY <1>1, <1>2, <2>1 DEF Awaited
<1>4. CASE i # born
  <2>1. Settled(i)
    BY <1>4 DEF Settled
  <2>2. slotId[slotOf[i]] = i
    BY <2>1 DEF OneForOneInv, ActiveOccupies
  <2>3. current_refs[slotOf[i]] = i
    BY <1>1, <2>2 DEF SlotsInv, SlotRefs
  <2>4. sup \in {"starting", "restart"} => slotOf[i] \notin todo
    BY <2>1 DEF OneForOneInv, TodoIsVacant
  <2>5. ~Filling(slotOf[i])
    BY <2>4 DEF OneForOneInv, BornIsFirst, First, Filling
  <2>6. Current(slotOf[i]) = i
    BY <2>3, <2>5 DEF Current
  <2> QED BY <1>1, <1>2, <2>4, <2>6 DEF Awaited
<1> QED BY <1>3, <1>4

\* An instance is the current one of its own slot only.
LEMMA CurrentOfOne ==
    ASSUME SlotsInv, NEW i \in Inst, NEW s \in Slot, Current(s) = i
    PROVE  slotOf[i] = s
BY InstPositive DEF SlotsInv, SlotRefs, Current, Filling

\* A step of an instance leaves the slots it is not the current one of alone.
LEMMA OthersKeepStatus ==
    ASSUME TypeOK, NEW i \in Inst, NEW s \in Slot, Current(s) # i,
           UNCHANGED <<current_refs, slotId, sup, todo, born, slotOf>>,
           \A j \in Inst \ {i} : phase'[j] = phase[j],
           signals' \in {signals, Append(signals, i)}
    PROVE  Status(s)' = Status(s)
<1>1. Current(s) \in {DEAD} \cup Inst
  BY DEF TypeOK, Current
<1>0. Current(s)' = Current(s) /\ Filling(s)' = Filling(s)
  BY DEF Current, Filling
<1>2. (\E k \in DOMAIN signals' : signals'[k] = Current(s))
        <=> (\E k \in DOMAIN signals : signals[k] = Current(s))
  <2>1. CASE signals' = signals
    BY <2>1
  <2>2. CASE signals' = Append(signals, i)
    <3>1. /\ Len(signals) \in Nat /\ DOMAIN signals = 1 .. Len(signals)
          /\ DOMAIN signals' = 1 .. Len(signals) + 1
          /\ signals'[Len(signals) + 1] = i
          /\ \A k \in 1 .. Len(signals) : signals'[k] = signals[k]
      BY <2>2, AppendProperties, LenProperties DEF TypeOK
    <3>2. \A k \in 1 .. Len(signals) + 1 : k \in 1 .. Len(signals) \/ k = Len(signals) + 1
      BY <3>1
    <3>3. 1 .. Len(signals) \subseteq 1 .. Len(signals) + 1
      BY <3>1
    <3> QED BY <3>1, <3>2, <3>3
  <2> QED BY <2>1, <2>2
<1>3. Awaited(s)' = Awaited(s)
  BY <1>0, <1>2 DEF Awaited
<1> QED BY <1>0, <1>1, <1>3 DEF Status, Serving, DEAD

\* A step of a child fails its slot, ends it, or leaves every slot as it is.
LEMMA ChildSlots ==
    ASSUME TypeOK, OneForOneInv, SlotsInv, NEW i \in Inst, ChildStep(i)
    PROVE  Slots!Next
<1> USE DEF supVars, regVars, childVars, history
<1>1. /\ UNCHANGED <<current_refs, slotId, sup, todo, born, slotOf>>
      /\ \A j \in Inst \ {i} : phase'[j] = phase[j]
      /\ signals' \in {signals, Append(signals, i)}
  BY DEF ChildStep, PreStartOk, PreStartErr, Serve, MailboxClosed, Notify, Exit, Die, TypeOK
<1>2. ASSUME NEW s \in Slot, Current(s) # i PROVE Status(s)' = Status(s)
  BY <1>1, <1>2, OthersKeepStatus
<1>0. \A s \in Slot : Current(s)' = Current(s) /\ Filling(s)' = Filling(s)
  BY <1>1 DEF Current, Filling
<1>3. i # DEAD /\ i \in Nat
  BY InstPositive
<1>4. ASSUME \A s \in Slot : Current(s) = i =>
                 \/ Status(s)' = Status(s)
                 \/ Status(s) \in {"up", "failed"} /\ Status(s)' = "down"
      PROVE  Slots!Next
  BY <1>0, <1>2, <1>4, EndsOnly
<1>5. CASE signals' = signals /\ \/ Serving(i) /\ Serving(i)'
                                 \/ phase[i] = "exiting" /\ phase'[i] = "dead"
  <2>1. \A s \in Slot : Current(s) = i => Status(s)' = Status(s)
    BY <1>0, <1>1, <1>3, <1>5 DEF Status, Serving, Awaited
  <2> QED BY <1>4, <2>1
<1>6. CASE signals' = signals /\ Serving(i) /\ phase'[i] \in {"exiting", "dead"}
  <2> SUFFICES ASSUME NEW s \in Slot, Current(s) = i
               PROVE  Status(s) = "up" /\ Status(s)' = "down"
    BY <1>4
  <2>1. slotOf[i] = s /\ Active(i)
    BY <1>6, CurrentOfOne DEF Serving, Active
  <2>2. ~Awaited(s)
    BY <2>1, ActiveIsCurrent
  <2>3. ~Awaited(s)'
    BY <1>0, <1>1, <1>6, <2>2 DEF Awaited
  <2> QED BY <1>0, <1>1, <1>3, <1>6, <2>3 DEF Status, Serving
<1>7. CASE signals' = signals /\ Serving(i) /\ phase'[i] = "notifying"
  <2>1. PICK s \in Slot : slotOf[i] = s /\ Current(s) = i
    BY <1>7, ActiveIsCurrent DEF Serving, Active
  <2>2. Status(s) = "up" /\ Status(s)' = "failed"
    BY <1>0, <1>1, <1>3, <1>7, <2>1 DEF Status, Serving
  <2>3. \A r \in Slot \ {s} : Status(r)' = Status(r)
    BY <1>2, <2>1, CurrentOfOne
  <2>4. [r \in Slot |-> Status(r)'] = [[r \in Slot |-> Status(r)] EXCEPT ![s] = "failed"]
    BY <2>1, <2>2, <2>3
  <2>5. Slots!Fail(s)
    BY <1>0, <2>1, <2>2, <2>4 DEF Slots!Fail
  <2> QED BY <2>1, <2>5 DEF Slots!Next
<1>8. CASE Notify(i)
  <2> SUFFICES ASSUME NEW s \in Slot, Current(s) = i
               PROVE  Status(s) = "failed" /\ Status(s)' \in {"failed", "down"}
    BY <1>4
  <2>1. phase[i] = "notifying" /\ phase'[i] = "exiting"
    BY <1>8 DEF Notify, TypeOK
  <2> QED BY <1>0, <1>1, <1>3, <2>1 DEF Status, Serving
<1>9. CASE PreStartOk(i) \/ PreStartErr(i) \/ Serve(i) \/ MailboxClosed(i) \/ Exit(i)
  <2>1. \/ signals' = signals /\ \/ Serving(i) /\ Serving(i)'
                                 \/ phase[i] = "exiting" /\ phase'[i] = "dead"
        \/ signals' = signals /\ Serving(i) /\ phase'[i] \in {"exiting", "dead"}
        \/ signals' = signals /\ Serving(i) /\ phase'[i] = "notifying"
    BY <1>9 DEF PreStartOk, PreStartErr, Serve, MailboxClosed, Exit, Die, TypeOK, Serving
  <2> QED BY <2>1, <1>5, <1>6, <1>7
<1> QED BY <1>8, <1>9 DEF ChildStep

\* Each step of a OneForOne supervisor and its children is a step of the slots.
LEMMA SlotsStep ==
    ASSUME Strategy = "OneForOne", TypeOK, OneForOneInv, SlotsInv, [Next]_vars
    PROVE  Slots!Next
<1>1. CASE \E i \in Inst : ChildStep(i)
  BY <1>1, ChildSlots
<1>2. CASE \E s \in Slot : Factory(s)
  BY <1>2, SpawnFills
<1>3. CASE \E s \in Slot : Returns(s)
  BY <1>3, ReturnStutters
<1> QED BY <1>1, <1>2, <1>3, QuietSlots

\* A OneForOne supervisor with its children implements SupervisedSlots: each slot
\* is a succession of ever newer instances in which only one that failed is
\* replaced, one at a time, and a child that ended otherwise or was given up stays
\* down. The order of signals, exits, restarts, clients and shutdown is arbitrary.
THEOREM ImplementsSlots ==
    ASSUME Strategy = "OneForOne"
    PROVE  Spec => SlotSpec
<1> DEFINE Inv == TypeOK /\ OneForOneInv /\ SlotsInv
<1>1. Init => Inv
  <2>1. Init => SlotsInv
    BY DEF Init, SlotsInv, SlotRefs, LoopSlots, DEAD
  <2> QED BY <2>1, InitTypeOK, InitOneForOne
<1>2. Inv /\ [Next]_vars => Inv'
  BY TypeOKStep, OneForOneStep, SlotsInvStep
<1>3. Init => Slots!Init
  BY DEF Init, Slots!Init, Status, Current, Filling, DEAD
<1>4. Inv /\ [Next]_vars => [Slots!Next]_(Slots!vars)
  BY SlotsStep
<1> QED BY <1>1, <1>2, <1>3, <1>4, PTL DEF Spec, SlotSpec, Slots!Spec
=============================================================================
