----------------------------- MODULE Supervisor -----------------------------
(***************************************************************************)
(* The supervisor task of src/supervisor.rs (start_settled, restart_child, *)
(* SupervisorHandle::stop, ChildRegistry) and the children it supervises.  *)
(* A child instance is an actor task of ActorRuntime reduced to what the   *)
(* supervisor can tell apart: it starts, serves its mailbox, sends one     *)
(* RestartSignal when a handle fails, and exits. Handling one envelope is  *)
(* one step here.                                                          *)
(***************************************************************************)
EXTENDS Naturals, Sequences, FiniteSets

CONSTANTS
    N,               \* number of child specs
    Order,           \* [Slot -> Nat]: ChildSpec::order, already sorted
    Strategy,        \* SupervisorConfig::strategy
    IntensityAction, \* SupervisorConfig::intensity_action
    MaxRestarts,     \* SupervisorConfig::max_restarts
    Window,          \* SupervisorConfig::within_secs
    SigCap,          \* SupervisorConfig::mailbox_capacity
    MboxCap,         \* ActorConfig::mailbox_capacity
    UseRegistry,     \* children are built by spawn_child_spec with a ChildRegistry
    ClientsHold,     \* clients keep every ActorRef they ever obtained
    FactoryFails,    \* a factory closure may return Err
    MaxInst,         \* bound: instances ever spawned
    MaxTime,         \* bound: clock ticks
    MaxSends         \* bound: client messages

Slot == 1 .. N
Inst == 1 .. MaxInst

ASSUME ConstantsAssumption ==
    /\ N \in Nat /\ MaxInst \in Nat /\ MaxTime \in Nat /\ MaxSends \in Nat
    /\ Order \in [Slot -> Nat]
    /\ \A s, r \in Slot : s <= r => Order[s] <= Order[r]   \* slots.sort_by_key
    /\ Strategy \in {"OneForOne", "OneForAll", "RestForOne"}
    /\ IntensityAction \in {"ShutdownSupervisor", "AbandonChild"}
    /\ MaxRestarts \in Nat /\ Window \in Nat
    /\ SigCap \in Nat \ {0} /\ MboxCap \in Nat \ {0}
    /\ UseRegistry \in BOOLEAN /\ ClientsHold \in BOOLEAN /\ FactoryFails \in BOOLEAN

DEAD == 0   \* ActorId::DEAD, and the id of a spec that was never spawned

VARIABLES
    sup,          \* where the supervisor is
    todo,         \* slots the current loop (spawn, restart, stop) has still to visit
    slotId,       \* ChildSpec::id of each slot
    current_refs, \* the supervisor's ActorRef of each slot
    initial_refs, \* the refs in the SupervisorHandle
    handle,       \* the SupervisorHandle
    signals,      \* the RestartSignal channel (child ids)
    restart_log,  \* times of the recent signals
    now,          \* the clock
    refs,         \* ChildRegistry: name -> ActorRef
    generations,  \* ChildRegistry: name -> generation
    next,         \* the next fresh ActorId
    slotOf,       \* the slot each instance was spawned for
    born,         \* the instance a factory has spawned and not returned yet
    phase,        \* where each instance is
    mailbox,      \* its mailbox
    sends,        \* client messages so far
    \* history variables: read by properties only
    failed,       \* instances whose RestartSignal was accepted
    rounds,       \* times at which restart rounds were started
    abandoned     \* slots given up by AbandonChild

supVars   == <<sup, todo, slotId, current_refs, initial_refs, restart_log>>
regVars   == <<refs, generations>>
childVars == <<next, slotOf, born>>
history   == <<failed, rounds, abandoned>>
vars == <<supVars, handle, signals, now, regVars, childVars, phase, mailbox, sends, history>>

Phase == {"unborn", "starting", "serving", "notifying", "exiting", "dead"}

\* The supervisor task (or, while starting, the future of start) owns the receiver.
ReceiverAlive == sup \in {"starting", "select", "restart", "stopping"}

Open(i) == phase[i] \in {"starting", "serving", "notifying", "exiting"}

\* A client has an ActorRef of i: from the ChildRegistry, from the handle, or
\* cloned earlier from one of them.
Reachable(i) ==
    \/ UseRegistry /\ i # born /\ (ClientsHold \/ refs[slotOf[i]] = i)
    \/ /\ initial_refs[slotOf[i]] = i
       /\ handle = "held" \/ (ClientsHold /\ handle # "none")

\* Some ActorRef of i is alive.
Referenced(i) ==
    \/ Reachable(i)
    \/ i = born
    \/ handle = "stopping" /\ initial_refs[slotOf[i]] = i
    \/ ReceiverAlive /\ current_refs[slotOf[i]] = i

Init ==
    /\ sup = "starting" /\ todo = Slot
    /\ slotId = [s \in Slot |-> DEAD]
    /\ current_refs = [s \in Slot |-> DEAD]
    /\ initial_refs = [s \in Slot |-> DEAD]
    /\ handle = "none"
    /\ signals = <<>> /\ restart_log = <<>> /\ now = 0
    /\ refs = [s \in Slot |-> DEAD]
    /\ generations = [s \in Slot |-> 0]
    /\ next = 1
    /\ slotOf = [i \in Inst |-> 0]
    /\ born = DEAD
    /\ phase = [i \in Inst |-> "unborn"]
    /\ mailbox = [i \in Inst |-> <<>>]
    /\ sends = 0
    /\ failed = {} /\ rounds = <<>> /\ abandoned = {}

-----------------------------------------------------------------------------
(* The children.                                                            *)

PreStartOk(i) ==
    /\ phase[i] = "starting"
    /\ phase' = [phase EXCEPT ![i] = "serving"]
    /\ UNCHANGED <<supVars, handle, signals, now, regVars, childVars, mailbox, sends, history>>

Die(i) ==
    /\ phase' = [phase EXCEPT ![i] = "dead"]
    /\ mailbox' = [mailbox EXCEPT ![i] = <<>>]
    /\ UNCHANGED <<supVars, handle, signals, now, regVars, childVars, sends, history>>

\* pre_start failed: the task returns; the supervisor hears nothing of it.
PreStartErr(i) ==
    /\ phase[i] = "starting"
    /\ Die(i)

\* finish_actor.
Exit(i) ==
    /\ phase[i] = "exiting"
    /\ Die(i)

\* The next envelope: a message is handled or fails, Stop and Kill leave the loop.
Serve(i) ==
    /\ phase[i] = "serving"
    /\ mailbox[i] # <<>>
    /\ mailbox' = [mailbox EXCEPT ![i] = Tail(@)]
    /\ \/ Head(mailbox[i]) = "Msg" /\ UNCHANGED phase
       \/ Head(mailbox[i]) = "Msg" /\ phase' = [phase EXCEPT ![i] = "notifying"]
       \/ Head(mailbox[i]) # "Msg" /\ phase' = [phase EXCEPT ![i] = "exiting"]
    /\ UNCHANGED <<supVars, handle, signals, now, regVars, childVars, sends, history>>

\* Every ActorRef is gone: rx.recv() returns None.
MailboxClosed(i) ==
    /\ phase[i] = "serving"
    /\ mailbox[i] = <<>>
    /\ ~Referenced(i)
    /\ phase' = [phase EXCEPT ![i] = "exiting"]
    /\ UNCHANGED <<supVars, handle, signals, now, regVars, childVars, mailbox, sends, history>>

SignalRoom == Len(signals) < SigCap

\* notify_supervisor: waits for room, fails once the receiver is dropped.
Notify(i) ==
    /\ phase[i] = "notifying"
    /\ IF ReceiverAlive
       THEN /\ SignalRoom
            /\ signals' = Append(signals, i)
            /\ failed' = failed \cup {i}
       ELSE UNCHANGED <<signals, failed>>
    /\ phase' = [phase EXCEPT ![i] = "exiting"]
    /\ UNCHANGED <<supVars, handle, now, regVars, childVars, mailbox, sends, rounds, abandoned>>

\* ActorRef::send or kill by a client; waits while the mailbox is full.
Send(i, e) ==
    /\ sends < MaxSends
    /\ Open(i) /\ Reachable(i)
    /\ Len(mailbox[i]) < MboxCap
    /\ mailbox' = [mailbox EXCEPT ![i] = Append(@, e)]
    /\ sends' = sends + 1
    /\ UNCHANGED <<supVars, handle, signals, now, regVars, childVars, phase, history>>

-----------------------------------------------------------------------------
(* Starting the supervisor.                                                 *)

First(s) == s \in todo /\ \A r \in todo : s <= r
Last(s) == s \in todo /\ \A r \in todo : r <= s

\* Mutant: the first ref is never replaced (entry().or_insert).
TrackAndBump_first_only(s) ==
    /\ refs' = [refs EXCEPT ![s] = IF @ = DEAD THEN born ELSE @]
    /\ generations' = [generations EXCEPT ![s] = @ + 1]

\* ChildRegistry::track_and_bump, under one lock.
TrackAndBump(s) ==
    /\ refs' = [refs EXCEPT ![s] = born]
    /\ generations' = [generations EXCEPT ![s] = @ + 1]

\* The factory closure of spawn_child_spec up to its first await: spawn_on_runtime.
\* The task runs from here on, while the closure waits for the registry's lock.
Factory(s) ==
    /\ sup \in {"starting", "restart"} /\ First(s)
    /\ born = DEAD /\ next \in Inst
    /\ born' = next
    /\ next' = next + 1
    /\ slotOf' = [slotOf EXCEPT ![next] = s]
    /\ phase' = [phase EXCEPT ![next] = "starting"]
    /\ UNCHANGED <<supVars, handle, signals, now, regVars, mailbox, sends, history>>

\* The closure has the lock and returns Ok; the caller stores id and ref.
FactoryReturns(s) ==
    /\ First(s) /\ born # DEAD
    /\ IF UseRegistry THEN TrackAndBump(s) ELSE UNCHANGED regVars
    /\ slotId' = [slotId EXCEPT ![s] = born]
    /\ current_refs' = [current_refs EXCEPT ![s] = born]
    /\ todo' = todo \ {s}
    /\ born' = DEAD
    /\ UNCHANGED <<sup, restart_log, handle, signals, now, next, slotOf, phase, mailbox, sends,
                   history>>

StartChild(s) ==
    /\ sup = "starting"
    /\ FactoryReturns(s)
    /\ initial_refs' = [initial_refs EXCEPT ![s] = born]

\* `?' in the spawn loop: start returns Err, the receiver and every ref it had
\* collected are dropped; a ChildRegistry keeps the ones it was given.
StartFails(s) ==
    /\ FactoryFails /\ born = DEAD
    /\ sup = "starting" /\ First(s)
    /\ sup' = "failed"
    /\ signals' = <<>>
    /\ todo' = {}
    /\ UNCHANGED <<slotId, current_refs, initial_refs, restart_log, handle, now, regVars,
                   childVars, phase, mailbox, sends, history>>

\* The task is spawned and start returns the handle.
Started ==
    /\ sup = "starting" /\ todo = {}
    /\ sup' = "select"
    /\ handle' = "held"
    /\ UNCHANGED <<todo, slotId, current_refs, initial_refs, restart_log, signals, now,
                   regVars, childVars, phase, mailbox, sends, history>>

-----------------------------------------------------------------------------
(* One restart signal.                                                      *)

\* *t < cutoff, where cutoff = now - within_secs.
Stale == {k \in DOMAIN restart_log : restart_log[k] + Window < now}

\* The log after the pop_front loop and push_back. Its times never decrease, so
\* the stale ones are its first entries.
Pruned == Append(SubSeq(restart_log, Cardinality(Stale) + 1, Len(restart_log)), now)

\* The slots whose current id is the one in the signal (ids are unique: at most one).
Occupants(id) == {s \in Slot : slotId[s] = id}

\* `.map(|s| s.order()).unwrap_or(0)': an id no slot has any more counts as order 0.
FailedOrder(id) ==
    IF Occupants(id) = {} THEN 0 ELSE Order[CHOOSE s \in Occupants(id) : TRUE]

\* Mutant: every child is restarted, whatever the strategy.
ToRestart_all(id) == Slot

\* Mutant: the siblings of the failed child are restarted, itself not.
ToRestart_siblings(id) == Slot \ Occupants(id)

\* The slots restart_child is called for.
ToRestart(id) ==
    CASE Strategy = "OneForOne"  -> Occupants(id)
      [] Strategy = "OneForAll"  -> Slot
      [] Strategy = "RestForOne" -> {s \in Slot : Order[s] >= FailedOrder(id)}

\* rx.recv() and the bookkeeping of the restart log.
TakeSignal ==
    /\ sup = "select"
    /\ signals # <<>>
    /\ signals' = Tail(signals)
    /\ restart_log' = Pruned
    /\ UNCHANGED <<current_refs, initial_refs, handle, now, regVars, childVars, phase,
                   mailbox, sends, failed>>

\* Mutant: one restart too many.
Exceeded_off_by_one == Len(Pruned) > MaxRestarts + 1

Exceeded == Len(Pruned) > MaxRestarts

\* Within the intensity: start a restart round.
Restart ==
    /\ TakeSignal
    /\ ~Exceeded
    /\ todo' = ToRestart(Head(signals))
    /\ sup' = "restart"
    /\ rounds' = Append(rounds, now)
    /\ UNCHANGED <<slotId, abandoned>>

\* Intensity exceeded, ShutdownSupervisor: stop the children and leave the loop.
IntensityShutdown ==
    /\ TakeSignal
    /\ Exceeded /\ IntensityAction = "ShutdownSupervisor"
    /\ todo' = Slot
    /\ sup' = "stopping"
    /\ UNCHANGED <<slotId, rounds, abandoned>>

\* Intensity exceeded, AbandonChild: forget the id and go on.
Abandon ==
    /\ TakeSignal
    /\ Exceeded /\ IntensityAction = "AbandonChild"
    /\ slotId' = [s \in Slot |-> IF slotId[s] = Head(signals) THEN DEAD ELSE slotId[s]]
    /\ abandoned' = abandoned \cup Occupants(Head(signals))
    /\ UNCHANGED <<sup, todo, rounds>>

\* restart_child, Ok.
RestartChild(s) ==
    /\ sup = "restart"
    /\ FactoryReturns(s)
    /\ UNCHANGED initial_refs

\* restart_child, Err: the old ref stays in current_refs.
RestartChildFails(s) ==
    /\ FactoryFails /\ born = DEAD
    /\ sup = "restart" /\ First(s)
    /\ slotId' = [slotId EXCEPT ![s] = DEAD]
    /\ todo' = todo \ {s}
    /\ UNCHANGED <<sup, current_refs, initial_refs, restart_log, handle, signals, now, regVars,
                   childVars, phase, mailbox, sends, history>>

RestartDone ==
    /\ sup = "restart" /\ todo = {}
    /\ sup' = "select"
    /\ UNCHANGED <<todo, slotId, current_refs, initial_refs, restart_log, handle, signals, now,
                   regVars, childVars, phase, mailbox, sends, history>>

-----------------------------------------------------------------------------
(* Stopping.                                                                *)

\* SupervisorHandle::stop takes and fires shutdown_tx, then awaits the task; it
\* returns at once when the task has already ended.
CallStop ==
    /\ handle = "held"
    /\ handle' = IF sup = "stopped" THEN "dropped" ELSE "stopping"
    /\ UNCHANGED <<supVars, signals, now, regVars, childVars, phase, mailbox, sends, history>>

\* The handle is dropped instead: shutdown_rx resolves all the same, and the
\* initial refs go at once.
DropHandle ==
    /\ handle = "held"
    /\ handle' = "dropped"
    /\ UNCHANGED <<supVars, signals, now, regVars, childVars, phase, mailbox, sends, history>>

\* The other branch of the (unbiased) select!.
Shutdown ==
    /\ sup = "select"
    /\ handle \in {"stopping", "dropped"}
    /\ sup' = "stopping"
    /\ todo' = Slot
    /\ UNCHANGED <<slotId, current_refs, initial_refs, restart_log, handle, signals, now, regVars,
                   childVars, phase, mailbox, sends, history>>

\* Mutant: stop() reaches the initial instances only.
ToStop_initial(s) == initial_refs[s]

ToStop(s) == current_refs[s]

\* current_refs.iter().rev(): stop() waits while the mailbox is full and fails
\* once the child is gone.
StopChild(s) ==
    LET i == ToStop(s) IN
    /\ sup = "stopping" /\ Last(s)
    /\ IF Open(i)
       THEN Len(mailbox[i]) < MboxCap /\ mailbox' = [mailbox EXCEPT ![i] = Append(@, "Stop")]
       ELSE UNCHANGED mailbox
    /\ todo' = todo \ {s}
    /\ UNCHANGED <<sup, slotId, current_refs, initial_refs, restart_log, handle, signals, now,
                   regVars, childVars, phase, sends, history>>

\* break: the task ends, its receiver and current_refs are dropped, stop() returns.
Stopped ==
    /\ sup = "stopping" /\ todo = {}
    /\ sup' = "stopped"
    /\ signals' = <<>>
    /\ handle' = IF handle = "stopping" THEN "dropped" ELSE handle
    /\ UNCHANGED <<todo, slotId, current_refs, initial_refs, restart_log, now, regVars,
                   childVars, phase, mailbox, sends, history>>

Tick ==
    /\ now < MaxTime
    /\ now' = now + 1
    /\ UNCHANGED <<supVars, handle, signals, regVars, childVars, phase, mailbox, sends, history>>

-----------------------------------------------------------------------------
ChildStep(i) == PreStartOk(i) \/ PreStartErr(i) \/ Serve(i) \/ MailboxClosed(i)
                \/ Notify(i) \/ Exit(i)

SupStep ==
    \/ \E s \in Slot : Factory(s) \/ StartChild(s) \/ StartFails(s) \/ RestartChild(s)
                       \/ RestartChildFails(s) \/ StopChild(s)
    \/ Started \/ Restart \/ IntensityShutdown \/ Abandon \/ RestartDone
    \/ Shutdown \/ Stopped

Next ==
    \/ \E i \in Inst : ChildStep(i) \/ \E e \in {"Msg", "Kill"} : Send(i, e)
    \/ SupStep \/ CallStop \/ DropHandle \/ Tick

Spec == Init /\ [][Next]_vars

\* The executor polls every task that can go on; hooks and handlers return. The
\* select! of the supervisor picks a ready branch at random, so a pending
\* shutdown is not passed over for ever: it is polled at every turn.
Fairness == /\ \A i \in Inst : WF_vars(ChildStep(i))
            /\ WF_vars(SupStep)
            /\ SF_vars(Shutdown)

FairSpec == Spec /\ Fairness
-----------------------------------------------------------------------------
(* Properties.                                                              *)

\* Every variable stays in its type; no channel exceeds its capacity.
TypeOK ==
    /\ sup \in {"starting", "select", "restart", "stopping", "stopped", "failed"}
    /\ todo \subseteq Slot
    /\ slotId \in [Slot -> {DEAD} \cup Inst]
    /\ current_refs \in [Slot -> {DEAD} \cup Inst]
    /\ initial_refs \in [Slot -> {DEAD} \cup Inst]
    /\ handle \in {"none", "held", "stopping", "dropped"}
    /\ signals \in Seq(Inst) /\ Len(signals) <= SigCap
    /\ restart_log \in Seq(0 .. MaxTime)
    /\ now \in 0 .. MaxTime
    /\ refs \in [Slot -> {DEAD} \cup Inst]
    /\ generations \in [Slot -> Nat]
    /\ next \in 1 .. MaxInst + 1
    /\ slotOf \in [Inst -> {0} \cup Slot]
    /\ born \in {DEAD} \cup Inst
    /\ phase \in [Inst -> Phase]
    /\ mailbox \in [Inst -> Seq({"Msg", "Kill", "Stop"})]
    /\ \A i \in Inst : Len(mailbox[i]) <= MboxCap
    /\ sends \in 0 .. MaxSends
    /\ failed \subseteq Inst
    /\ rounds \in Seq(0 .. MaxTime)
    /\ abandoned \subseteq Slot

Serving(i) == phase[i] \in {"starting", "serving"}

\* A child that is being replaced has stopped serving: no two instances of one
\* slot work at the same time, although the old task is still running post_stop
\* and its link propagation while the factory spawns the new one. Under OneForOne
\* this rests on the order in handle_message: the signal is sent only after the
\* failed handle, and the id in it no longer matches once the slot moved on.
OneServingPerSlot ==
    \A i, j \in Inst : Serving(i) /\ Serving(j) /\ slotOf[i] = slotOf[j] => i = j

\* What a client finds in the ChildRegistry is the instance that serves: once
\* the factory has returned, a name resolves to its new instance and to no
\* superseded one while that works, and the generation counts the instances of
\* the name. Between the spawn and the lock of track_and_bump the new instance
\* already runs under no name; that one, `born', is the only exception.
ServingIsPublished ==
    UseRegistry =>
        /\ \A i \in Inst : Serving(i) /\ i # born => refs[slotOf[i]] = i
        /\ \A s \in Slot :
              generations[s] = Cardinality({i \in Inst : slotOf[i] = s /\ i # born})

\* An instance that still serves, or still has to send its signal.
Active(i) == phase[i] \in {"starting", "serving", "notifying"}

\* Ids are handed out in order and each belongs to the slot it was spawned for.
IdsInOrder ==
    \A i \in Inst : /\ phase[i] = "unborn" <=> i >= next
                    /\ slotOf[i] = 0 <=> i >= next

\* An active instance whose factory has returned.
Settled(i) == Active(i) /\ i # born

\* It is the occupant of its slot.
ActiveOccupies == \A i \in Inst : Settled(i) => slotId[slotOf[i]] = i

\* A factory runs for the first slot the loop has to visit.
BornIsFirst == born # DEAD => sup \in {"starting", "restart"} /\ First(slotOf[born])

\* A signal in the channel comes from an instance that is no longer active.
SignalledIsDone ==
    \A k \in DOMAIN signals : ~Active(signals[k]) /\ phase[signals[k]] # "unborn"

\* A slot that is about to be filled has no active instance but the new one.
TodoIsVacant ==
    sup \in {"starting", "restart"} => \A i \in Inst : Settled(i) => slotOf[i] \notin todo

\* The registry names the active instance.
ActivePublished == UseRegistry => \A i \in Inst : Settled(i) => refs[slotOf[i]] = i

\* Why OneForOne never has two instances of a slot at work: a signal in the
\* channel, and a slot the restart loop has still to visit, belong to an instance
\* that is past its last handle. This is the inductive invariant of SupervisorProofs.
OneForOneInv ==
    /\ IdsInOrder /\ ActiveOccupies /\ BornIsFirst /\ SignalledIsDone
    /\ TodoIsVacant /\ ActivePublished

\* Restart intensity: any max_restarts + 1 restart rounds in a row are more than
\* within_secs apart, so that no window of within_secs sees more than
\* max_restarts of them, whatever the arrival times of the signals and however
\* many were queued while the supervisor was busy.
IntensityBound ==
    \A k \in DOMAIN rounds :
        k + MaxRestarts \in DOMAIN rounds => rounds[k] + Window < rounds[k + MaxRestarts]

\* The failures that justify replacing the child of slot s.
Causes(s) ==
    {j \in failed : CASE Strategy = "OneForOne"  -> slotOf[j] = s
                      [] Strategy = "OneForAll"  -> TRUE
                      [] Strategy = "RestForOne" -> Order[slotOf[j]] <= Order[s]}

\* Every instance beyond the first of a slot was spawned for a failure of its
\* own: signals of instances that were replaced meanwhile restart nothing they
\* should not (the strategy tables of examples/supervisor_strategies.md).
RestartsHaveCause ==
    \A s \in Slot :
        Cardinality({i \in Inst : slotOf[i] = s}) <= 1 + Cardinality(Causes(s))

\* AbandonChild: a slot that was given up is not restarted any more.
AbandonedStaysDown ==
    [][\A s \in abandoned : current_refs'[s] = current_refs[s]]_vars

\* A factory has spawned the new instance of slot s.
Filling(s) == born # DEAD /\ slotOf[born] = s

\* The instance slot s has: its own from the spawn on.
Current(s) == IF Filling(s) THEN born ELSE current_refs[s]

\* The failure of the child of slot s is still to be answered: its signal waits,
\* or the restart loop is about to visit the slot.
Awaited(s) ==
    \/ sup = "restart" /\ s \in todo /\ ~Filling(s)
    \/ /\ Filling(s) \/ slotId[s] = current_refs[s]
       /\ \E k \in DOMAIN signals : signals[k] = Current(s)

Status(s) ==
    IF Current(s) = DEAD THEN "vacant"
    ELSE IF Serving(Current(s)) THEN "up"
    ELSE IF phase[Current(s)] = "notifying" \/ Awaited(s) THEN "failed"
    ELSE "down"

Slots == INSTANCE SupervisedSlots WITH
    status <- [s \in Slot |-> Status(s)],
    who <- [s \in Slot |-> Current(s)]

\* Under OneForOne the supervisor, its children, clients and shutdown together
\* implement SupervisedSlots: a child is replaced only after its own handle failed
\* and by a newer instance, one at a time; a child that was stopped or killed,
\* whose pre_start or factory failed, or that was given up, is never replaced,
\* whatever signals are still queued.
SlotSpec == Slots!Spec

\* Under OneForOne an accepted RestartSignal is answered: the slot gets a new
\* instance or is given up, or the supervisor is shutting down. The signal may
\* arrive before the factory that spawned its sender has returned.
FailureIsAnswered ==
    \A i \in Inst :
        i \in failed ~> \/ i # born /\ \A s \in Slot : slotId[s] # i
                        \/ sup \in {"stopping", "stopped", "failed"}

\* The supervisor waits for room in the mailbox of a child that itself waits for
\* room in the channel that only the supervisor empties.
StopBlocked ==
    /\ sup = "stopping"
    /\ \E s \in todo : /\ Last(s)
                       /\ phase[current_refs[s]] = "notifying"
                       /\ Len(mailbox[current_refs[s]]) = MboxCap
    /\ ~SignalRoom

\* SupervisorHandle::stop returns, and every child exits, also the ones that
\* were failing, starting or waiting to send their signal when it was called -
\* unless it runs into the one cycle of waits there is: a child with a full
\* mailbox that cannot send its signal.
StopStopsAll ==
    handle = "stopping" ~>
        \/ StopBlocked
        \/ /\ sup = "stopped"
           /\ \A i \in Inst : phase[i] \in {"unborn", "dead"}
=============================================================================
