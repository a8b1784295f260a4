---------------------------- MODULE ActorRuntime ----------------------------
(***************************************************************************)
(* The actor task of src/actor.rs (run_actor, handle_message and           *)
(* finish_actor), the process-wide registry of src/registry.rs and the     *)
(* per-actor handle counters of src/monitor.rs.                            *)
(*                                                                         *)
(* Every actor is one task. It owns two bounded channels: `mailbox'        *)
(* (Envelope, filled by the holders of an ActorRef) and `control'          *)
(* (ControlMsg, filled by other actor tasks through the registry). An      *)
(* action is one stretch of the task between two points where another      *)
(* task may run; a send on a full channel blocks, so it is a disabled      *)
(* action. Payloads, error texts and durations are left out.               *)
(***************************************************************************)
EXTENDS Naturals, Sequences, FiniteSets, SequencesExt

CONSTANTS
    Actor,       \* the actor ids that may be spawned (ActorId::new, never reused)
    Supervised,  \* those spawned with Some(supervisor_tx)
    Token,       \* the oneshot channels monitor() may create
    ObserverOf,  \* [Token -> observer id]: the observer each monitor() names
    Cap,         \* ActorConfig::mailbox_capacity: mailbox AND control capacity
    SigCap,      \* SupervisorConfig::mailbox_capacity
    Budget,      \* [CallKinds -> Nat]: how many calls of each kind clients make
    Traps,       \* the values trap_exit() has in the implementations used
    SelfLinks,   \* some client links an actor to itself
    HasTimeout,  \* ActorConfig::handle_timeout.is_some()
    MayAbort     \* a task may be dropped: JoinHandle::abort, a panicking hook

CallKinds == {"Msg", "Stop", "Kill", "Link", "Unlink", "Monitor", "Demonitor",
              "Upgrade", "Drop"}

ASSUME ConstantsAssumption ==
    /\ IsFiniteSet(Actor)
    /\ Supervised \subseteq Actor
    /\ Cap \in Nat \ {0}
    /\ SigCap \in Nat \ {0}
    /\ Budget \in [CallKinds -> Nat]
    /\ Traps \subseteq BOOLEAN
    /\ SelfLinks \in BOOLEAN
    /\ HasTimeout \in BOOLEAN
    /\ MayAbort \in BOOLEAN

Observer == {ObserverOf[t] : t \in Token}

\* ExitReason; "UpgradeError" is the Error(_) of a failed on_upgrade, kept apart
\* from the Error(_) of a failed handle because only the latter is signalled.
HandleFailure == {"Error", "HandleTimeout"}
Reason == {"Normal", "Shutdown", "Killed", "Linked", "UpgradeError"} \cup HandleFailure

Envelope == [kind : {"Msg", "Stop", "Kill"}]
            \cup [kind : {"Link", "Unlink"}, peer : Actor]
            \cup [kind : {"Monitor"}, token : Token]
            \cup [kind : {"Demonitor"}, observer : Observer]
            \cup [kind : {"Upgrade"}, trap : Traps]

ControlMsg == [kind : {"Link", "LinkedExit"}, peer : Actor]

VARIABLES
    pc,          \* where each task is
    mailbox,     \* rx of each task
    control,     \* control_rx of each task
    registry,    \* the keys of ACTORS
    links,       \* links: HashSet<ActorId>
    monitors,    \* the oneshot senders stored by the task
    oneshot,     \* what the receiver of a monitor() call can observe
    reason,      \* exit_reason once the loop is left, "none" before
    outbox,      \* peers the task is still to send a control message to
    trap,        \* trap_exit() of the current implementation
    refs,        \* some ActorRef of this actor is still alive
    inFlight,    \* StatsCell::in_flight
    signals,     \* the supervisor's RestartSignal channel
    supUp,       \* its receiver is alive
    calls,       \* the client calls made so far, by kind
    \* history variables: read by properties only
    told,        \* how many RestartSignals of each actor were accepted
    trapped,     \* peers whose LinkedExit each actor ignored
    late         \* envelopes taken while a control message was waiting

chans   == <<mailbox, control>>
watch   == <<monitors, oneshot>>
client  == <<refs, calls>>
super   == <<signals, supUp, told>>
history == <<trapped, late>>
vars == <<pc, chans, registry, links, watch, reason, outbox, trap, client,
          inFlight, super, history>>

Loop == {"control", "mailbox", "reverse_link", "handle"}
Exiting == {"notify", "post_stop", "propagate"}
Live == {"pre_start"} \cup Loop \cup Exiting
PC == {"unborn", "exited", "aborted"} \cup Live

\* The channels of a task exist from spawn until its future is dropped.
Open(a) == pc[a] \in Live

\* Mutant: an actor registers only once its pre_start has returned.
Reachable_after_pre_start(p) == p \in registry /\ Open(p) /\ pc[p] # "pre_start"

\* get_control_sender finds the entry and the receiver is not dropped; anything
\* else makes the lookup or the send fail, which every caller ignores.
Reachable(p) == p \in registry /\ Open(p)

\* The oneshot senders travelling in a mailbox.
TokensIn(q) == {t \in Token : Contains(q, [kind |-> "Monitor", token |-> t])}

LinkMsg(a) == [kind |-> "Link", peer |-> a]
LinkedExitMsg(a) == [kind |-> "LinkedExit", peer |-> a]

\* Dropping a oneshot sender makes its receiver return an error.
Close(os, S) == [t \in Token |-> IF t \in S /\ os[t] = "pending" THEN "closed" ELSE os[t]]

Init ==
    /\ pc = [a \in Actor |-> "unborn"]
    /\ mailbox = [a \in Actor |-> <<>>]
    /\ control = [a \in Actor |-> <<>>]
    /\ registry = {}
    /\ links = [a \in Actor |-> {}]
    /\ monitors = [a \in Actor |-> {}]
    /\ oneshot = [t \in Token |-> "unused"]
    /\ reason = [a \in Actor |-> "none"]
    /\ outbox = [a \in Actor |-> <<>>]
    /\ trap \in [Actor -> Traps]
    /\ refs = [a \in Actor |-> FALSE]
    /\ inFlight = [a \in Actor |-> 0]
    /\ signals = <<>>
    /\ supUp = TRUE
    /\ calls = [k \in CallKinds |-> 0]
    /\ told = [a \in Actor |-> 0]
    /\ trapped = [a \in Actor |-> {}]
    /\ late = [a \in Actor |-> 0]

-----------------------------------------------------------------------------
(* Clients: spawn and the methods of ActorRef.                              *)

\* spawn_on_runtime: register_actor, then the task starts in pre_start.
Spawn(a) ==
    /\ pc[a] = "unborn"
    /\ pc' = [pc EXCEPT ![a] = "pre_start"]
    /\ registry' = registry \cup {a}
    /\ refs' = [refs EXCEPT ![a] = TRUE]
    /\ UNCHANGED <<chans, links, watch, reason, outbox, trap, calls, inFlight, super, history>>

Call(kind) ==
    /\ calls[kind] < Budget[kind]
    /\ calls' = [calls EXCEPT ![kind] = @ + 1]

\* self.tx.send(e).await by any holder of an ActorRef: waits while the mailbox is full.
Post(a, e) ==
    /\ Call(e.kind)
    /\ refs[a] /\ Open(a)
    /\ Len(mailbox[a]) < Cap
    /\ mailbox' = [mailbox EXCEPT ![a] = Append(@, e)]
    /\ UNCHANGED <<pc, control, registry, links, monitors, reason, outbox, trap, refs,
                   inFlight, super, trapped, late>>

\* ActorRef::send, stop, kill, unlink, demonitor and upgrade.
Request(a, e) ==
    /\ e.kind \in {"Msg", "Stop", "Kill", "Unlink", "Demonitor", "Upgrade"}
    /\ Post(a, e)
    /\ UNCHANGED oneshot

\* ActorRef::link; an id can only be named once its actor was spawned.
Link(a, b) ==
    /\ pc[b] # "unborn"
    /\ a # b \/ SelfLinks
    /\ Post(a, [kind |-> "Link", peer |-> b])
    /\ UNCHANGED oneshot

\* ActorRef::monitor: a fresh oneshot whose sender travels in the envelope.
Monitor(a, t) ==
    /\ oneshot[t] = "unused"
    /\ Post(a, [kind |-> "Monitor", token |-> t])
    /\ oneshot' = [oneshot EXCEPT ![t] = "pending"]

\* Mutant: the caller keeps the sender when the mailbox is closed.
MonitorClosed_kept(a, t) ==
    /\ Call("Monitor")
    /\ oneshot[t] = "unused"
    /\ pc[a] # "unborn" /\ refs[a] /\ ~Open(a)
    /\ oneshot' = [oneshot EXCEPT ![t] = "pending"]
    /\ UNCHANGED <<pc, chans, registry, links, monitors, reason, outbox, trap, refs,
                   inFlight, super, history>>

\* ActorRef::monitor on a closed mailbox: the envelope, and the sender in it, is dropped.
MonitorClosed(a, t) ==
    /\ Call("Monitor")
    /\ oneshot[t] = "unused"
    /\ pc[a] # "unborn" /\ refs[a] /\ ~Open(a)
    /\ oneshot' = [oneshot EXCEPT ![t] = "closed"]
    /\ UNCHANGED <<pc, chans, registry, links, monitors, reason, outbox, trap, refs,
                   inFlight, super, history>>

\* The last clone of the ActorRef goes away.
DropRefs(a) ==
    /\ Call("Drop")
    /\ refs[a]
    /\ refs' = [refs EXCEPT ![a] = FALSE]
    /\ UNCHANGED <<pc, chans, registry, links, watch, reason, outbox, trap, inFlight,
                   super, history>>

-----------------------------------------------------------------------------
(* run_actor.                                                               *)

PreStartOk(a) ==
    /\ pc[a] = "pre_start"
    /\ pc' = [pc EXCEPT ![a] = "control"]
    /\ UNCHANGED <<chans, registry, links, watch, reason, outbox, trap, client,
                   inFlight, super, history>>

\* The task ends: both receivers are dropped with all they hold, and so are the
\* oneshot senders still queued in the mailbox.
DropTask(a, S) ==
    /\ mailbox' = [mailbox EXCEPT ![a] = <<>>]
    /\ control' = [control EXCEPT ![a] = <<>>]
    /\ monitors' = [monitors EXCEPT ![a] = {}]
    /\ oneshot' = Close(oneshot, TokensIn(mailbox[a]) \cup S)

\* pre_start failed: unregister and return; no post_stop, no monitor, link or
\* supervisor hears of it.
PreStartErr(a) ==
    /\ pc[a] = "pre_start"
    /\ pc' = [pc EXCEPT ![a] = "exited"]
    /\ registry' = registry \ {a}
    /\ DropTask(a, {})
    /\ inFlight' = [inFlight EXCEPT ![a] = 0]
    /\ UNCHANGED <<links, reason, outbox, trap, client, super, history>>

\* Mutant: no reverse link is sent.
InsertLink_one_sided(a, peer) ==
    /\ links' = [links EXCEPT ![a] = @ \cup {peer}]
    /\ pc' = [pc EXCEPT ![a] = "control"]
    /\ UNCHANGED outbox

\* `if links.insert(peer) { send_reverse_link(..).await }', then back to the loop.
InsertLink(a, peer) ==
    /\ links' = [links EXCEPT ![a] = @ \cup {peer}]
    /\ IF peer \in links[a]
       THEN pc' = [pc EXCEPT ![a] = "control"] /\ UNCHANGED outbox
       ELSE /\ pc' = [pc EXCEPT ![a] = "reverse_link"]
            /\ outbox' = [outbox EXCEPT ![a] = <<peer>>]

\* break 'actor_loop with an exit reason.
Break(a, r, next) ==
    /\ reason' = [reason EXCEPT ![a] = r]
    /\ pc' = [pc EXCEPT ![a] = next]

\* control_rx.recv() is ready: the biased select! takes it before any envelope.
TakeControl(a) ==
    /\ pc[a] = "control"
    /\ control[a] # <<>>
    /\ control' = [control EXCEPT ![a] = Tail(@)]
    /\ late' = [late EXCEPT ![a] = 0]

RecvLink(a) ==
    /\ TakeControl(a)
    /\ Head(control[a]).kind = "Link"
    /\ InsertLink(a, Head(control[a]).peer)
    /\ UNCHANGED <<mailbox, registry, watch, reason, trap, client, inFlight, super,
                   trapped>>

\* Mutant: the break after a LinkedExit is missing.
RecvLinkedExit_no_break(a) ==
    /\ TakeControl(a)
    /\ Head(control[a]).kind = "LinkedExit"
    /\ UNCHANGED <<pc, reason, mailbox, registry, links, watch, outbox, trap, client, inFlight,
                   super, trapped>>

\* linked_exit_reason: trap_exit() of the current implementation decides.
RecvLinkedExit(a) ==
    /\ TakeControl(a)
    /\ Head(control[a]).kind = "LinkedExit"
    /\ \/ /\ trap[a]
          /\ trapped' = [trapped EXCEPT ![a] = @ \cup {Head(control[a]).peer}]
          /\ UNCHANGED <<pc, reason>>
       \/ /\ ~trap[a]
          /\ Break(a, "Linked", "post_stop")
          /\ UNCHANGED trapped
    /\ UNCHANGED <<mailbox, registry, links, watch, outbox, trap, client, inFlight,
                   super>>

\* Mutant: the select! is not biased.
ControlPending_unbiased(a) ==
    /\ pc[a] = "control"
    /\ pc' = [pc EXCEPT ![a] = "mailbox"]
    /\ UNCHANGED <<chans, registry, links, watch, reason, outbox, trap, client,
                   inFlight, super, history>>

\* control_rx.recv() is pending, so the same poll goes on to rx.recv(); a control
\* message sent from now on is not seen by this poll.
ControlPending(a) ==
    /\ pc[a] = "control"
    /\ control[a] = <<>>
    /\ pc' = [pc EXCEPT ![a] = "mailbox"]
    /\ UNCHANGED <<chans, registry, links, watch, reason, outbox, trap, client,
                   inFlight, super, history>>

\* Both branches are pending: the task parks and is polled again from the top.
Park(a) ==
    /\ pc[a] = "mailbox"
    /\ mailbox[a] = <<>>
    /\ refs[a]
    /\ pc' = [pc EXCEPT ![a] = "control"]
    /\ UNCHANGED <<chans, registry, links, watch, reason, outbox, trap, client,
                   inFlight, super, history>>

\* rx.recv() returned None: every ActorRef is gone and the mailbox is drained.
MailboxClosed(a) ==
    /\ pc[a] = "mailbox"
    /\ mailbox[a] = <<>>
    /\ ~refs[a]
    /\ Break(a, "Normal", "post_stop")
    /\ UNCHANGED <<chans, registry, links, watch, outbox, trap, client, inFlight,
                   super, history>>

Take(a, kind) ==
    /\ pc[a] = "mailbox"
    /\ mailbox[a] # <<>>
    /\ Head(mailbox[a]).kind = kind
    /\ mailbox' = [mailbox EXCEPT ![a] = Tail(@)]
    /\ late' = [late EXCEPT ![a] = IF control[a] = <<>> THEN 0 ELSE @ + 1]
    /\ UNCHANGED <<control, registry, refs, calls, super, trapped>>

\* Envelope::Msg: handle_message up to its first await; begin_handle counts it.
TakeMsg(a) ==
    /\ Take(a, "Msg")
    /\ pc' = [pc EXCEPT ![a] = "handle"]
    /\ inFlight' = [inFlight EXCEPT ![a] = @ + 1]
    /\ UNCHANGED <<links, watch, reason, outbox, trap>>

TakeLink(a) ==
    /\ Take(a, "Link")
    /\ InsertLink(a, Head(mailbox[a]).peer)
    /\ UNCHANGED <<watch, reason, trap, inFlight>>

\* One-sided: the peer keeps its own entry.
TakeUnlink(a) ==
    /\ Take(a, "Unlink")
    /\ links' = [links EXCEPT ![a] = @ \ {Head(mailbox[a]).peer}]
    /\ pc' = [pc EXCEPT ![a] = "control"]
    /\ UNCHANGED <<watch, reason, outbox, trap, inFlight>>

TakeMonitor(a) ==
    /\ Take(a, "Monitor")
    /\ monitors' = [monitors EXCEPT ![a] = @ \cup {Head(mailbox[a]).token}]
    /\ pc' = [pc EXCEPT ![a] = "control"]
    /\ UNCHANGED <<links, oneshot, reason, outbox, trap, inFlight>>

\* Mutant: retain with the condition the wrong way round.
Removed_inverted(a, observer) == {t \in monitors[a] : ObserverOf[t] # observer}

\* monitors.retain(|(id, _)| *id != observer).
Removed(a, observer) == {t \in monitors[a] : ObserverOf[t] = observer}

\* The removed senders are dropped.
TakeDemonitor(a) ==
    LET gone == Removed(a, Head(mailbox[a]).observer) IN
    /\ Take(a, "Demonitor")
    /\ monitors' = [monitors EXCEPT ![a] = @ \ gone]
    /\ oneshot' = Close(oneshot, gone)
    /\ pc' = [pc EXCEPT ![a] = "control"]
    /\ UNCHANGED <<links, reason, outbox, trap, inFlight>>

\* The new implementation replaces the old one even when its on_upgrade fails,
\* and that failure leaves the loop without notify_supervisor.
TakeUpgrade(a) ==
    /\ Take(a, "Upgrade")
    /\ trap' = [trap EXCEPT ![a] = Head(mailbox[a]).trap]
    /\ \/ pc' = [pc EXCEPT ![a] = "control"] /\ UNCHANGED reason
       \/ Break(a, "UpgradeError", "post_stop")
    /\ UNCHANGED <<links, watch, outbox, inFlight>>

TakeStop(a) ==
    /\ Take(a, "Stop")
    /\ Break(a, "Shutdown", "post_stop")
    /\ UNCHANGED <<links, watch, outbox, trap, inFlight>>

TakeKill(a) ==
    /\ Take(a, "Kill")
    /\ Break(a, "Killed", "post_stop")
    /\ UNCHANGED <<links, watch, outbox, trap, inFlight>>

-----------------------------------------------------------------------------
(* handle_message after its first await.                                    *)

\* Each of finish_handle, record_error, record_panic, record_timeout.
LeaveHandle(a) ==
    /\ pc[a] = "handle"
    /\ inFlight' = [inFlight EXCEPT ![a] = @ - 1]
    /\ UNCHANGED <<chans, registry, links, watch, outbox, trap, client, super, history>>

HandleOk(a) ==
    /\ LeaveHandle(a)
    /\ pc' = [pc EXCEPT ![a] = "control"]
    /\ UNCHANGED reason

\* Mutant: record_error does not take the handle off in_flight.
HandleErr_still_in_flight(a) ==
    /\ pc[a] = "handle"
    /\ Break(a, "Error", "notify")
    /\ UNCHANGED <<chans, registry, links, watch, outbox, trap, client, inFlight, super, history>>

\* on_handle_begin or handle returned Err, or handle panicked.
HandleErr(a) ==
    /\ LeaveHandle(a)
    /\ Break(a, "Error", "notify")

\* tokio::time::timeout elapsed; the future of handle is dropped.
HandleTimeout(a) ==
    /\ HasTimeout
    /\ LeaveHandle(a)
    /\ Break(a, "HandleTimeout", "notify")

SignalRoom == Len(signals) < SigCap

\* Mutant: the send keeps waiting for a supervisor that is gone.
SupervisorOf_gone(a) == a \in registry \cap Supervised

\* get_supervisor_sender finds a sender and its receiver is alive.
SupervisorOf(a) == a \in registry \cap Supervised /\ supUp

\* Mutant: the supervisor is only told of timeouts.
NotifySupervisor_timeouts_only(a) ==
    /\ pc[a] = "notify"
    /\ IF SupervisorOf(a) /\ reason[a] = "HandleTimeout"
       THEN SignalRoom /\ signals' = Append(signals, a) /\ told' = [told EXCEPT ![a] = @ + 1]
       ELSE UNCHANGED <<signals, told>>
    /\ pc' = [pc EXCEPT ![a] = "post_stop"]
    /\ UNCHANGED <<chans, registry, links, watch, reason, outbox, trap, client,
                   inFlight, supUp, history>>

\* notify_supervisor: looked up in the registry, then a send that waits while
\* the signal channel is full and fails once the supervisor is gone.
NotifySupervisor(a) ==
    /\ pc[a] = "notify"
    /\ IF SupervisorOf(a)
       THEN /\ SignalRoom
            /\ signals' = Append(signals, a)
            /\ told' = [told EXCEPT ![a] = @ + 1]
       ELSE UNCHANGED <<signals, told>>
    /\ pc' = [pc EXCEPT ![a] = "post_stop"]
    /\ UNCHANGED <<chans, registry, links, watch, reason, outbox, trap, client,
                   inFlight, supUp, history>>

-----------------------------------------------------------------------------
(* finish_actor.                                                            *)

ShouldPropagate(r) == r \in Reason \ {"Normal", "Shutdown"}

\* post_stop, the monitors, and the order in which the links will be walked
\* (the iteration order of a HashSet is arbitrary).
PostStop(a) ==
    /\ pc[a] = "post_stop"
    /\ oneshot' = [t \in Token |->
                     IF t \in monitors[a] /\ oneshot[t] = "pending" THEN reason[a] ELSE oneshot[t]]
    /\ monitors' = [monitors EXCEPT ![a] = {}]
    /\ \E order \in SetToSeqs(IF ShouldPropagate(reason[a]) THEN links[a] ELSE {}) :
         outbox' = [outbox EXCEPT ![a] = order]
    /\ pc' = [pc EXCEPT ![a] = "propagate"]
    /\ UNCHANGED <<chans, registry, links, reason, trap, client, inFlight, super, history>>

\* One send to the next peer: skipped when the peer is gone, waiting when its
\* control channel is full.
SendControl(a, m) ==
    LET p == Head(outbox[a]) IN
    /\ outbox[a] # <<>>
    /\ outbox' = [outbox EXCEPT ![a] = Tail(@)]
    /\ IF Reachable(p)
       THEN Len(control[p]) < Cap /\ control' = [control EXCEPT ![p] = Append(@, m)]
       ELSE UNCHANGED control
    /\ UNCHANGED <<mailbox, registry, links, watch, reason, trap, client, inFlight,
                   super, history>>

SendReverseLink(a) ==
    /\ pc[a] = "reverse_link"
    /\ SendControl(a, LinkMsg(a))
    /\ pc' = [pc EXCEPT ![a] = "control"]

Propagate(a) ==
    /\ pc[a] = "propagate"
    /\ SendControl(a, LinkedExitMsg(a))
    /\ UNCHANGED pc

\* Mutant: finish_actor signals the failure as well.
Unregister_notifies(a) ==
    /\ pc[a] = "propagate"
    /\ outbox[a] = <<>>
    /\ pc' = [pc EXCEPT ![a] = "exited"]
    /\ registry' = registry \ {a}
    /\ inFlight' = [inFlight EXCEPT ![a] = 0]
    /\ DropTask(a, monitors[a])
    /\ IF SupervisorOf(a) /\ reason[a] \in HandleFailure
       THEN SignalRoom /\ signals' = Append(signals, a) /\ told' = [told EXCEPT ![a] = @ + 1]
       ELSE UNCHANGED <<signals, told>>
    /\ UNCHANGED <<links, reason, outbox, trap, client, supUp, history>>

\* unregister_actor, mark_inactive, and the end of the task.
Unregister(a) ==
    /\ pc[a] = "propagate"
    /\ outbox[a] = <<>>
    /\ pc' = [pc EXCEPT ![a] = "exited"]
    /\ registry' = registry \ {a}
    /\ inFlight' = [inFlight EXCEPT ![a] = 0]
    /\ DropTask(a, monitors[a])
    /\ UNCHANGED <<links, reason, outbox, trap, client, super, history>>

\* The task is dropped at an await (JoinHandle::abort, a hook that panics): all
\* it owns goes away, but nothing runs, so its registry entry and its in_flight
\* count stay behind.
Abort(a) ==
    /\ MayAbort
    /\ Open(a)
    /\ pc' = [pc EXCEPT ![a] = "aborted"]
    /\ DropTask(a, monitors[a])
    /\ outbox' = [outbox EXCEPT ![a] = <<>>]
    /\ UNCHANGED <<registry, links, reason, trap, client, inFlight, super, history>>

-----------------------------------------------------------------------------
(* The supervisor, seen from the actors: it drains its channel until it ends. *)

SupervisorRecv ==
    /\ supUp /\ signals # <<>>
    /\ signals' = Tail(signals)
    /\ UNCHANGED <<pc, chans, registry, links, watch, reason, outbox, trap, client,
                   inFlight, supUp, told, history>>

SupervisorGone ==
    /\ supUp /\ Supervised # {}
    /\ supUp' = FALSE
    /\ signals' = <<>>
    /\ UNCHANGED <<pc, chans, registry, links, watch, reason, outbox, trap, client,
                   inFlight, told, history>>

-----------------------------------------------------------------------------
Client(a) ==
    \/ Spawn(a)
    \/ \E e \in Envelope : Request(a, e)
    \/ \E b \in Actor : Link(a, b)
    \/ \E t \in Token : Monitor(a, t) \/ MonitorClosed(a, t)
    \/ DropRefs(a)

TakeEnvelope(a) ==
    \/ TakeMsg(a) \/ TakeLink(a) \/ TakeUnlink(a) \/ TakeMonitor(a)
    \/ TakeDemonitor(a) \/ TakeUpgrade(a) \/ TakeStop(a) \/ TakeKill(a)

Step(a) ==
    \/ PreStartOk(a) \/ PreStartErr(a)
    \/ RecvLink(a) \/ RecvLinkedExit(a) \/ ControlPending(a)
    \/ Park(a) \/ MailboxClosed(a) \/ TakeEnvelope(a)
    \/ HandleOk(a) \/ HandleErr(a) \/ HandleTimeout(a) \/ NotifySupervisor(a)
    \/ SendReverseLink(a) \/ PostStop(a) \/ Propagate(a) \/ Unregister(a)

Next ==
    \/ \E a \in Actor : Client(a) \/ Step(a) \/ Abort(a)
    \/ SupervisorRecv \/ SupervisorGone

Spec == Init /\ [][Next]_vars

\* The executor polls every woken task again and tokio hands a freed slot of a
\* channel to a waiting sender; hooks and handlers are assumed to return. The
\* supervisor keeps draining its channel.
Fairness == /\ \A a \in Actor : WF_vars(Step(a))
            /\ WF_vars(SupervisorRecv)

FairSpec == Spec /\ Fairness
-----------------------------------------------------------------------------
(* Properties.                                                              *)

\* Every variable stays in its type; no channel exceeds its capacity.
TypeOK ==
    /\ pc \in [Actor -> PC]
    /\ mailbox \in [Actor -> Seq(Envelope)]
    /\ control \in [Actor -> Seq(ControlMsg)]
    /\ \A a \in Actor : Len(mailbox[a]) <= Cap /\ Len(control[a]) <= Cap
    /\ registry \subseteq Actor
    /\ links \in [Actor -> SUBSET Actor]
    /\ monitors \in [Actor -> SUBSET Token]
    /\ oneshot \in [Token -> {"unused", "pending", "closed"} \cup Reason]
    /\ reason \in [Actor -> {"none"} \cup Reason]
    /\ outbox \in [Actor -> Seq(Actor)]
    /\ trap \in [Actor -> Traps]
    /\ refs \in [Actor -> BOOLEAN]
    /\ inFlight \in [Actor -> Nat]
    /\ signals \in Seq(Actor) /\ Len(signals) <= SigCap
    /\ supUp \in BOOLEAN
    /\ calls \in [CallKinds -> Nat]
    /\ told \in [Actor -> Nat]
    /\ trapped \in [Actor -> SUBSET Actor]
    /\ late \in [Actor -> Nat]

\* A task that can still act on a control message.
Serving(a) == pc[a] \in {"pre_start"} \cup Loop

\* The reverse-link handshake (send_reverse_link and the Link arm of the control
\* branch): while nobody unlinks, a link of `a' to `b' is also in b's set, or
\* the message that will put it there is on its way. No interleaving of calls,
\* echoes, exits and failed starts leaves a half-open link behind. One call of
\* link is enough: examples/envelope_demo.md:45 calls the registration
\* bidirectional, and its line 170, which asks for a call on both sides, does
\* not describe this code.
LinkSymmetric ==
    Budget["Unlink"] = 0 =>
    \A a, b \in Actor :
        b \in links[a] /\ Serving(b) /\ pc[a] # "aborted" =>
            \/ a \in links[b]
            \/ Contains(control[b], LinkMsg(a))
            \/ pc[a] = "reverse_link" /\ outbox[a] = <<b>>

\* propagate_linked_exit: once an actor has exited abnormally and unregistered,
\* each peer of its link set that still serves has the LinkedExit waiting in
\* its control channel or has trapped it. None is lost to a full channel, to
\* pre_start still running or to the order in which the set is walked.
LinkedExitDelivered ==
    \A a, b \in Actor :
        pc[a] = "exited" /\ ShouldPropagate(reason[a]) /\ b \in links[a] /\ Serving(b) =>
            Contains(control[b], LinkedExitMsg(a)) \/ a \in trapped[b]

\* The biased select! of run_actor: between two control messages at most one
\* envelope overtakes a waiting control message, the one whose poll had already
\* passed the control branch. A backlog in the mailbox never delays a LinkedExit.
ControlFirst == \A a \in Actor : late[a] <= 1

\* No observer hangs: as long as the receiver of a monitor() call waits, a task
\* that is still running holds its sender, in its monitor list or its mailbox;
\* and exactly one does.
PendingMonitorIsHeld ==
    \A t \in Token : oneshot[t] = "pending" =>
        \E a \in Actor : /\ Open(a)
                         /\ t \in monitors[a] \cup TokensIn(mailbox[a])
                         /\ \A b \in Actor \ {a} : t \notin monitors[b] \cup TokensIn(mailbox[b])

\* finish_actor reaches every stored monitor: a sender the task has stored ends
\* with an exit reason, unless Demonitor named its observer or the task was dropped.
StoredMonitorIsNotified ==
    [][\A a \in Actor, t \in Token :
         t \in monitors[a] /\ oneshot[t] # oneshot'[t] =>
            \/ oneshot'[t] = reason'[a]
            \/ pc'[a] = "aborted"
            \/ /\ mailbox'[a] = Tail(mailbox[a])
               /\ Head(mailbox[a]) = [kind |-> "Demonitor", observer |-> ObserverOf[t]]]_vars

\* notify_supervisor runs once, between the loop and finish_actor: past it, a
\* failed handle of a supervised actor has been signalled if the supervisor is
\* still there. Nothing else is ever signalled and no failure twice, not
\* even after the supervisor has read its first signal.
\* (examples/envelope_demo.md:31-35 puts this notification after the monitors
\* and the linked peers; the code signals before finish_actor.)
FailureSignalledOnce ==
    /\ \A a \in Supervised :
         pc[a] \in {"post_stop", "propagate", "exited"} /\ reason[a] \in HandleFailure /\ supUp
           => told[a] = 1
    /\ \A a \in Actor : told[a] <= (IF a \in Supervised /\ reason[a] \in HandleFailure THEN 1 ELSE 0)

\* in_flight counts the running handle of a live task and is back at zero once
\* the task is gone; it can only stay up behind a dropped task.
InFlightExact ==
    \A a \in Actor : pc[a] # "aborted" => inFlight[a] = (IF pc[a] = "handle" THEN 1 ELSE 0)

\* An actor that has left its loop runs finish_actor to the end, also when it
\* finds the supervisor's signal channel full or its receiver gone. The claim is
\* about that wait only: the instance that checks it has more room in each
\* control channel than its peers can fill, and without that room it is false
\* (NoBlockedCycle).
ExitCompletes ==
    \A a \in Actor : reason[a] # "none" ~> pc[a] \in {"exited", "aborted"}

\* A LinkedExit that was accepted by a control channel is acted upon: its
\* receiver exits, or traps it, however full its mailbox is.
LinkedExitActedUpon ==
    \A a, b \in Actor :
        Contains(control[b], LinkedExitMsg(a)) ~> ~Serving(b) \/ a \in trapped[b]

\* Task `a' waits for room in the control channel of `p', which is full.
Blocked(a, p) ==
    /\ pc[a] \in {"reverse_link", "propagate"}
    /\ outbox[a] # <<>> /\ Head(outbox[a]) = p
    /\ Reachable(p) /\ Len(control[p]) >= Cap

\* Statement of examples/envelope_demo.md, exit sequence: an actor that exits
\* comes to its last step, Unregister. So no two tasks, and no larger set of
\* them, wait for ever on one another, each sending to a full control channel
\* whose owner, in the set as well, is sending instead of reading.
NoBlockedCycle ==
    \A S \in SUBSET Actor \ {{}} : \E a \in S : \A p \in S : ~Blocked(a, p)
=============================================================================
