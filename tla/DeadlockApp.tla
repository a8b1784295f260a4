----------------------------- MODULE DeadlockApp -----------------------------
(***************************************************************************)
(* The deadlock-prevention program of                                      *)
(* examples/handle_timeout_calculator_timer.rs and its twin ..._latency.rs *)
(* (the same actors; the twin starts with a measuring phase).  A           *)
(* calculator, a timer and a ledger under a RestForOne supervisor call     *)
(* each other from inside handle(); handle_timeout ends the calls that     *)
(* wait on one another, the stuck action is journaled, the chain is        *)
(* restarted, and main goes on.                                            *)
(*                                                                         *)
(* The runtime and the supervisor are used as ActorRuntime and Supervisor  *)
(* describe them: one handler at a time, mailboxes dropped with the actor, *)
(* one RestartSignal per failure, an id no slot has any more counting as   *)
(* order 0.  Numbers are left out.  Time enters in two places: a handler   *)
(* times out only while what it waits for cannot come (Stuck), and main's  *)
(* sleeps, longer than the timeout, end only in a settled system.          *)
(***************************************************************************)
EXTENDS Naturals, Sequences, FiniteSets, FiniteSetsExt, SequencesExt

CONSTANTS
  MaxTicks,   \* bound on the ticks of all timers
  MaxGen      \* bound on the generations of a child; restarts never reach it

Child == {"calculator", "timer", "ledger"}

Order == [calculator |-> 0, timer |-> 1, ledger |-> 2]

Inst == Child \X (1 .. MaxGen)

Main == <<"main", 0>>

Nobody == <<"nobody", 0>>

\* AppMsg.  A message carries the task that waits for its reply.
Probe == {"slow", "self", "cross"}

Quick == {"add", "fast", "last", "journal", "ping"}

Msg == [op : Probe \cup Quick \cup {"fetch", "start", "tick"}, from : Inst \cup {Main, Nobody}]

Message(op, from) == [op |-> op, from |-> from]

\* main's calls to the children, and its other steps.  A journal call names
\* the action that it asserts to find.
Calls == Probe \cup {"add", "fast", "last", "journal", "start"}

Steps == [op : Calls \cup {"sleep", "note", "check"}, finds : Probe \cup {""}]

Do(op) == [op |-> op, finds |-> ""]

Finds(op) == [op |-> "journal", finds |-> op]

\* One sample of each kind.
measure_success_latencies == <<Do("add"), Do("fast"), Do("last")>>

phase1_slow_handle ==
  <<Do("start"), Do("add"), Do("sleep"), Do("note"), Do("slow"), Do("sleep"),
    Do("check"), Finds("slow"), Do("start")>>

phase2_deadlock_prevention ==
  <<Do("note"), Do("self"), Do("sleep"), Finds("self"), Do("start"),
    Do("cross"), Do("sleep"), Finds("cross"), Do("check"), Do("start"),
    Do("add"), Do("fast")>>

Script == measure_success_latencies \o phase1_slow_handle \o phase2_deadlock_prevention \o <<Do("sleep")>>

ASSUME BoundsAssumption ==
  /\ Script \in Seq(Steps)
  /\ MaxTicks \in Nat /\ MaxGen \in Nat \ {0}

VARIABLES
  gen,        \* ChildRegistry: the current instance of each child
  state,      \* the life of each instance
  mailbox,    \* the messages an instance has not taken yet
  job,        \* the message whose handle() is at an await, or none; once the
              \* timeout has dropped handle(), Calculator::pending
  reply,      \* the oneshot a task waits on
  started,    \* timers that have their self_ref
  sleepers,   \* tasks of schedule_next that sleep, for each timer
  ticks,      \* number of ticks so far
  signals,    \* RestartSignals the supervisor has not taken
  todo,       \* children the supervisor is restarting
  journal,    \* SharedState::stuck_actions
  copy,       \* the journal as main last read it
  at, step,   \* main's position in the script, and within a call
  ref,        \* the ActorRef main holds
  noted,      \* before_gen of the calculator
  failed      \* main returned an error or an assertion panicked

appVars == <<gen, state, mailbox, job, reply, started, sleepers, ticks, signals, todo, journal, copy>>

mainVars == <<at, step, ref, noted, failed>>

vars == <<appVars, mainVars>>

NoJob == [op |-> "none", from |-> Nobody, on |-> Nobody]

TypeOK ==
  /\ gen \in [Child -> 1 .. MaxGen]
  /\ state \in [Inst -> {"unborn", "run", "stuck", "notify", "finish", "dead"}]
  /\ mailbox \in [Inst -> Seq(Msg)]
  /\ job \in [Inst -> [op : {"none"} \cup Probe \cup {"fetch", "tick"}, from : Inst \cup {Main, Nobody},
                      on : Inst \cup {Nobody}]]
  /\ reply \in [Inst \cup {Main} -> {"none", "wait", "ok", "dropped"}]
  /\ started \subseteq Inst
  /\ sleepers \in [1 .. MaxGen -> Nat]
  /\ ticks \in 0 .. MaxTicks
  /\ signals \in Seq(Inst)
  /\ todo \subseteq Child
  /\ journal \in Seq(Probe) /\ copy \in Seq(Probe)
  /\ at \in 1 .. Len(Script) + 1
  /\ step \in {"ready", "held", "wait"}
  /\ ref \in Inst \cup {Nobody}
  /\ noted \in 0 .. MaxGen
  /\ failed \in BOOLEAN

\* SupervisedApp::start: the children are spawned in order and settle.
Init ==
  /\ gen = [c \in Child |-> 1]
  /\ state = [i \in Inst |-> IF i[2] = 1 THEN "run" ELSE "unborn"]
  /\ mailbox = [i \in Inst |-> <<>>]
  /\ job = [i \in Inst |-> NoJob]
  /\ reply = [w \in Inst \cup {Main} |-> "none"]
  /\ started = {}
  /\ sleepers = [g \in 1 .. MaxGen |-> 0]
  /\ ticks = 0
  /\ signals = <<>> /\ todo = {}
  /\ journal = <<>> /\ copy = <<>>
  /\ at = 1 /\ step = "ready" /\ ref = Nobody /\ noted = 0 /\ failed = FALSE

-----------------------------------------------------------------------------
(* The actors                                                              *)

\* ChildRegistry::get.
Current(c) == <<c, gen[c]>>

Superseded(i) == state[i] # "unborn" /\ i # Current(i[1])

\* The receiver of the mailbox exists, so that send() succeeds.
Accepts(i) == state[i] \in {"run", "stuck", "notify", "finish"}

Ready(i, ops) ==
  /\ state[i] = "run" /\ job[i] = NoJob
  /\ mailbox[i] # <<>> /\ Head(mailbox[i]).op \in ops

Taken(i) == [mailbox EXCEPT ![i] = Tail(@)]

\* A oneshot is settled once; nobody hears of it when the waiter is gone.
Settled(w, how) == IF w # Nobody /\ reply[w] = "wait" THEN [reply EXCEPT ![w] = how] ELSE reply

\* Calculator: Add, SlowDiv without delay, Ping, LastResult, StuckJournal.
HandleQuick(i) ==
  /\ i[1] = "calculator" /\ Ready(i, Quick)
  /\ mailbox' = Taken(i)
  /\ reply' = Settled(Head(mailbox[i]).from, "ok")
  /\ copy' = IF Head(mailbox[i]).op = "journal" THEN journal ELSE copy
  /\ UNCHANGED <<gen, state, job, started, sleepers, ticks, signals, todo, journal, mainVars>>

\* The handler of the next message of `i' stops at an await for `t'.
Await(i, t) ==
  /\ job' = [job EXCEPT ![i] = [op |-> Head(mailbox[i]).op, from |-> Head(mailbox[i]).from, on |-> t]]
  /\ reply' = [reply EXCEPT ![i] = "wait"]

\* SlowDiv sleeps for longer than handle_timeout.
HandleSlow(i) ==
  /\ i[1] = "calculator" /\ Ready(i, {"slow"})
  /\ mailbox' = Taken(i)
  /\ Await(i, Nobody)
  /\ UNCHANGED <<gen, state, started, sleepers, ticks, signals, todo, journal, copy, mainVars>>

\* What a handler asks of which child.  CrossDeadlockProbe does not listen
\* to the answer: it awaits pending().
Question(i, op) ==
  CASE op = "self"  -> [to |-> "calculator", msg |-> Message("ping", i)]
    [] op = "cross" -> [to |-> "ledger", msg |-> Message("fetch", Nobody)]
    [] op = "fetch" -> [to |-> "calculator", msg |-> Message("last", i)]
    [] op = "tick"  -> [to |-> "calculator", msg |-> Message("last", i)]

Asks(i) ==
  \/ i[1] = "calculator" /\ Ready(i, {"self", "cross"})
  \/ i[1] = "ledger" /\ Ready(i, {"fetch"})
  \/ i[1] = "timer" /\ Ready(i, {"tick"})

Asked(i) == LET q == Question(i, Head(mailbox[i]).op) IN [to |-> Current(q.to), msg |-> q.msg]

HandleAsk(i) ==
  /\ Asks(i) /\ Accepts(Asked(i).to)
  /\ mailbox' = [Taken(i) EXCEPT ![Asked(i).to] = Append(@, Asked(i).msg)]
  /\ Await(i, Asked(i).to)
  /\ UNCHANGED <<gen, state, started, sleepers, ticks, signals, todo, journal, copy, mainVars>>

\* send() fails: `?' ends the handler with an error, which the timer ignores.
\* The reply of the message is dropped.
AskFails(i) ==
  /\ Asks(i) /\ ~Accepts(Asked(i).to)
  /\ mailbox' = Taken(i)
  /\ reply' = Settled(Head(mailbox[i]).from, "dropped")
  /\ IF i[1] = "timer"
     THEN sleepers' = [sleepers EXCEPT ![i[2]] = @ + 1] /\ UNCHANGED state
     ELSE state' = [state EXCEPT ![i] = "notify"] /\ UNCHANGED sleepers
  /\ UNCHANGED <<gen, job, started, ticks, signals, todo, journal, copy, mainVars>>

\* Mutant: the next tick is only scheduled after an answer.
Resume_answered(i) ==
  /\ state[i] = "run" /\ job[i] # NoJob /\ reply[i] \in {"ok", "dropped"}
  /\ reply' = [Settled(job[i].from, "ok") EXCEPT ![i] = "none"]
  /\ job' = [job EXCEPT ![i] = NoJob]
  /\ sleepers' = IF i[1] = "timer" /\ reply[i] = "ok" THEN [sleepers EXCEPT ![i[2]] = @ + 1] ELSE sleepers
  /\ UNCHANGED <<gen, state, mailbox, started, ticks, signals, todo, journal, copy, mainVars>>

\* The awaited reply, or its end: the handler completes.
Resume(i) ==
  /\ state[i] = "run" /\ job[i] # NoJob /\ reply[i] \in {"ok", "dropped"}
  /\ reply' = [Settled(job[i].from, "ok") EXCEPT ![i] = "none"]
  /\ job' = [job EXCEPT ![i] = NoJob]
  /\ sleepers' = IF i[1] = "timer" THEN [sleepers EXCEPT ![i[2]] = @ + 1] ELSE sleepers
  /\ UNCHANGED <<gen, state, mailbox, started, ticks, signals, todo, journal, copy, mainVars>>

\* ResultTimer::handle, TimerStart.
HandleStart(i) ==
  /\ i[1] = "timer" /\ Ready(i, {"start"})
  /\ mailbox' = Taken(i)
  /\ started' = started \cup {i}
  /\ sleepers' = [sleepers EXCEPT ![i[2]] = @ + 1]
  /\ UNCHANGED <<gen, state, job, reply, ticks, signals, todo, journal, copy, mainVars>>

\* The sleeper of schedule_next wakes up and sends to the timer it belongs to.
Tick(g) ==
  LET i == <<"timer", g>> IN
  /\ sleepers[g] > 0 /\ ticks < MaxTicks
  /\ ticks' = ticks + 1
  /\ sleepers' = [sleepers EXCEPT ![g] = @ - 1]
  /\ mailbox' = IF Accepts(i) THEN [mailbox EXCEPT ![i] = Append(@, Message("tick", Nobody))]
                ELSE mailbox
  /\ UNCHANGED <<gen, state, job, reply, started, signals, todo, journal, copy, mainVars>>

\* Mutant: the timeout only covers calls to other actors.
Stuck_calls(i) == job[i].on \in Inst /\ job[job[i].on] # NoJob

\* What `i' waits for cannot come in time: a sleep or pending(), a message in
\* its own mailbox, or an actor that itself is at an await.
Stuck(i) ==
  \/ job[i].op \in {"slow", "cross"}
  \/ job[i].on = i
  \/ job[i].on \in Inst /\ job[job[i].on] # NoJob

\* Mutant: from_msg forgets the cross-actor probe.
Journaled_no_cross(i) ==
  IF i[1] = "calculator" /\ job[i].op \in Probe \ {"cross"} THEN <<job[i].op>> ELSE <<>>

\* on_handle_begin has copied the inputs of what from_msg knows.
Journaled(i) == IF i[1] = "calculator" /\ job[i].op \in Probe THEN <<job[i].op>> ELSE <<>>

\* handle_timeout drops handle(), and with it the reply and all refs that
\* handle() held.  The copy of the inputs stays.
HandleTimeout(i) ==
  /\ state[i] = "run" /\ job[i] # NoJob /\ reply[i] = "wait" /\ Stuck(i)
  /\ reply' = [Settled(job[i].from, "dropped") EXCEPT ![i] = "none"]
  /\ job' = [job EXCEPT ![i] = IF Journaled(i) = <<>> THEN NoJob
                               ELSE [op |-> job[i].op, from |-> Nobody, on |-> Nobody]]
  /\ state' = [state EXCEPT ![i] = "stuck"]
  /\ UNCHANGED <<gen, mailbox, started, sleepers, ticks, signals, todo, journal, copy, mainVars>>

\* on_handle_stuck, when it has the lock of the shared state: whoever waited
\* may have seen the reply go by then.
OnHandleStuck(i) ==
  /\ state[i] = "stuck"
  /\ journal' = journal \o Journaled(i)
  /\ job' = [job EXCEPT ![i] = NoJob]
  /\ state' = [state EXCEPT ![i] = "notify"]
  /\ UNCHANGED <<gen, mailbox, reply, started, sleepers, ticks, signals, todo, copy, mainVars>>

Notify(i) ==
  /\ state[i] = "notify"
  /\ signals' = Append(signals, i)
  /\ state' = [state EXCEPT ![i] = "finish"]
  /\ UNCHANGED <<gen, mailbox, job, reply, started, sleepers, ticks, todo, journal, copy, mainVars>>

\* The task ends; the messages left in the mailbox go, with their replies.
Ends(i) ==
  /\ state' = [state EXCEPT ![i] = "dead"]
  /\ mailbox' = [mailbox EXCEPT ![i] = <<>>]
  /\ reply' = [w \in DOMAIN reply |->
                 IF reply[w] = "wait" /\ \E k \in DOMAIN mailbox[i] : mailbox[i][k].from = w
                 THEN "dropped" ELSE reply[w]]
  /\ UNCHANGED <<gen, job, started, sleepers, ticks, signals, todo, journal, copy, mainVars>>

Finish(i) == state[i] = "finish" /\ Ends(i)


\* A replaced instance ends when its mailbox is empty and the last ref to it
\* is gone; a timer that has its self_ref keeps itself alive.
MailboxClosed(i) ==
  /\ state[i] = "run" /\ Superseded(i)
  /\ job[i] = NoJob /\ mailbox[i] = <<>>
  /\ i \notin started /\ ref # i /\ \A j \in Inst : job[j].on # i
  /\ Ends(i)

Actor(i) ==
  \/ HandleQuick(i) \/ HandleSlow(i) \/ HandleAsk(i) \/ AskFails(i) \/ Resume(i)
  \/ HandleStart(i) \/ HandleTimeout(i) \/ OnHandleStuck(i) \/ Notify(i) \/ Finish(i) \/ MailboxClosed(i)

-----------------------------------------------------------------------------
(* The supervisor: RestForOne                                              *)

\* Mutant: only what comes after the failed child is restarted.
FailedOrder_after(i) == IF Superseded(i) THEN 0 ELSE Order[i[1]] + 1

FailedOrder(i) == IF Superseded(i) THEN 0 ELSE Order[i[1]]

TakeSignal ==
  /\ todo = {} /\ signals # <<>>
  /\ signals' = Tail(signals)
  /\ todo' = {c \in Child : Order[c] >= FailedOrder(Head(signals))}
  /\ UNCHANGED <<gen, state, mailbox, job, reply, started, sleepers, ticks, journal, copy, mainVars>>

\* The factory of spawn_child_spec.  The new instance runs before it is
\* published, but until then nobody has a ref to it and its mailbox is empty:
\* nothing that is modelled here happens in between, and both are one step.
RestartChild ==
  /\ todo # {}
  /\ \E c \in todo :
       /\ \A d \in todo : Order[c] <= Order[d]
       /\ gen[c] < MaxGen
       /\ gen' = [gen EXCEPT ![c] = @ + 1]
       /\ state' = [state EXCEPT ![<<c, gen[c] + 1>>] = "run"]
       /\ todo' = todo \ {c}
  /\ UNCHANGED <<mailbox, job, reply, started, sleepers, ticks, signals, journal, copy, mainVars>>

-----------------------------------------------------------------------------
(* main                                                                    *)

Running == at <= Len(Script) /\ ~failed

Doing(ops) == Running /\ Script[at].op \in ops

\* The next line of the script.
Advance == at' = at + 1 /\ step' = "ready" /\ ref' = Nobody

\* A call looks its child up and then sends.
Lookup ==
  /\ Doing(Calls) /\ step = "ready"
  /\ ref' = Current(IF Script[at].op = "start" THEN "timer" ELSE "calculator")
  /\ step' = "held"
  /\ UNCHANGED <<appVars, at, noted, failed>>

\* send() to a child that is gone is an error, with which main returns.
SendCall ==
  /\ Doing(Calls) /\ step = "held"
  /\ failed' = ~Accepts(ref)
  /\ LET m == Message(Script[at].op, IF Script[at].op = "start" THEN Nobody ELSE Main)
     IN  mailbox' = IF Accepts(ref) THEN [mailbox EXCEPT ![ref] = Append(@, m)] ELSE mailbox
  /\ IF Script[at].op = "start"
     THEN Advance /\ UNCHANGED reply
     ELSE reply' = [reply EXCEPT ![Main] = "wait"] /\ step' = "wait" /\ UNCHANGED <<at, ref>>
  /\ UNCHANGED <<gen, state, job, started, sleepers, ticks, signals, todo, journal, copy, noted>>

\* The reply.  main prints whatever a probe says; a dropped reply of another
\* call is an error, and the journal must hold the probe before it.
Receive ==
  /\ Doing(Calls) /\ step = "wait" /\ reply[Main] \in {"ok", "dropped"}
  /\ reply' = [reply EXCEPT ![Main] = "none"]
  /\ failed' = (/\ Script[at].op \notin Probe
                /\ \/ reply[Main] = "dropped"
                   \/ Script[at].op = "journal" /\ Script[at].finds \notin Range(copy))
  /\ Advance
  /\ UNCHANGED <<gen, state, mailbox, job, started, sleepers, ticks, signals, todo, journal, copy, noted>>

\* 300 ms: the timeouts have passed, the restarts are done, and of the rest
\* only a tick can still be under way.
Settles(i) ==
  /\ state[i] \notin {"stuck", "notify", "finish"}
  /\ job[i] # NoJob => i[1] = "timer" /\ ~Stuck(i)
  /\ \A k \in DOMAIN mailbox[i] : mailbox[i][k].op = "tick"
  /\ Superseded(i) /\ i \notin started => state[i] = "dead"

Quiet == signals = <<>> /\ todo = {} /\ \A i \in Inst : Settles(i)

Sleep ==
  /\ Doing({"sleep"}) /\ Quiet
  /\ Advance
  /\ UNCHANGED <<appVars, noted, failed>>

\* before_gen, and the assertion that the calculator was restarted since.
Note ==
  /\ Doing({"note"})
  /\ noted' = gen["calculator"]
  /\ Advance
  /\ UNCHANGED <<appVars, failed>>

Check ==
  /\ Doing({"check"})
  /\ failed' = (gen["calculator"] <= noted)
  /\ Advance
  /\ UNCHANGED <<appVars, noted>>

MainStep == Lookup \/ SendCall \/ Receive \/ Sleep \/ Note \/ Check

\* The steps that time alone does not withhold.
Progress == (\E i \in Inst : Actor(i)) \/ TakeSignal \/ RestartChild \/ MainStep

Next == Progress \/ \E g \in 1 .. MaxGen : Tick(g)

Spec == Init /\ [][Next]_vars

\* As long as some task can run, one of them is polled.
FairSpec == Spec /\ WF_vars(Progress)

-----------------------------------------------------------------------------
(* Properties                                                              *)

\* No call of main fails and every assertion of the program holds, however
\* the timeouts, the restarts and the ticks interleave.
MainNeverFails == ~failed

\* on_handle_stuck is at work for this probe and has not journaled it yet.
Unjournaled(op) ==
  \E i \in Inst : i[1] = "calculator" /\ state[i] = "stuck" /\ job[i].op = op

\* The caller of a probe is told that it was dropped before the journal has the
\* action (actor.rs:471, 481): a probe whose caller knows is in the journal or
\* on_handle_stuck still has it, never neither.  The journal holds nothing
\* else: what is in it was dropped, and no probe is ever answered.
DroppedIsJournaled ==
  \A k \in 1 .. Len(Script) :
    Script[k].op \in Probe =>
      /\ Script[k].op \in Range(journal) \/ Unjournaled(Script[k].op) <=>
           k < at \/ (k = at /\ step = "wait" /\ reply[Main] = "dropped")
      /\ ~(Script[k].op \in Range(journal) /\ Unjournaled(Script[k].op))
      /\ ~(k = at /\ step = "wait" /\ reply[Main] = "ok")

\* A timer that was started keeps exactly one tick under way, asleep, in its
\* mailbox or being handled, through every outcome of the query.
OneTickUnderWay ==
  \A i \in started :
    state[i] = "run" =>
      sleepers[i[2]] + Cardinality({k \in DOMAIN mailbox[i] : mailbox[i][k].op = "tick"})
        + Cardinality({i} \cap {j \in Inst : job[j] # NoJob}) = 1

\* Every wait is broken: main comes to its end.
MainFinishes == <>(at = Len(Script) + 1)


=============================================================================
