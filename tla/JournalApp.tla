----------------------------- MODULE JournalApp ------------------------------
(***************************************************************************)
(* examples/recoverable_timer_calc.rs: a supervised calculator that writes *)
(* every operation to a shared journal before and after it computes, and   *)
(* replays the journal when the supervisor starts it again; callers that   *)
(* share its CalcHandle; a timer that asks for a summary at every tick;    *)
(* and the shutdown at the end of main.                                    *)
(*                                                                         *)
(* An operation is a number, which also stands for its result; the ones in *)
(* Bad divide by zero.  main's sleeps are left out, so the callers may do  *)
(* anything at any time.  The runtime and the supervisor are used as       *)
(* ActorRuntime and Supervisor describe them (OneForOne, one slot); the    *)
(* restart limit of 10 is beyond MaxOps.                                   *)
(***************************************************************************)
EXTENDS Integers, Sequences, FiniteSets

CONSTANTS
  Clients,    \* tasks that call add(), div() and the like
  MaxOps,     \* bound on the operations
  MaxTicks,   \* bound on the ticks of the timer
  Timer,      \* the JournalTimer
  None        \* Option::None

ASSUME JournalAssumption ==
  /\ MaxOps \in Nat /\ MaxTicks \in Nat
  /\ Timer \notin Clients
  /\ None \notin Nat

Op == 1 .. MaxOps

Callers == Clients \cup {Timer}

\* Every division by zero costs an instance.
Inst == 1 .. MaxOps + 1

VARIABLES
  journal,    \* OpJournal: entry k is the operation with id k - 1
  slot,       \* ChildSlot: the instance that callers get
  state,      \* the life of each instance
  last,       \* RecoverableCalculator::last_result of each instance
  mailbox,    \* messages of each instance
  stopping,   \* instances with a Stop behind the messages of their mailbox
  job,        \* id + 1 of the entry that run_op will complete, or 0
  signals,    \* RestartSignals the supervisor has not taken
  issued,     \* operations asked for so far
  bad,        \* the ones among them that divide by zero
  call,       \* what each caller is doing
  answer,     \* how each operation ended for its caller
  shown,      \* the last JournalSummary that was answered
  ticks,      \* ticks so far
  ending      \* how far main's shutdown has come

calcVars == <<journal, slot, state, last, mailbox, stopping, job, signals>>

callVars == <<issued, bad, call, answer, ticks>>

vars == <<calcVars, callVars, shown, ending>>

\* OpStatus.
Entry == [op : Op, ok : BOOLEAN]

\* A message: the operation, or 0 for JournalSummary, and its caller.
Msg == [op : Op \cup {0}, from : Callers]

Call == [at : {"idle", "held", "wait"}, op : Op \cup {0}, ref : Inst]

TypeOK ==
  /\ journal \in Seq(Entry)
  /\ slot \in Inst
  /\ state \in [Inst -> {"unborn", "starting", "run", "notify", "finish", "dead"}]
  /\ last \in [Inst -> Op \cup {None}]
  /\ mailbox \in [Inst -> Seq(Msg)]
  /\ stopping \subseteq Inst
  /\ job \in [Inst -> Nat]
  /\ signals \in Seq(Inst)
  /\ issued \in 0 .. MaxOps
  /\ bad \subseteq Op
  /\ call \in [Callers -> Call]
  /\ answer \in [Op -> {"none", "ok", "dropped", "unsent"}]
  /\ shown \in [last : Op \cup {None}, ok : Nat, pending : Nat]
  /\ ticks \in 0 .. MaxTicks
  /\ ending \in {"no", "timer", "last", "calc", "done", "failed"}

\* CalcHandle::start and the start of the timer.
Init ==
  /\ journal = <<>>
  /\ slot = 1
  /\ state = [i \in Inst |-> IF i = 1 THEN "starting" ELSE "unborn"]
  /\ last = [i \in Inst |-> None]
  /\ mailbox = [i \in Inst |-> <<>>]
  /\ stopping = {}
  /\ job = [i \in Inst |-> 0]
  /\ signals = <<>>
  /\ issued = 0 /\ bad = {}
  /\ call = [c \in Callers |-> [at |-> "idle", op |-> 0, ref |-> 1]]
  /\ answer = [n \in Op |-> "none"]
  /\ shown = [last |-> None, ok |-> 0, pending |-> 0]
  /\ ticks = 0
  /\ ending = "no"

-----------------------------------------------------------------------------
(* The journal                                                             *)

start_op(n) == journal' = Append(journal, [op |-> n, ok |-> FALSE])

complete_op(k) == journal' = [journal EXCEPT ![k].ok = TRUE]

Completed(j) == {k \in DOMAIN j : j[k].ok}

Pending(j) == {k \in DOMAIN j : ~j[k].ok}

\* The loop over the sorted ids: it ends with the last completed one.
Latest(j, k) == k \in Completed(j) /\ \A l \in Completed(j) : l <= k

replay_last_result(j) ==
  IF \E k \in DOMAIN j : Latest(j, k) THEN j[CHOOSE k \in DOMAIN j : Latest(j, k)].op ELSE None

-----------------------------------------------------------------------------
(* The calculator                                                          *)

\* Mutant: a restarted calculator starts from scratch.
PreStart_no_replay(i) ==
  /\ state[i] = "starting"
  /\ state' = [state EXCEPT ![i] = "run"]
  /\ UNCHANGED <<journal, slot, last, mailbox, stopping, job, signals, callVars, shown, ending>>

\* pre_start: replay_journal.
PreStart(i) ==
  /\ state[i] = "starting"
  /\ last' = [last EXCEPT ![i] = replay_last_result(journal)]
  /\ state' = [state EXCEPT ![i] = "run"]
  /\ UNCHANGED <<journal, slot, mailbox, stopping, job, signals, callVars, shown, ending>>

Idle(i) == state[i] = "run" /\ job[i] = 0

Takes(i) == Idle(i) /\ mailbox[i] # <<>>

\* The caller hears how its message ended.
Answered(m, how) ==
  /\ call' = [call EXCEPT ![m.from].at = "idle"]
  /\ answer' = IF m.op = 0 THEN answer ELSE [answer EXCEPT ![m.op] = how]

\* run_op up to the lock that complete_op needs.
RunOp(i) ==
  LET m == Head(mailbox[i]) IN
  /\ Takes(i) /\ m.op # 0 /\ m.op \notin bad
  /\ start_op(m.op)
  /\ job' = [job EXCEPT ![i] = Len(journal) + 1]
  /\ UNCHANGED <<slot, state, last, mailbox, stopping, signals, callVars, shown, ending>>

\* Mutant: the result is acknowledged but not written down.
Complete_unsaved(i) ==
  LET m == Head(mailbox[i]) IN
  /\ state[i] = "run" /\ job[i] # 0
  /\ last' = [last EXCEPT ![i] = m.op]
  /\ mailbox' = [mailbox EXCEPT ![i] = Tail(@)]
  /\ job' = [job EXCEPT ![i] = 0]
  /\ Answered(m, "ok")
  /\ UNCHANGED <<journal, slot, state, stopping, signals, issued, bad, ticks, shown, ending>>

\* The rest of run_op: nothing between complete_op and the reply awaits or can
\* panic, so the task cannot be lost between the two.
Complete(i) ==
  LET m == Head(mailbox[i]) IN
  /\ state[i] = "run" /\ job[i] # 0
  /\ complete_op(job[i])
  /\ last' = [last EXCEPT ![i] = m.op]
  /\ mailbox' = [mailbox EXCEPT ![i] = Tail(@)]
  /\ job' = [job EXCEPT ![i] = 0]
  /\ Answered(m, "ok")
  /\ UNCHANGED <<slot, state, stopping, signals, issued, bad, ticks, shown, ending>>

\* Mutant: run_op computes before it writes the operation down.
Panic_before_start(i) ==
  LET m == Head(mailbox[i]) IN
  /\ Takes(i) /\ m.op \in bad
  /\ mailbox' = [mailbox EXCEPT ![i] = Tail(@)]
  /\ state' = [state EXCEPT ![i] = "notify"]
  /\ Answered(m, "dropped")
  /\ UNCHANGED <<journal, slot, last, stopping, job, signals, issued, bad, ticks, shown, ending>>

\* compute panics on a division by zero: the reply is dropped with run_op.
Panic(i) ==
  LET m == Head(mailbox[i]) IN
  /\ Takes(i) /\ m.op \in bad
  /\ start_op(m.op)
  /\ mailbox' = [mailbox EXCEPT ![i] = Tail(@)]
  /\ state' = [state EXCEPT ![i] = "notify"]
  /\ Answered(m, "dropped")
  /\ UNCHANGED <<slot, last, stopping, job, signals, issued, bad, ticks, shown, ending>>

\* JournalSummary, with OpJournal::counts.
Summary(i) ==
  LET m == Head(mailbox[i]) IN
  /\ Takes(i) /\ m.op = 0
  /\ shown' = [last |-> last[i], ok |-> Cardinality(Completed(journal)),
               pending |-> Cardinality(Pending(journal))]
  /\ mailbox' = [mailbox EXCEPT ![i] = Tail(@)]
  /\ Answered(m, "ok")
  /\ UNCHANGED <<journal, slot, state, last, stopping, job, signals, issued, bad, ticks, ending>>

Notify(i) ==
  /\ state[i] = "notify"
  /\ signals' = Append(signals, i)
  /\ state' = [state EXCEPT ![i] = "finish"]
  /\ UNCHANGED <<journal, slot, last, mailbox, stopping, job, callVars, shown, ending>>

TakeStop(i) ==
  /\ Idle(i) /\ mailbox[i] = <<>> /\ i \in stopping
  /\ state' = [state EXCEPT ![i] = "finish"]
  /\ UNCHANGED <<journal, slot, last, mailbox, stopping, job, signals, callVars, shown, ending>>

\* The task ends, and the replies of what is left in the mailbox with it.
Left(i, c) == \E k \in DOMAIN mailbox[i] : mailbox[i][k].from = c

LeftOp(i, n) == \E k \in DOMAIN mailbox[i] : mailbox[i][k].op = n

\* Mutant: the replies of queued messages outlive the task.
Finish_keeps(i) ==
  /\ state[i] = "finish"
  /\ state' = [state EXCEPT ![i] = "dead"]
  /\ UNCHANGED <<journal, slot, last, mailbox, stopping, job, signals, callVars, shown, ending>>

Finish(i) ==
  /\ state[i] = "finish"
  /\ state' = [state EXCEPT ![i] = "dead"]
  /\ mailbox' = [mailbox EXCEPT ![i] = <<>>]
  /\ call' = [c \in Callers |-> IF Left(i, c) THEN [call[c] EXCEPT !.at = "idle"] ELSE call[c]]
  /\ answer' = [n \in Op |-> IF LeftOp(i, n) THEN "dropped" ELSE answer[n]]
  /\ UNCHANGED <<journal, slot, last, stopping, job, signals, issued, bad, ticks, shown, ending>>

Calculator(i) ==
  \/ PreStart(i) \/ RunOp(i) \/ Complete(i) \/ Panic(i) \/ Summary(i)
  \/ Notify(i) \/ TakeStop(i) \/ Finish(i)

\* The supervisor: the factory of ChildSlot::child_spec starts an instance
\* and puts it into the slot. The lock of the slot is taken after the spawn;
\* until then nobody has a ref of the new instance, which only replays, and a
\* caller that is handed the old ref might as well have asked before: one step.
RestartChild ==
  /\ signals # <<>> /\ Head(signals) = slot /\ slot + 1 \in Inst
  /\ signals' = Tail(signals)
  /\ slot' = slot + 1
  /\ state' = [state EXCEPT ![slot + 1] = "starting"]
  /\ UNCHANGED <<journal, last, mailbox, stopping, job, callVars, shown, ending>>

-----------------------------------------------------------------------------
(* The callers                                                             *)

\* request(): handle.actor(), before the send.
Request(c) ==
  /\ ending = "no" /\ c \in Clients /\ call[c].at = "idle" /\ issued < MaxOps
  /\ issued' = issued + 1
  /\ bad' \in {bad, bad \cup {issued + 1}}
  /\ call' = [call EXCEPT ![c] = [at |-> "held", op |-> issued + 1, ref |-> slot]]
  /\ UNCHANGED <<calcVars, answer, ticks, shown, ending>>

\* A tick reaches the timer, which calls query_summary.  One may be ahead of
\* the Stop in its mailbox; the one scheduled after that comes too late.
Tick ==
  /\ ending \in {"no", "timer"} /\ call[Timer].at = "idle" /\ ticks < MaxTicks
  /\ ticks' = ticks + 1
  /\ call' = [call EXCEPT ![Timer] = [at |-> "held", op |-> 0, ref |-> slot]]
  /\ ending' = IF ending = "timer" THEN "last" ELSE ending
  /\ UNCHANGED <<calcVars, issued, bad, answer, shown>>

Open(i) == state[i] \in {"starting", "run", "notify", "finish"}

SendRequest(c) ==
  /\ call[c].at = "held" /\ Open(call[c].ref)
  /\ mailbox' = [mailbox EXCEPT ![call[c].ref] = Append(@, [op |-> call[c].op, from |-> c])]
  /\ call' = [call EXCEPT ![c].at = "wait"]
  /\ UNCHANGED <<journal, slot, state, last, stopping, job, signals, issued, bad, answer, ticks, shown, ending>>

\* The instance behind the ref is gone: send() fails.
SendFails(c) ==
  /\ call[c].at = "held" /\ ~Open(call[c].ref)
  /\ Answered([op |-> call[c].op, from |-> c], "unsent")
  /\ UNCHANGED <<calcVars, issued, bad, ticks, shown, ending>>

\* main: timer.stop() and timer_join; the timer ends between two ticks.
StopTimer ==
  /\ ending = "no" /\ \A c \in Clients : call[c].at = "idle"
  /\ ending' = "timer"
  /\ UNCHANGED <<calcVars, callVars, shown>>

TimerJoined ==
  /\ ending \in {"timer", "last"} /\ call[Timer].at = "idle"
  /\ ending' = "calc"
  /\ UNCHANGED <<calcVars, callVars, shown>>

\* actor.stop(): an error when the calculator in the slot has crashed.
StopCalc ==
  /\ ending = "calc"
  /\ IF Open(slot)
     THEN stopping' = stopping \cup {slot} /\ ending' = "done"
     ELSE ending' = "failed" /\ UNCHANGED stopping
  /\ UNCHANGED <<journal, slot, state, last, mailbox, job, signals, callVars, shown>>

Caller(c) == Request(c) \/ SendRequest(c) \/ SendFails(c)

Next ==
  \/ \E i \in Inst : Calculator(i)
  \/ RestartChild
  \/ \E c \in Callers : Caller(c)
  \/ Tick \/ StopTimer \/ TimerJoined \/ StopCalc

Spec == Init /\ [][Next]_vars

\* Every task that can run is polled; nobody has to ask or to stop.
FairSpec ==
  /\ Spec
  /\ WF_vars(\E i \in Inst : Calculator(i))
  /\ WF_vars(RestartChild)
  /\ WF_vars(\E c \in Callers : SendRequest(c) \/ SendFails(c))

-----------------------------------------------------------------------------
(* Properties                                                              *)

\* Across restarts no operation is written down twice, and a caller is told Ok
\* exactly for the operations the journal completed: no acknowledged result is
\* lost, and none that was reported as crashed or unsent will be replayed.
\* (examples/recoverable_timer_calc.md:354 leaves open a panic between
\* complete_op and the reply; the code has no panic to offer there.)
AnswerMatchesJournal ==
  /\ \A k, l \in DOMAIN journal : journal[k].op = journal[l].op => k = l
  /\ \A n \in Op : answer[n] = "ok" <=> \E k \in Completed(journal) : journal[k].op = n

\* Every crash leaves one interrupted entry and costs one instance: beside
\* the entry at work, the last one, what is pending is a division by zero whose
\* caller was told, and there are as many as restarts done, signalled or about
\* to be.
CrashesMatchJournal ==
  /\ \A k \in Pending(journal) :
       \/ journal[k].op \in bad /\ answer[journal[k].op] = "dropped"
       \/ k = Len(journal) /\ \E i \in Inst : job[i] = k
  /\ Cardinality(Pending(journal)) =
       (slot - 1) + Len(signals) + Cardinality({i \in Inst : state[i] = "notify" \/ job[i] # 0})

\* The calculator is a register that survives its crashes.
Register == INSTANCE RecoverableRegister WITH
  Values <- Op,
  None   <- None,
  value  <- replay_last_result(journal),
  up     <- \E i \in Inst : state[i] = "run",
  seen   <- shown.last

RegisterSpec == Register!Spec

\* Every request ends, whatever becomes of the calculator meanwhile.
RequestsEnd == \A c \in Callers : call[c].at # "idle" ~> call[c].at = "idle"

=============================================================================
