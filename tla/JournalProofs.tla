---------------------------- MODULE JournalProofs ----------------------------
(***************************************************************************)
(* JournalApp implements RecoverableRegister, and its callers hear what    *)
(* the journal says, for every number of callers, operations and ticks.    *)
(***************************************************************************)
EXTENDS JournalApp, FiniteSetTheorems, TLAPS

\* One instance at a time is alive for the journal, its open entry is the
\* last one, and what it remembers is what a replay would yield.
Serial ==
  /\ \A i \in Inst : state[i] \in {"starting", "run", "notify"} => i = slot
  /\ \A k \in 1 .. Len(signals) : state[signals[k]] \in {"finish", "dead"}
  /\ \A i \in Inst : i > slot => state[i] = "unborn"

OpenEntry ==
  \A i \in Inst : job[i] # 0 =>
    /\ state[i] = "run" /\ mailbox[i] # <<>>
    /\ job[i] = Len(journal) /\ Len(journal) > 0
    /\ journal[Len(journal)].op = Head(mailbox[i]).op
    /\ Head(mailbox[i]).op # 0
    /\ ~journal[Len(journal)].ok

Remembers == \A i \in Inst : state[i] = "run" => last[i] = replay_last_result(journal)

IInv == TypeOK /\ Serial /\ OpenEntry /\ Remembers

-----------------------------------------------------------------------------
(* The journal's operators                                                 *)

\* An entry that was only started does not change what a replay yields.
LEMMA ReplayStarted ==
  ASSUME NEW j \in Seq(Entry), NEW n \in Op
  PROVE  replay_last_result(Append(j, [op |-> n, ok |-> FALSE])) = replay_last_result(j)
<1> DEFINE e == [op |-> n, ok |-> FALSE]
           jj == Append(j, e)
<1>1. \A k \in DOMAIN j : k \in DOMAIN jj /\ jj[k] = j[k]
  BY DEF Entry
<1>2. DOMAIN jj = DOMAIN j \cup {Len(j) + 1} /\ jj[Len(j) + 1] = e
  BY DEF Entry
<1> HIDE DEF jj
<1>3. Completed(jj) = Completed(j)
  BY <1>1, <1>2 DEF Completed
<1>4. \A k : k \in DOMAIN jj /\ Latest(jj, k) <=> k \in DOMAIN j /\ Latest(j, k)
  BY <1>1, <1>3, Zenon DEF Latest, Completed
<1>5. \A k, l \in DOMAIN j : Latest(j, k) /\ Latest(j, l) => k = l
  BY DEF Latest, Completed
<1>6. CASE \E k \in DOMAIN j : Latest(j, k)
  <2> DEFINE top == CHOOSE k \in DOMAIN j : Latest(j, k)
  <2>1. top \in DOMAIN j
    BY <1>6, Zenon
  <2> DEFINE topp == CHOOSE k \in DOMAIN jj : Latest(jj, k)
  <2>2. top = topp
    <3>1. topp \in DOMAIN jj /\ Latest(jj, topp)
      BY <1>4, <1>6, Zenon
    <3>2. Latest(j, top)
      BY <1>6, Zenon
    <3> QED BY <3>1, <3>2, <2>1, <1>4, <1>5, Zenon
  <2>3. jj[top].op = j[top].op
    BY <1>1, <2>1
  <2> HIDE DEF top
  <2>4. replay_last_result(jj) = jj[top].op
    BY <1>6, <1>4, <2>2, Zenon DEF replay_last_result
  <2>5. replay_last_result(j) = j[top].op
    BY <1>6, Zenon DEF replay_last_result, top
  <2> QED BY <2>3, <2>4, <2>5 DEF jj
<1>7. CASE ~ \E k \in DOMAIN j : Latest(j, k)
  BY <1>7, <1>4, Zenon DEF replay_last_result, jj
<1> QED BY <1>6, <1>7

\* Completing the last entry makes its result the one a replay yields.
LEMMA ReplayCompleted ==
  ASSUME NEW j \in Seq(Entry), Len(j) > 0
  PROVE  /\ [j EXCEPT ![Len(j)].ok = TRUE] \in Seq(Entry)
         /\ Len([j EXCEPT ![Len(j)].ok = TRUE]) = Len(j)
         /\ \A k \in DOMAIN j : [j EXCEPT ![Len(j)].ok = TRUE][k].op = j[k].op
         /\ replay_last_result([j EXCEPT ![Len(j)].ok = TRUE]) = j[Len(j)].op
<1> DEFINE n == Len(j)
           jj == [j EXCEPT ![n].ok = TRUE]
<1>1. /\ n \in Nat /\ n > 0 /\ DOMAIN j = 1 .. n /\ j \in [1 .. n -> Entry]
  OBVIOUS
<1> HIDE DEF n
<1>2. jj \in [1 .. n -> Entry]
  BY <1>1 DEF Entry
<1>3. jj \in Seq(Entry) /\ Len(jj) = n /\ DOMAIN jj = 1 .. n
  BY <1>1, <1>2
<1>4. jj[n].ok = TRUE /\ \A k \in 1 .. n : jj[k].op = j[k].op
  BY <1>1 DEF Entry
<1> HIDE DEF jj
<1>5. n \in Completed(jj) /\ \A l \in Completed(jj) : l \in 1 .. n
  BY <1>1, <1>3, <1>4 DEF Completed
<1>6. \A k \in DOMAIN jj : Latest(jj, k) <=> k = n
  BY <1>1, <1>3, <1>5 DEF Latest
<1>7. (CHOOSE k \in DOMAIN jj : Latest(jj, k)) = n
  BY <1>6, <1>3, <1>1
<1>8. \E k \in DOMAIN jj : Latest(jj, k)
  <2>1. n \in DOMAIN jj
    BY <1>3, <1>1
  <2>2. Latest(jj, n)
    BY <2>1, <1>6, Zenon
  <2> QED BY <2>1, <2>2, Zenon
<1>9. replay_last_result(jj) = jj[n].op
  BY <1>7, <1>8 DEF replay_last_result
<1> QED BY <1>1, <1>3, <1>4, <1>9 DEF jj, n

-----------------------------------------------------------------------------
(* The invariant                                                           *)

LEMMA InstFacts == Inst \subseteq Nat /\ 1 \in Inst /\ Op \subseteq Nat
BY JournalAssumption DEF Inst, Op

LEMMA OpFacts == \A n \in Op : n \in Nat /\ n # 0
BY JournalAssumption DEF Op

LEMMA InitInv == Init => IInv
<1> SUFFICES ASSUME Init PROVE IInv
  OBVIOUS
<1> USE InstFacts, JournalAssumption
<1>1. TypeOK
  BY DEF Init, TypeOK, Call, Callers, Entry
<1>2. Serial
  BY DEF Init, Serial
<1>3. OpenEntry
  BY DEF Init, OpenEntry
<1>4. Remembers
  BY DEF Init, Remembers
<1> QED BY <1>1, <1>2, <1>3, <1>4 DEF IInv

\* What a replay, a waiting message and the counts can be.
LEMMA ReplayType == TypeOK => replay_last_result(journal) \in Op \cup {None}
<1> SUFFICES ASSUME TypeOK PROVE replay_last_result(journal) \in Op \cup {None}
  OBVIOUS
<1>1. \A k \in DOMAIN journal : journal[k].op \in Op
  <2>1. \A k \in DOMAIN journal : journal[k] \in Entry
    BY DEF TypeOK
  <2> QED BY <2>1 DEF Entry
<1>2. CASE \E k \in DOMAIN journal : Latest(journal, k)
  <2> DEFINE top == CHOOSE k \in DOMAIN journal : Latest(journal, k)
  <2>1. top \in DOMAIN journal
    BY <1>2, Zenon
  <2>2. replay_last_result(journal) = journal[top].op
    BY <1>2, Zenon DEF replay_last_result
  <2> QED BY <2>1, <2>2, <1>1
<1>3. CASE ~ \E k \in DOMAIN journal : Latest(journal, k)
  BY <1>3, Zenon DEF replay_last_result
<1> QED BY <1>2, <1>3

LEMMA SetAtType ==
  ASSUME NEW r \in Call, NEW a \in {"idle", "held", "wait"}
  PROVE  [r EXCEPT !.at = a] \in Call
BY DEF Call

LEMMA CallType ==
  ASSUME TypeOK, NEW c, NEW a \in {"idle", "held", "wait"}
  PROVE  [call EXCEPT ![c].at = a] \in [Callers -> Call]
<1>1. \A d \in Callers : [call[d] EXCEPT !.at = a] \in Call
  BY DEF TypeOK, Call
<1>2. [call EXCEPT ![c].at = a] = [d \in Callers |-> IF d = c THEN [call[d] EXCEPT !.at = a] ELSE call[d]]
  BY DEF TypeOK
<1> QED BY <1>1, <1>2 DEF TypeOK

LEMMA AnswerType ==
  ASSUME TypeOK, NEW m, NEW how \in {"ok", "dropped", "unsent"}, Answered(m, how)
  PROVE  call' \in [Callers -> Call] /\ answer' \in [Op -> {"none", "ok", "dropped", "unsent"}]
<1>1. call' \in [Callers -> Call]
  BY CallType DEF Answered
<1>2. answer' \in [Op -> {"none", "ok", "dropped", "unsent"}]
  BY DEF Answered, TypeOK
<1> QED BY <1>1, <1>2

LEMMA HeadType ==
  ASSUME TypeOK, NEW i \in Inst, mailbox[i] # <<>>, Head(mailbox[i]).op # 0 \/ Head(mailbox[i]).op \in bad
  PROVE  Head(mailbox[i]).op \in Op
<1>1. Head(mailbox[i]) \in Msg
  BY DEF TypeOK
<1> QED BY <1>1, InstFacts DEF TypeOK, Msg

LEMMA CountType ==
  TypeOK => Cardinality(Completed(journal)) \in Nat /\ Cardinality(Pending(journal)) \in Nat
<1> SUFFICES ASSUME TypeOK
             PROVE  Cardinality(Completed(journal)) \in Nat /\ Cardinality(Pending(journal)) \in Nat
  OBVIOUS
<1>1. DOMAIN journal = 1 .. Len(journal) /\ Len(journal) \in Nat
  BY DEF TypeOK
<1>2. IsFiniteSet(1 .. Len(journal))
  BY <1>1, FS_Interval
<1>3. Completed(journal) \subseteq 1 .. Len(journal) /\ Pending(journal) \subseteq 1 .. Len(journal)
  BY <1>1 DEF Completed, Pending
<1> QED BY <1>2, <1>3, FS_Subset, FS_CardinalityType

\* Every action keeps the types.
LEMMA TypeStep == IInv /\ [Next]_vars => TypeOK'
<1> SUFFICES ASSUME IInv, [Next]_vars PROVE TypeOK'
  OBVIOUS
<1>0. TypeOK /\ OpenEntry
  BY DEF IInv
<1> USE <1>0, InstFacts, JournalAssumption DEF TypeOK
<1>1. ASSUME NEW i \in Inst, PreStart(i) PROVE TypeOK'
  <2>1. replay_last_result(journal) \in Op \cup {None}
    BY ReplayType
  <2> QED BY <1>1, <2>1 DEF PreStart, callVars
<1>2. ASSUME NEW i \in Inst, RunOp(i) PROVE TypeOK'
  <2>1. Head(mailbox[i]).op \in Op
    BY <1>2, HeadType DEF RunOp, Takes, Idle
  <2>2. [op |-> Head(mailbox[i]).op, ok |-> FALSE] \in Entry
    BY <2>1 DEF Entry
  <2>3. journal' \in Seq(Entry)
    BY <1>2, <2>2 DEF RunOp, start_op
  <2>4. job' \in [Inst -> Nat]
    BY <1>2 DEF RunOp
  <2> QED BY <1>2, <2>3, <2>4 DEF RunOp, callVars
<1>3. ASSUME NEW i \in Inst, Complete(i) PROVE TypeOK'
  <2>1. mailbox[i] # <<>> /\ Len(journal) > 0 /\ job[i] = Len(journal) /\ Head(mailbox[i]).op \in Op
    BY <1>3, HeadType DEF Complete, OpenEntry
  <2>2. journal' \in Seq(Entry)
    BY <1>3, <2>1, ReplayCompleted DEF Complete, complete_op
  <2>3. call' \in [Callers -> Call] /\ answer' \in [Op -> {"none", "ok", "dropped", "unsent"}]
    BY <1>3, AnswerType DEF Complete
  <2>4. mailbox' \in [Inst -> Seq(Msg)]
    BY <1>3, <2>1 DEF Complete
  <2> QED BY <1>3, <2>1, <2>2, <2>3, <2>4 DEF Complete
<1>4. ASSUME NEW i \in Inst, Panic(i) PROVE TypeOK'
  <2>1. mailbox[i] # <<>> /\ Head(mailbox[i]).op \in Op
    BY <1>4, HeadType DEF Panic, Takes, Idle
  <2>2. [op |-> Head(mailbox[i]).op, ok |-> FALSE] \in Entry
    BY <2>1 DEF Entry
  <2>3. journal' \in Seq(Entry)
    BY <1>4, <2>2 DEF Panic, start_op
  <2>4. call' \in [Callers -> Call] /\ answer' \in [Op -> {"none", "ok", "dropped", "unsent"}]
    BY <1>4, AnswerType DEF Panic
  <2>5. mailbox' \in [Inst -> Seq(Msg)]
    BY <1>4, <2>1 DEF Panic
  <2> QED BY <1>4, <2>3, <2>4, <2>5 DEF Panic
<1>5. ASSUME NEW i \in Inst, Summary(i) PROVE TypeOK'
  <2>1. mailbox[i] # <<>>
    BY <1>5 DEF Summary, Takes
  <2>2. call' \in [Callers -> Call] /\ answer' \in [Op -> {"none", "ok", "dropped", "unsent"}]
    BY <1>5, AnswerType DEF Summary
  <2>3. mailbox' \in [Inst -> Seq(Msg)]
    BY <1>5, <2>1 DEF Summary
  <2>4. Cardinality(Completed(journal)) \in Nat /\ Cardinality(Pending(journal)) \in Nat
    BY CountType
  <2>5. shown' \in [last : Op \cup {None}, ok : Nat, pending : Nat]
    BY <1>5, <2>4 DEF Summary
  <2> QED BY <1>5, <2>2, <2>3, <2>5 DEF Summary
<1>6. ASSUME NEW i \in Inst, Notify(i) PROVE TypeOK'
  <2>1. signals' \in Seq(Inst)
    BY <1>6 DEF Notify
  <2>2. state' \in [Inst -> {"unborn", "starting", "run", "notify", "finish", "dead"}]
    BY <1>6 DEF Notify
  <2> QED BY <1>6, <2>1, <2>2 DEF Notify, callVars
<1>7. ASSUME NEW i \in Inst, TakeStop(i) PROVE TypeOK'
  BY <1>7 DEF TakeStop, callVars
<1>8. ASSUME NEW i \in Inst, Finish(i) PROVE TypeOK'
  <2>1. \A c \in Callers : call[c] \in Call /\ [call[c] EXCEPT !.at = "idle"] \in Call
    BY SetAtType
  <2>2. call' \in [Callers -> Call]
    BY <1>8, <2>1 DEF Finish
  <2> QED BY <1>8, <2>2, SMTT(30) DEF Finish
<1>9. ASSUME RestartChild PROVE TypeOK'
  <2>1. slot' \in Inst /\ signals' \in Seq(Inst)
    BY <1>9 DEF RestartChild
  <2>2. state' \in [Inst -> {"unborn", "starting", "run", "notify", "finish", "dead"}]
    BY <1>9 DEF RestartChild
  <2> QED BY <1>9, <2>1, <2>2 DEF RestartChild, callVars
<1>10. ASSUME NEW c \in Callers, Request(c) PROVE TypeOK'
  <2>1. issued' \in 0 .. MaxOps /\ issued + 1 \in Op /\ bad' \subseteq Op
    BY <1>10 DEF Request, Op
  <2>2. call' \in [Callers -> Call]
    BY <1>10, <2>1 DEF Request, Call
  <2> QED BY <1>10, <2>1, <2>2 DEF Request, calcVars
<1>11. ASSUME Tick PROVE TypeOK'
  <2>1. call' \in [Callers -> Call]
    BY <1>11 DEF Tick, Call, Callers
  <2> QED BY <1>11, <2>1 DEF Tick, calcVars
<1>12. ASSUME NEW c \in Callers, SendRequest(c) PROVE TypeOK'
  <2>1. call[c].ref \in Inst /\ call[c].op \in Op \cup {0}
    BY DEF Call
  <2>2. [op |-> call[c].op, from |-> c] \in Msg
    BY <2>1 DEF Msg
  <2>3. mailbox' \in [Inst -> Seq(Msg)]
    BY <1>12, <2>1, <2>2, SMTT(30) DEF SendRequest
  <2>4. call' \in [Callers -> Call]
    BY <1>12, CallType DEF SendRequest
  <2> QED BY <1>12, <2>3, <2>4 DEF SendRequest
<1>13. ASSUME NEW c \in Callers, SendFails(c) PROVE TypeOK'
  <2>1. call' \in [Callers -> Call] /\ answer' \in [Op -> {"none", "ok", "dropped", "unsent"}]
    BY <1>13, AnswerType DEF SendFails
  <2> QED BY <1>13, <2>1 DEF SendFails, calcVars
<1>14. ASSUME StopTimer \/ TimerJoined \/ StopCalc PROVE TypeOK'
  BY <1>14 DEF StopTimer, TimerJoined, StopCalc, calcVars, callVars
<1>15. CASE UNCHANGED vars
  BY <1>15 DEF vars, calcVars, callVars
<1> HIDE <1>0 DEF TypeOK
<1> QED
  BY <1>1, <1>2, <1>3, <1>4, <1>5, <1>6, <1>7, <1>8, <1>9, <1>10, <1>11, <1>12, <1>13, <1>14, <1>15
     DEF Next, Calculator, Caller

\* A successor is spawned only after its predecessor has left run_op.
LEMMA SerialStep == IInv /\ [Next]_vars => Serial'
<1> SUFFICES ASSUME TypeOK, Serial, [Next]_vars PROVE Serial'
  BY DEF IInv
<1> USE InstFacts DEF TypeOK, Serial
<1>1. ASSUME UNCHANGED <<state, slot, signals>> PROVE Serial'
  BY <1>1
<1>2. ASSUME NEW i \in Inst, NEW s \in {"run", "notify", "finish", "dead"},
             state[i] \in {"starting", "run", "notify", "finish"},
             state[i] = "finish" => s = "dead",
             state[i] = "notify" => s = "finish",
             state' = [state EXCEPT ![i] = s], UNCHANGED <<slot, signals>>
      PROVE  Serial'
  BY <1>2, SMTT(30)
<1>3. ASSUME NEW i \in Inst, Notify(i) PROVE Serial'
  <2>1. \A k \in 1 .. Len(signals) : signals[k] \in Inst /\ signals'[k] = signals[k]
    BY <1>3 DEF Notify
  <2>2. Len(signals') = Len(signals) + 1 /\ signals'[Len(signals) + 1] = i /\ Len(signals) \in Nat
    BY <1>3 DEF Notify
  <2>3. state'[i] = "finish" /\ \A j \in Inst : j # i => state'[j] = state[j]
    BY <1>3 DEF Notify
  <2>4. ASSUME NEW k \in 1 .. Len(signals') PROVE state'[signals'[k]] \in {"finish", "dead"}
    <3>1. CASE k = Len(signals) + 1
      BY <3>1, <2>2, <2>3
    <3>2. CASE k # Len(signals) + 1
      <4>1. k \in 1 .. Len(signals)
        BY <3>2, <2>2
      <4>2. state[signals[k]] \in {"finish", "dead"} /\ signals[k] \in Inst
        BY <4>1, <2>1
      <4> QED BY <4>1, <4>2, <2>1, <2>3, ZenonT(30)
    <3> QED BY <3>1, <3>2
  <2>5. \A j \in Inst : state'[j] \in {"starting", "run", "notify"} => j = slot'
    BY <1>3, <2>3 DEF Notify
  <2>6. \A j \in Inst : j > slot' => state'[j] = "unborn"
    BY <1>3, <2>3 DEF Notify
  <2> QED BY <2>4, <2>5, <2>6
<1>4. ASSUME RestartChild PROVE Serial'
  <2>1. Len(signals) > 0 /\ Len(signals) \in Nat /\ slot = signals[1] /\ slot + 1 \in Inst
    BY <1>4 DEF RestartChild
  <2>2. \A j \in Inst : state[j] \notin {"starting", "run", "notify"}
    <3>1. 1 \in 1 .. Len(signals)
      BY <2>1
    <3>2. state[slot] \in {"finish", "dead"}
      BY <2>1, <3>1
    <3> QED BY <3>2
  <2>3. state'[slot + 1] = "starting" /\ \A j \in Inst : j # slot + 1 => state'[j] = state[j]
    BY <1>4, <2>1 DEF RestartChild
  <2>4. Len(signals') = Len(signals) - 1 /\ \A k \in 1 .. Len(signals') : signals'[k] = signals[k + 1]
    BY <1>4, <2>1 DEF RestartChild
  <2>5. ASSUME NEW k \in 1 .. Len(signals') PROVE state'[signals'[k]] \in {"finish", "dead"}
    <3>1. state[slot + 1] = "unborn"
      BY <2>1
    <3>2. k + 1 \in 1 .. Len(signals)
      BY <2>1, <2>4
    <3>3. state[signals[k + 1]] \in {"finish", "dead"} /\ signals[k + 1] \in Inst
      BY <3>2
    <3> QED BY <2>3, <2>4, <3>1, <3>3
  <2>6. \A j \in Inst : j > slot' => state'[j] = "unborn"
    BY <1>4, <2>3 DEF RestartChild
  <2> QED BY <1>4, <2>2, <2>3, <2>5, <2>6, SMTT(30) DEF RestartChild
<1> HIDE DEF TypeOK, Serial
<1>5. ASSUME NEW i \in Inst, Calculator(i) PROVE Serial'
  BY <1>5, <1>1, <1>2, <1>3 DEF Calculator, PreStart, RunOp, Complete, Panic, Summary, TakeStop, Finish,
     Takes, Idle
<1>6. ASSUME NEW c \in Callers, Caller(c) PROVE Serial'
  BY <1>6, <1>1 DEF Caller, Request, SendRequest, SendFails, calcVars
<1>7. ASSUME Tick \/ StopTimer \/ TimerJoined \/ StopCalc \/ UNCHANGED vars PROVE Serial'
  BY <1>7, <1>1 DEF Tick, StopTimer, TimerJoined, StopCalc, calcVars, vars
<1> QED BY <1>4, <1>5, <1>6, <1>7 DEF Next

\* At most the last entry is open, and it is the message being handled.
LEMMA OpenEntryStep == IInv /\ [Next]_vars => OpenEntry'
<1> SUFFICES ASSUME TypeOK, Serial, OpenEntry, [Next]_vars PROVE OpenEntry'
  BY DEF IInv
<1> USE InstFacts
<1>0. Len(journal) \in Nat
  BY DEF TypeOK
\* Steps that touch neither the journal nor what an instance at work has.
<1>1. ASSUME UNCHANGED <<journal, job>>,
             \A i \in Inst : job[i] # 0 => state'[i] = state[i] /\ mailbox'[i] = mailbox[i]
      PROVE  OpenEntry'
  BY <1>1 DEF OpenEntry
<1>2. ASSUME NEW i \in Inst, RunOp(i) PROVE OpenEntry'
  <2>1. state[i] = "run" /\ mailbox[i] # <<>> /\ Head(mailbox[i]).op # 0
    BY <1>2 DEF RunOp, Takes, Idle
  <2>2. \A j \in Inst : j # i => job[j] = 0
    BY <2>1 DEF OpenEntry, Serial
  <2>3. /\ Len(journal') = Len(journal) + 1 /\ journal'[Len(journal')].op = Head(mailbox[i]).op
        /\ journal'[Len(journal')].ok = FALSE
    BY <1>2, <1>0, SMTT(30) DEF RunOp, start_op, TypeOK
  <2>4. job'[i] = Len(journal') /\ \A j \in Inst : j # i => job'[j] = job[j]
    BY <1>2, <2>3 DEF RunOp, TypeOK
  <2>5. UNCHANGED <<state, mailbox>>
    BY <1>2 DEF RunOp
  <2> QED BY <1>0, <2>1, <2>2, <2>3, <2>4, <2>5 DEF OpenEntry
<1>3. ASSUME NEW i \in Inst, Complete(i) PROVE OpenEntry'
  <2>1. \A j \in Inst : j # i => job[j] = 0
    BY <1>3 DEF OpenEntry, Serial, Complete
  <2>2. \A j \in Inst : job'[j] = 0
    BY <1>3, <2>1 DEF Complete, TypeOK
  <2> QED BY <2>2 DEF OpenEntry
<1>4. ASSUME NEW i \in Inst, Panic(i) PROVE OpenEntry'
  <2>1. \A j \in Inst : job[j] = 0
    BY <1>4 DEF OpenEntry, Serial, Panic, Takes, Idle
  <2> QED BY <1>4, <2>1 DEF OpenEntry, Panic
<1>5. ASSUME NEW i \in Inst, Summary(i) PROVE OpenEntry'
  BY <1>5, <1>1 DEF Summary, Takes, Idle, TypeOK
<1>6. ASSUME NEW i \in Inst, PreStart(i) \/ Notify(i) \/ TakeStop(i) PROVE OpenEntry'
  <2>1. job[i] = 0
    BY <1>6 DEF PreStart, Notify, TakeStop, Idle, OpenEntry
  <2> QED BY <1>6, <2>1, <1>1 DEF PreStart, Notify, TakeStop, TypeOK
<1>7. ASSUME NEW i \in Inst, Finish(i) PROVE OpenEntry'
  <2>1. job[i] = 0
    BY <1>7 DEF Finish, OpenEntry
  <2> QED BY <1>7, <2>1, <1>1 DEF Finish, TypeOK
<1>8. ASSUME RestartChild PROVE OpenEntry'
  <2>1. slot + 1 \in Inst => job[slot + 1] = 0
    BY DEF OpenEntry, Serial, TypeOK
  <2> QED BY <1>8, <2>1, <1>1 DEF RestartChild, TypeOK
<1>9. ASSUME NEW c \in Callers, SendRequest(c) PROVE OpenEntry'
  <2> DEFINE r == call[c].ref
             m == [op |-> call[c].op, from |-> c]
  <2>1. r \in Inst
    BY DEF TypeOK, Call
  <2>2. \A q \in Seq(Msg) : q # <<>> => Append(q, m) # <<>> /\ Head(Append(q, m)) = Head(q)
    OBVIOUS
  <2>3. \A i \in Inst : mailbox[i] # <<>> => mailbox'[i] # <<>> /\ Head(mailbox'[i]) = Head(mailbox[i])
    BY <1>9, <2>1, <2>2 DEF SendRequest, TypeOK
  <2>4. UNCHANGED <<journal, job, state>>
    BY <1>9 DEF SendRequest
  <2> QED BY <2>3, <2>4 DEF OpenEntry
<1>10. ASSUME NEW c \in Callers, Request(c) \/ SendFails(c) PROVE OpenEntry'
  BY <1>10, <1>1 DEF Request, SendFails, calcVars
<1>11. ASSUME Tick \/ StopTimer \/ TimerJoined \/ StopCalc \/ UNCHANGED vars PROVE OpenEntry'
  BY <1>11, <1>1 DEF Tick, StopTimer, TimerJoined, StopCalc, calcVars, vars
<1> QED
  BY <1>2, <1>3, <1>4, <1>5, <1>6, <1>7, <1>8, <1>9, <1>10, <1>11 DEF Next, Calculator, Caller

\* What a step does to the result of a replay.
LEMMA ReplayUnchanged ==
  ASSUME TypeOK, NEW i \in Inst, RunOp(i) \/ Panic(i)
  PROVE  replay_last_result(journal') = replay_last_result(journal)
<1>1. mailbox[i] # <<>> /\ Head(mailbox[i]).op \in Op
  BY HeadType DEF RunOp, Panic, Takes
<1>2. journal' = Append(journal, [op |-> Head(mailbox[i]).op, ok |-> FALSE])
  BY DEF RunOp, Panic, start_op
<1> QED BY <1>1, <1>2, ReplayStarted DEF TypeOK

\* Completing the last entry makes a replay yield its operation.
LEMMA ReplayCommitted ==
  ASSUME TypeOK, OpenEntry, NEW i \in Inst, Complete(i)
  PROVE  /\ replay_last_result(journal') = Head(mailbox[i]).op
         /\ Head(mailbox[i]).op \in Op
<1>1. /\ mailbox[i] # <<>> /\ Head(mailbox[i]).op # 0
      /\ job[i] = Len(journal) /\ Len(journal) > 0
      /\ journal[Len(journal)].op = Head(mailbox[i]).op
  BY DEF Complete, OpenEntry
<1>2. journal' = [journal EXCEPT ![Len(journal)].ok = TRUE]
  BY <1>1 DEF Complete, complete_op
<1> QED BY <1>1, <1>2, ReplayCompleted, HeadType DEF TypeOK

\* What the serving instance remembers stays what a replay yields.
LEMMA RemembersStep == IInv /\ [Next]_vars => Remembers'
<1> SUFFICES ASSUME TypeOK, Serial, OpenEntry, Remembers, [Next]_vars PROVE Remembers'
  BY DEF IInv
<1> USE InstFacts
<1>1. ASSUME UNCHANGED <<journal, last>>, \A i \in Inst : state'[i] = "run" => state[i] = "run"
      PROVE  Remembers'
  BY <1>1 DEF Remembers
<1>2. ASSUME NEW i \in Inst, PreStart(i) PROVE Remembers'
  <2>1. last'[i] = replay_last_result(journal') /\ \A j \in Inst : j # i => last'[j] = last[j]
    BY <1>2 DEF PreStart, TypeOK
  <2>2. UNCHANGED journal /\ \A j \in Inst : j # i => state'[j] = state[j]
    BY <1>2 DEF PreStart, TypeOK
  <2> QED BY <2>1, <2>2 DEF Remembers
<1>3. ASSUME NEW i \in Inst, RunOp(i) PROVE Remembers'
  BY <1>3, ReplayUnchanged DEF Remembers, RunOp
<1>4. ASSUME NEW i \in Inst, Panic(i) PROVE Remembers'
  <2>1. UNCHANGED last /\ \A j \in Inst : state'[j] = "run" => state[j] = "run"
    BY <1>4 DEF Panic, TypeOK
  <2> QED BY <1>4, <2>1, ReplayUnchanged DEF Remembers
<1>5. ASSUME NEW i \in Inst, Complete(i) PROVE Remembers'
  <2>1. \A j \in Inst : state'[j] = "run" => j = i
    BY <1>5 DEF Complete, Serial
  <2>2. last'[i] = Head(mailbox[i]).op
    BY <1>5 DEF Complete, TypeOK
  <2> QED BY <1>5, <2>1, <2>2, ReplayCommitted DEF Remembers
<1>6. ASSUME NEW i \in Inst, Summary(i) \/ Notify(i) \/ TakeStop(i) \/ Finish(i) PROVE Remembers'
  BY <1>6, <1>1 DEF Summary, Notify, TakeStop, Finish, TypeOK
<1>7. ASSUME RestartChild PROVE Remembers'
  BY <1>7, <1>1 DEF RestartChild, TypeOK
<1>8. ASSUME NEW c \in Callers, Caller(c) PROVE Remembers'
  BY <1>8, <1>1 DEF Caller, Request, SendRequest, SendFails, calcVars
<1>9. ASSUME Tick \/ StopTimer \/ TimerJoined \/ StopCalc \/ UNCHANGED vars PROVE Remembers'
  BY <1>9, <1>1 DEF Tick, StopTimer, TimerJoined, StopCalc, calcVars, vars
<1> QED BY <1>2, <1>3, <1>4, <1>5, <1>6, <1>7, <1>8, <1>9 DEF Next, Calculator

LEMMA Invariance == Spec => []IInv
<1>1. Init => IInv
  BY InitInv
<1>2. IInv /\ [Next]_vars => IInv'
  BY TypeStep, SerialStep, OpenEntryStep, RemembersStep DEF IInv
<1> QED BY <1>1, <1>2, PTL DEF Spec

-----------------------------------------------------------------------------
(* Theorems                                                                *)

\* Type correctness of the calculator, its callers and the journal, for every
\* number of callers, operations and ticks.
THEOREM JournalTypeCorrect == Spec => []TypeOK
<1>1. IInv => TypeOK
  BY DEF IInv
<1> QED BY <1>1, Invariance, PTL

\* Every step of the calculator is a step of the register or leaves it alone.
LEMMA RegisterStep == IInv /\ [Next]_vars => [Register!Next]_(Register!vars)
<1> SUFFICES ASSUME TypeOK, Serial, OpenEntry, Remembers, [Next]_vars
             PROVE  [Register!Next]_(Register!vars)
  BY DEF IInv
<1> USE InstFacts
<1>1. ASSUME UNCHANGED <<journal, shown>>, \A i \in Inst : state'[i] = "run" <=> state[i] = "run"
      PROVE  UNCHANGED Register!vars
  BY <1>1 DEF Register!vars
<1>2. ASSUME NEW i \in Inst, PreStart(i) PROVE Register!Recover
  <2>1. state[i] = "starting" /\ state'[i] = "run" /\ UNCHANGED <<journal, shown>>
    BY <1>2 DEF PreStart, TypeOK
  <2>2. \A j \in Inst : state[j] # "run"
    BY <2>1 DEF Serial
  <2> QED BY <2>1, <2>2 DEF Register!Recover
<1>3. ASSUME NEW i \in Inst, RunOp(i) PROVE UNCHANGED Register!vars
  BY <1>3, ReplayUnchanged DEF RunOp, Register!vars
<1>4. ASSUME NEW i \in Inst, Complete(i) PROVE Register!Commit
  <2>1. state[i] = "run" /\ UNCHANGED <<state, shown>>
    BY <1>4 DEF Complete
  <2> QED BY <1>4, <2>1, ReplayCommitted DEF Register!Commit
<1>5. ASSUME NEW i \in Inst, Panic(i) \/ TakeStop(i) PROVE Register!Crash
  <2>1. state[i] = "run" /\ state'[i] # "run" /\ UNCHANGED shown
    BY <1>5 DEF Panic, TakeStop, Takes, Idle, TypeOK
  <2>2. \A j \in Inst : state'[j] # "run"
    BY <1>5, <2>1, SMTT(30) DEF Serial, Panic, TakeStop, TypeOK
  <2>3. replay_last_result(journal') = replay_last_result(journal)
    BY <1>5, ReplayUnchanged DEF TakeStop
  <2> QED BY <2>1, <2>2, <2>3 DEF Register!Crash
<1>6. ASSUME NEW i \in Inst, Summary(i) PROVE Register!Read
  <2>1. state[i] = "run" /\ shown'.last = last[i] /\ UNCHANGED <<journal, state>>
    BY <1>6 DEF Summary, Takes, Idle
  <2> QED BY <2>1 DEF Register!Read, Remembers
<1>7. ASSUME NEW i \in Inst, Notify(i) \/ Finish(i) PROVE UNCHANGED Register!vars
  BY <1>7, <1>1 DEF Notify, Finish, TypeOK
<1>8. ASSUME RestartChild PROVE UNCHANGED Register!vars
  <2>1. slot + 1 \in Inst => state[slot + 1] # "run"
    BY DEF Serial, TypeOK
  <2> QED BY <1>8, <1>1, <2>1 DEF RestartChild, TypeOK
<1>9. ASSUME NEW c \in Callers, Caller(c) PROVE UNCHANGED Register!vars
  BY <1>9, <1>1 DEF Caller, Request, SendRequest, SendFails, calcVars
<1>10. ASSUME Tick \/ StopTimer \/ TimerJoined \/ StopCalc \/ UNCHANGED vars
       PROVE  UNCHANGED Register!vars
  BY <1>10, <1>1 DEF Tick, StopTimer, TimerJoined, StopCalc, calcVars, vars
<1> QED
  BY <1>2, <1>3, <1>4, <1>5, <1>6, <1>7, <1>8, <1>9, <1>10
     DEF Next, Calculator, Register!Next

\* The journalled calculator is a register that crashes and restarts leave
\* alone: an acknowledged result stays the last_result until the next one is
\* acknowledged, and every query of whatever instance serves is told it.
THEOREM ImplementsRegister == Spec => RegisterSpec
<1>1. Init => Register!Init
  <2> SUFFICES ASSUME Init PROVE Register!Init
    OBVIOUS
  <2>1. replay_last_result(journal) = None
    BY DEF Init, replay_last_result
  <2> QED BY <2>1 DEF Init, Register!Init
<1> QED BY <1>1, RegisterStep, Invariance, PTL DEF Spec, RegisterSpec, Register!Spec

-----------------------------------------------------------------------------
(* Operations and their answers                                            *)

\* Who has an operation: the caller that asked for it, until it is answered, and
\* with it the one message of that caller in the mailbox it was sent to.
CallerOf(c) ==
  call[c].at # "idle" =>
    /\ call[c].op <= issued
    /\ call[c].op = 0 => c = Timer
    /\ \A d \in Callers : call[d].at # "idle" /\ call[d].op = call[c].op => d = c

MessageOf(i, k) ==
  /\ call[mailbox[i][k].from].at = "wait" /\ call[mailbox[i][k].from].op = mailbox[i][k].op
  /\ call[mailbox[i][k].from].ref = i
  /\ \A l \in DOMAIN mailbox[i] : mailbox[i][l].from = mailbox[i][k].from => l = k

Custody ==
  /\ \A c \in Callers : CallerOf(c)
  /\ \A i \in Inst : \A k \in DOMAIN mailbox[i] : MessageOf(i, k)

LEMMA CustodyInit == Init => Custody
BY DEF Init, Custody, CallerOf

\* A caller without a message in a mailbox goes idle.
LEMMA IdleCaller ==
  ASSUME TypeOK, NEW c \in Callers, call' = [call EXCEPT ![c].at = "idle"]
  PROVE  call'[c].at = "idle" /\ \A d \in Callers \ {c} : call'[d] = call[d]
BY DEF TypeOK, Call

LEMMA MailType ==
  ASSUME TypeOK, NEW i \in Inst, NEW k \in DOMAIN mailbox[i]
  PROVE  mailbox[i][k] \in Msg /\ mailbox[i][k].from \in Callers /\ mailbox[i][k].op \in Op \cup {0}
<1>1. mailbox[i] \in Seq(Msg)
  BY DEF TypeOK
<1>2. mailbox[i][k] \in Msg
  BY <1>1
<1> QED BY <1>2 DEF Msg

\* Callers that go idle keep the custody of the others as it was.
LEMMA CallersShrink ==
  ASSUME TypeOK, Custody, issued' = issued,
         \A c \in Callers : call'[c].at = "idle" \/ call'[c] = call[c]
  PROVE  \A c \in Callers : CallerOf(c)'
BY DEF Custody, CallerOf

\* Positions after a push and after a pop.
LEMMA Positions ==
  ASSUME NEW S, NEW q \in Seq(S)
  PROVE  /\ Len(q) \in Nat /\ DOMAIN q = 1 .. Len(q)
         /\ q # <<>> => /\ DOMAIN Tail(q) = 1 .. (Len(q) - 1) /\ Len(Tail(q)) = Len(q) - 1
                       /\ \A l \in DOMAIN Tail(q) :
                            l \in Nat \ {0} /\ l + 1 \in DOMAIN q /\ Tail(q)[l] = q[l + 1]
         /\ \A x \in S : /\ DOMAIN Append(q, x) = DOMAIN q \cup {Len(q) + 1}
                         /\ Len(Append(q, x)) = Len(q) + 1 /\ Append(q, x)[Len(q) + 1] = x
                         /\ \A l \in DOMAIN q : Append(q, x)[l] = q[l] /\ l # Len(q) + 1
<1>1. Len(q) \in Nat /\ DOMAIN q = 1 .. Len(q)
  OBVIOUS
<1>2. ASSUME q # <<>>
      PROVE  /\ DOMAIN Tail(q) = 1 .. (Len(q) - 1) /\ Len(Tail(q)) = Len(q) - 1
             /\ \A l \in DOMAIN Tail(q) : l \in Nat \ {0} /\ l + 1 \in DOMAIN q /\ Tail(q)[l] = q[l + 1]
  <2>1. Len(Tail(q)) = Len(q) - 1 /\ Tail(q) \in Seq(S) /\ \A l \in 1 .. Len(q) - 1 : Tail(q)[l] = q[l + 1]
    BY <1>2
  <2>2. DOMAIN Tail(q) = 1 .. (Len(q) - 1)
    BY <2>1
  <2> QED BY <1>1, <2>1, <2>2
<1>3. ASSUME NEW x \in S
      PROVE  /\ DOMAIN Append(q, x) = DOMAIN q \cup {Len(q) + 1}
             /\ Len(Append(q, x)) = Len(q) + 1 /\ Append(q, x)[Len(q) + 1] = x
             /\ \A l \in DOMAIN q : Append(q, x)[l] = q[l] /\ l # Len(q) + 1
  BY <1>1
<1> QED BY <1>1, <1>2, <1>3

\* The head of a mailbox is answered.
LEMMA CustodyTake ==
  ASSUME TypeOK, Custody, NEW i \in Inst, mailbox[i] # <<>>, NEW how,
         mailbox' = [mailbox EXCEPT ![i] = Tail(@)], Answered(Head(mailbox[i]), how), issued' = issued
  PROVE  Custody'
<1> DEFINE m == Head(mailbox[i])
<1>1. /\ mailbox[i] \in Seq(Msg) /\ mailbox[i][1] = m /\ 1 \in DOMAIN mailbox[i] /\ m.from \in Callers
  <2>1. mailbox[i] \in Seq(Msg)
    BY DEF TypeOK
  <2>2. mailbox[i][1] = m /\ 1 \in DOMAIN mailbox[i]
    BY <2>1
  <2> QED BY <2>1, <2>2, MailType
<1>2. call'[m.from].at = "idle" /\ \A d \in Callers \ {m.from} : call'[d] = call[d]
  BY <1>1, IdleCaller DEF Answered
<1>3. \A c \in Callers : CallerOf(c)'
  BY <1>2, CallersShrink
<1>4. ASSUME NEW j \in Inst, NEW k \in DOMAIN mailbox'[j] PROVE MessageOf(j, k)'
  <2>1. CASE j # i
    <3>1. mailbox'[j] = mailbox[j] /\ k \in DOMAIN mailbox[j]
      BY <1>4, <2>1 DEF TypeOK
    <3>2. MessageOf(j, k) /\ MessageOf(i, 1) /\ mailbox[j][k].from \in Callers
      BY <1>1, <3>1, MailType DEF Custody
    <3>3. mailbox[j][k].from # m.from
      BY <1>1, <2>1, <3>2 DEF MessageOf
    <3>4. call'[mailbox[j][k].from] = call[mailbox[j][k].from]
      BY <1>2, <3>2, <3>3
    <3> QED BY <3>1, <3>2, <3>4 DEF MessageOf
  <2>2. CASE j = i
    <3>1. mailbox'[i] = Tail(mailbox[i])
      BY <1>1 DEF TypeOK
    <3>2. \A l \in DOMAIN mailbox'[i] :
            l \in Nat \ {0} /\ l + 1 \in DOMAIN mailbox[i] /\ mailbox'[i][l] = mailbox[i][l + 1]
      <4>1. \A l \in DOMAIN Tail(mailbox[i]) :
              l \in Nat \ {0} /\ l + 1 \in DOMAIN mailbox[i] /\ Tail(mailbox[i])[l] = mailbox[i][l + 1]
        BY <1>1, Positions, Zenon
      <4> QED BY <3>1, <4>1, Zenon
    <3>3. MessageOf(i, k + 1) /\ mailbox[i][k + 1].from \in Callers /\ k \in Nat /\ k + 1 # 1
      BY <1>4, <2>2, <3>2, MailType DEF Custody
    <3>4. mailbox[i][k + 1].from # m.from
      BY <1>1, <3>3 DEF MessageOf
    <3>5. call'[mailbox[i][k + 1].from] = call[mailbox[i][k + 1].from]
      BY <1>2, <3>3, <3>4
    <3>6. mailbox'[i][k] = mailbox[i][k + 1]
      BY <1>4, <2>2, <3>2
    <3>7. ASSUME NEW l \in DOMAIN mailbox'[i], mailbox'[i][l].from = mailbox'[i][k].from PROVE l = k
      <4>1. l + 1 \in DOMAIN mailbox[i] /\ mailbox[i][l + 1].from = mailbox[i][k + 1].from /\ l \in Nat
        BY <3>2, <3>6, <3>7
      <4>2. l + 1 = k + 1
        BY <3>3, <4>1 DEF MessageOf
      <4> QED BY <3>3, <4>1, <4>2
    <3> QED BY <2>2, <3>3, <3>5, <3>6, <3>7 DEF MessageOf
  <2> QED BY <2>1, <2>2
<1> QED BY <1>3, <1>4 DEF Custody

\* A caller that has nothing in a mailbox changes what it is doing.
LEMMA MessagesKept ==
  ASSUME TypeOK, Custody, NEW c \in Callers, call[c].at # "wait",
         \A d \in Callers \ {c} : call'[d] = call[d], mailbox' = mailbox
  PROVE  \A i \in Inst : \A k \in DOMAIN mailbox'[i] : MessageOf(i, k)'
<1> SUFFICES ASSUME NEW i \in Inst, NEW k \in DOMAIN mailbox[i] PROVE MessageOf(i, k)'
  OBVIOUS
<1>1. MessageOf(i, k) /\ mailbox[i][k].from \in Callers
  BY MailType DEF Custody
<1>2. call'[mailbox[i][k].from] = call[mailbox[i][k].from]
  BY <1>1 DEF MessageOf
<1> QED BY <1>1, <1>2 DEF MessageOf

\* What is in a mailbox stays the one request its caller waits for.
LEMMA CustodyStep == TypeOK /\ OpenEntry /\ Custody /\ [Next]_vars => Custody'
<1> SUFFICES ASSUME TypeOK, OpenEntry, Custody, [Next]_vars PROVE Custody'
  OBVIOUS
<1>1. ASSUME UNCHANGED <<mailbox, call, issued>> PROVE Custody'
  BY <1>1 DEF Custody, CallerOf, MessageOf
<1>2. ASSUME NEW i \in Inst, Complete(i) \/ Panic(i) \/ Summary(i) PROVE Custody'
  <2>1. mailbox[i] # <<>> /\ issued' = issued /\ mailbox' = [mailbox EXCEPT ![i] = Tail(@)]
    BY <1>2 DEF Complete, Panic, Summary, Takes, OpenEntry
  <2>2. PICK how : Answered(Head(mailbox[i]), how)
    BY <1>2 DEF Complete, Panic, Summary
  <2> QED BY <2>1, <2>2, CustodyTake
<1>3. ASSUME NEW i \in Inst, Finish(i) PROVE Custody'
  <2>1. /\ mailbox'[i] = <<>> /\ \A j \in Inst : j # i => mailbox'[j] = mailbox[j]
        /\ issued' = issued
        /\ \A c \in Callers : call'[c] = IF Left(i, c) THEN [call[c] EXCEPT !.at = "idle"] ELSE call[c]
    BY <1>3 DEF Finish, TypeOK
  <2>2. ASSUME NEW c \in Callers PROVE call'[c].at = "idle" \/ call'[c] = call[c]
    BY <2>1 DEF TypeOK, Call
  <2>3. ASSUME NEW j \in Inst, NEW k \in DOMAIN mailbox'[j] PROVE MessageOf(j, k)'
    <3>1. j # i /\ mailbox'[j] = mailbox[j]
      BY <2>1, <2>3
    <3>2. MessageOf(j, k) /\ mailbox[j][k].from \in Callers
      BY <2>3, <3>1, MailType DEF Custody
    <3>3. ~Left(i, mailbox[j][k].from)
      BY <3>1, <3>2 DEF Left, Custody, MessageOf
    <3> QED BY <2>1, <3>1, <3>2, <3>3 DEF MessageOf
  <2> QED BY <2>1, <2>2, <2>3, CallersShrink DEF Custody
<1>4. ASSUME NEW c \in Callers, Request(c) PROVE Custody'
  <2>1. /\ call[c].at = "idle" /\ issued' = issued + 1 /\ mailbox' = mailbox /\ issued \in Nat
        /\ call'[c] = [at |-> "held", op |-> issued + 1, ref |-> slot]
        /\ \A d \in Callers \ {c} : call'[d] = call[d]
    BY <1>4 DEF Request, TypeOK, calcVars
  <2>2. ASSUME NEW d \in Callers, call'[d].at # "idle"
        PROVE  IF d = c THEN call'[d].op = issued + 1
                        ELSE call'[d] = call[d] /\ call[d].op <= issued /\ CallerOf(d)
    BY <2>1, <2>2 DEF Custody, CallerOf
  <2>3. \A d \in Callers : call[d].op \in Nat
    <3>1. \A d \in Callers : call[d] \in Call
      BY DEF TypeOK
    <3>2. \A d \in Callers : call[d].op \in Op \cup {0}
      BY <3>1 DEF Call
    <3>3. ASSUME NEW n \in Op \cup {0} PROVE n \in Nat
      BY InstFacts
    <3> QED BY <3>2, <3>3, Zenon
  <2>4. \A d \in Callers : CallerOf(d)'
    BY <2>1, <2>2, <2>3 DEF CallerOf
  <2> QED BY <2>1, <2>4, MessagesKept DEF Custody
<1>5. ASSUME Tick PROVE Custody'
  <2>1. /\ call[Timer].at = "idle" /\ issued' = issued /\ mailbox' = mailbox /\ issued \in Nat
        /\ call'[Timer].op = 0 /\ Timer \in Callers
        /\ \A d \in Callers \ {Timer} : call'[d] = call[d]
    BY <1>5 DEF Tick, TypeOK, calcVars, Callers
  <2>2. \A d \in Callers : CallerOf(d)'
    BY <2>1 DEF Custody, CallerOf
  <2> QED BY <2>1, <2>2, MessagesKept DEF Custody
<1>6. ASSUME NEW c \in Callers, SendRequest(c) PROVE Custody'
  <2> DEFINE m == [op |-> call[c].op, from |-> c]
  <2>0. PICK r \in Inst : r = call[c].ref
    BY DEF TypeOK, Call
  <2>1. call[c] \in Call /\ m \in Msg /\ mailbox[r] \in Seq(Msg)
    BY DEF TypeOK, Call, Msg
  <2>2. /\ call[c].at = "held" /\ issued' = issued
        /\ call'[c].at = "wait" /\ call'[c].op = call[c].op /\ call'[c].ref = r
        /\ \A d \in Callers \ {c} : call'[d] = call[d]
    BY <1>6, <2>0, <2>1 DEF SendRequest, TypeOK, Call
  <2>3. mailbox'[r] = Append(mailbox[r], m) /\ \A j \in Inst : j # r => mailbox'[j] = mailbox[j]
    BY <1>6, <2>0, <2>1 DEF SendRequest, TypeOK
  <2>4. \A d \in Callers : CallerOf(d)'
    BY <2>2 DEF Custody, CallerOf
  <2>5. ASSUME NEW j \in Inst, NEW k \in DOMAIN mailbox[j]
        PROVE  /\ mailbox[j][k].from \in Callers \ {c} /\ MessageOf(j, k)
               /\ call'[mailbox[j][k].from] = call[mailbox[j][k].from]
    BY <2>2, MailType DEF Custody, MessageOf
  <2>6. ASSUME NEW j \in Inst, NEW k \in DOMAIN mailbox'[j] PROVE MessageOf(j, k)'
    <3>1. CASE j # r
      BY <2>3, <2>5, <2>6, <3>1 DEF MessageOf
    <3>2. CASE j = r
      <4> DEFINE n == Len(mailbox[r]) + 1
      <4>1. /\ DOMAIN mailbox'[r] = DOMAIN mailbox[r] \cup {n} /\ mailbox'[r][n] = m
            /\ \A l \in DOMAIN mailbox[r] : mailbox'[r][l] = mailbox[r][l] /\ l # n
        BY <2>1, <2>3, Positions
      <4> HIDE DEF n
      <4>2. CASE k = n
        <5>1. ASSUME NEW l \in DOMAIN mailbox'[r], l # n PROVE mailbox'[r][l].from # c
          BY <2>1, <2>5, <4>1, <5>1
        <5>2. mailbox'[r][k].from = c /\ mailbox'[r][k].op = call[c].op
          BY <4>1, <4>2
        <5> QED BY <2>2, <3>2, <4>2, <5>1, <5>2 DEF MessageOf
      <4>3. CASE k # n
        <5>1. k \in DOMAIN mailbox[r] /\ mailbox'[r][k] = mailbox[r][k]
          BY <2>6, <3>2, <4>1, <4>3
        <5>2. MessageOf(r, k) /\ mailbox[r][k].from # c
          BY <2>1, <2>5, <5>1
        <5>3. ASSUME NEW l \in DOMAIN mailbox'[r], mailbox'[r][l].from = mailbox[r][k].from PROVE l = k
          <6>1. l # n
            BY <4>1, <5>2, <5>3
          <6>2. l \in DOMAIN mailbox[r] /\ mailbox[r][l].from = mailbox[r][k].from
            BY <4>1, <5>3, <6>1
          <6> QED BY <5>2, <6>2 DEF MessageOf
        <5>4. call'[mailbox[r][k].from] = call[mailbox[r][k].from]
          BY <2>1, <2>5, <5>1
        <5>5. MessageOf(r, k)'
          BY <5>1, <5>2, <5>3, <5>4 DEF MessageOf
        <5> QED BY <3>2, <5>5
      <4> QED BY <4>2, <4>3
    <3> QED BY <3>1, <3>2
  <2> QED BY <2>4, <2>6 DEF Custody
<1>7. ASSUME NEW c \in Callers, SendFails(c) PROVE Custody'
  <2>1. /\ call[c].at = "held" /\ issued' = issued /\ mailbox' = mailbox
        /\ call'[c].at = "idle" /\ \A d \in Callers \ {c} : call'[d] = call[d]
    BY <1>7, IdleCaller DEF SendFails, Answered, calcVars
  <2> QED BY <2>1, CallersShrink, MessagesKept DEF Custody
<1>8. ASSUME NEW i \in Inst, PreStart(i) \/ RunOp(i) \/ Notify(i) \/ TakeStop(i) PROVE Custody'
  BY <1>1, <1>8 DEF PreStart, RunOp, Notify, TakeStop, callVars
<1>9. ASSUME RestartChild \/ StopTimer \/ TimerJoined \/ StopCalc \/ UNCHANGED vars PROVE Custody'
  BY <1>1, <1>9 DEF RestartChild, StopTimer, TimerJoined, StopCalc, vars, calcVars, callVars
<1> QED BY <1>2, <1>3, <1>4, <1>5, <1>6, <1>7, <1>8, <1>9 DEF Next, Calculator, Caller

\* Where an operation stands: before it is asked for, and as long as its caller
\* waits, it has no answer; an entry of the journal is completed and answered
\* with Ok, or it crashed the calculator and its caller was told, or it is the
\* one an instance is at work on.
EntryOf(k) ==
  /\ journal[k].op <= issued
  /\ \/ journal[k].ok /\ answer[journal[k].op] = "ok"
     \/ ~journal[k].ok /\ journal[k].op \in bad /\ answer[journal[k].op] = "dropped"
     \/ ~journal[k].ok /\ answer[journal[k].op] = "none" /\ \E i \in Inst : job[i] = k

Distinct == \A k, l \in DOMAIN journal : journal[k].op = journal[l].op => k = l

Unanswered ==
  /\ \A n \in Op : n > issued => answer[n] = "none"
  /\ \A c \in Callers : call[c].at # "idle" /\ call[c].op # 0 => answer[call[c].op] = "none"

Recorded == \A n \in Op : answer[n] = "ok" => \E k \in Completed(journal) : journal[k].op = n

Told ==
  /\ Unanswered
  /\ \A k \in DOMAIN journal : EntryOf(k)
  /\ Distinct
  /\ Recorded

LEMMA ToldInit == Init => Told
BY DEF Init, Told, Unanswered, Distinct, Recorded

LEMMA EntryType ==
  ASSUME TypeOK, NEW k \in DOMAIN journal
  PROVE  journal[k] \in Entry /\ journal[k].op \in Op /\ journal[k].op # 0 /\ k \in Nat
<1>1. journal \in Seq(Entry)
  BY DEF TypeOK
<1>2. journal[k] \in Entry /\ k \in Nat
  BY <1>1
<1> QED BY <1>2, JournalAssumption DEF Entry, Op

\* The message an instance takes belongs to a caller that waits for it.
LEMMA HeadOf ==
  ASSUME TypeOK, Custody, NEW i \in Inst, mailbox[i] # <<>>
  PROVE  LET m == Head(mailbox[i]) IN
         /\ m.from \in Callers /\ m.op \in Op \cup {0} /\ m.op <= issued
         /\ call[m.from].at = "wait" /\ call[m.from].op = m.op /\ call[m.from].ref = i
         /\ \A d \in Callers \ {m.from} : call[d].at # "idle" => call[d].op # m.op
<1> DEFINE m == Head(mailbox[i])
<1>1. mailbox[i][1] = m /\ 1 \in DOMAIN mailbox[i]
  <2>1. mailbox[i] \in Seq(Msg)
    BY DEF TypeOK
  <2> QED BY <2>1
<1>2. m.from \in Callers /\ m.op \in Op \cup {0} /\ MessageOf(i, 1)
  BY <1>1, MailType DEF Custody
<1> HIDE DEF m
<1>3. call[m.from].at = "wait" /\ call[m.from].op = m.op /\ call[m.from].ref = i
  BY <1>1, <1>2 DEF MessageOf
<1>4. CallerOf(m.from)
  BY <1>2 DEF Custody
<1>5. m.op <= issued /\ \A d \in Callers \ {m.from} : call[d].at # "idle" => call[d].op # m.op
  BY <1>3, <1>4 DEF CallerOf
<1> QED BY <1>2, <1>3, <1>5 DEF m

\* An operation whose caller still waits is in the journal only as the entry an
\* instance is at work on.
LEMMA Fresh ==
  ASSUME TypeOK, OpenEntry, Custody, Told, NEW c \in Callers, call[c].at # "idle",
         NEW k \in DOMAIN journal, journal[k].op = call[c].op
  PROVE  /\ call[c].at = "wait" /\ call[c].ref \in Inst
         /\ job[call[c].ref] = k /\ state[call[c].ref] = "run"
<1>1. journal[k].op \in Op /\ journal[k].op # 0 /\ k \in Nat
  BY EntryType
<1>2. answer[journal[k].op] = "none"
  BY <1>1 DEF Told, Unanswered
<1>3. PICK i \in Inst : job[i] = k
  BY <1>2 DEF Told, EntryOf
<1>4. k # 0
  <2>1. journal \in Seq(Entry)
    BY DEF TypeOK
  <2> QED BY <2>1
<1>5. state[i] = "run" /\ mailbox[i] # <<>> /\ k = Len(journal) /\ Head(mailbox[i]).op = journal[k].op
  BY <1>3, <1>4 DEF OpenEntry
<1>6. Head(mailbox[i]).from = c
  BY <1>5, HeadOf
<1> QED BY <1>3, <1>5, <1>6, HeadOf

\* The journal is left alone, and only operations that are not in it get an
\* answer other than Ok.
LEMMA ToldKept ==
  ASSUME TypeOK, Told, UNCHANGED <<journal, job>>, issued' \in Nat, issued <= issued',
         bad \subseteq bad', Unanswered',
         \A n \in Op : \/ answer'[n] = answer[n]
                       \/ answer'[n] # "ok" /\ answer[n] # "ok" /\ \A k \in DOMAIN journal : journal[k].op # n
  PROVE  Told'
<1>1. ASSUME NEW k \in DOMAIN journal PROVE EntryOf(k)'
  <2>1. journal[k].op \in Op /\ EntryOf(k)
    BY EntryType DEF Told
  <2>2. answer'[journal[k].op] = answer[journal[k].op]
    BY <2>1
  <2>3. journal[k].op <= issued'
    <3>1. journal[k].op \in Nat /\ issued \in Nat
      BY <2>1, OpFacts, JournalAssumption DEF TypeOK
    <3> QED BY <2>1, <3>1 DEF EntryOf
  <2> QED BY <2>1, <2>2, <2>3 DEF EntryOf
<1>2. Distinct' /\ Recorded'
  BY DEF Told, Distinct, Recorded
<1> QED BY <1>1, <1>2 DEF Told

\* A caller is told Ok by the step that completes its entry, and only then.
LEMMA ToldStep == TypeOK /\ Serial /\ OpenEntry /\ Custody /\ Told /\ [Next]_vars => Told'
<1> SUFFICES ASSUME TypeOK, Serial, OpenEntry, Custody, Told, [Next]_vars PROVE Told'
  OBVIOUS
<1> USE InstFacts
<1>1. issued \in Nat /\ answer \in [Op -> {"none", "ok", "dropped", "unsent"}] /\ journal \in Seq(Entry)
  BY JournalAssumption DEF TypeOK
<1>2. ASSUME NEW i \in Inst, RunOp(i) \/ Panic(i) PROVE Told'
  <2> DEFINE m == Head(mailbox[i])
             e == [op |-> m.op, ok |-> FALSE]
  <2>1. /\ mailbox[i] # <<>> /\ state[i] = "run" /\ job[i] = 0 /\ m.op # 0
        /\ journal' = Append(journal, e) /\ UNCHANGED <<issued, bad>>
    <3>1. 0 \notin bad
      BY JournalAssumption DEF TypeOK, Op
    <3> QED BY <1>2, <3>1 DEF RunOp, Panic, Takes, Idle, start_op, callVars
  <2>2. /\ m.from \in Callers /\ m.op \in Op /\ m.op <= issued
        /\ call[m.from].at = "wait" /\ call[m.from].op = m.op /\ call[m.from].ref = i
        /\ \A d \in Callers \ {m.from} : call[d].at # "idle" => call[d].op # m.op
    BY <2>1, HeadOf
  <2>3. e \in Entry
    BY <2>2 DEF Entry
  <2>4. /\ DOMAIN journal' = DOMAIN journal \cup {Len(journal) + 1} /\ journal'[Len(journal) + 1] = e
        /\ \A k \in DOMAIN journal : journal'[k] = journal[k] /\ k # Len(journal) + 1
    BY <1>1, <2>1, <2>3, Positions
  <2>5. ASSUME NEW k \in DOMAIN journal PROVE journal[k].op # m.op
    <3>1. k # 0
      BY <1>1
    <3> QED BY <2>1, <2>2, <3>1, Fresh
  <2>6. ASSUME NEW k \in DOMAIN journal, NEW j \in Inst PROVE job[j] # k
    <3>1. ASSUME job[j] = k PROVE FALSE
      <4>1. k # 0
        BY <1>1
      <4>2. state[j] = "run"
        BY <3>1, <4>1 DEF OpenEntry
      <4> QED BY <2>1, <3>1, <4>1, <4>2 DEF Serial
    <3> QED BY <3>1
  <2> HIDE DEF m
  <2>7. ASSUME NEW n \in Op, n # m.op PROVE answer'[n] = answer[n]
    BY <1>1, <1>2, <2>7 DEF RunOp, Panic, Answered, callVars, m
  <2>8. \/ answer'[m.op] = "none" /\ call' = call /\ job'[i] = Len(journal) + 1
        \/ /\ answer'[m.op] = "dropped" /\ m.op \in bad
           /\ call' = [call EXCEPT ![m.from].at = "idle"]
    <3>1. CASE RunOp(i)
      <4>1. answer[m.op] = "none"
        BY <2>1, <2>2 DEF Told, Unanswered
      <4> QED BY <3>1, <4>1 DEF RunOp, callVars, TypeOK
    <3>2. CASE Panic(i)
      BY <1>1, <2>1, <2>2, <3>2 DEF Panic, Answered, m
    <3> QED BY <1>2, <3>1, <3>2
  <2>9. Unanswered'
    <3>1. \A n \in Op : n > issued' => answer'[n] = "none"
      BY <1>1, <2>1, <2>2, <2>7 DEF Told, Unanswered
    <3>2. ASSUME NEW d \in Callers, call'[d].at # "idle", call'[d].op # 0 PROVE answer'[call'[d].op] = "none"
      <4>1. CASE d = m.from
        <5>1. call' = call
          BY <2>2, <2>8, <3>2, <4>1, IdleCaller
        <5> QED BY <2>2, <2>8, <4>1, <5>1, <3>2, IdleCaller
      <4>2. CASE d # m.from
        <5>1. call'[d] = call[d]
          BY <2>2, <2>8, <4>2, IdleCaller
        <5>2. call[d].op # m.op /\ answer[call[d].op] = "none"
          BY <2>2, <3>2, <4>2, <5>1 DEF Told, Unanswered
        <5>3. call[d].op \in Op
          <6>1. call[d].op \in Op \cup {0}
            BY DEF TypeOK, Call
          <6> QED BY <3>2, <5>1, <6>1
        <5> QED BY <2>7, <5>1, <5>2, <5>3
      <4> QED BY <4>1, <4>2
    <3> QED BY <3>1, <3>2 DEF Unanswered
  <2>10. ASSUME NEW k \in DOMAIN journal' PROVE EntryOf(k)'
    <3>1. CASE k = Len(journal) + 1
      <4>1. journal'[k].op = m.op /\ ~journal'[k].ok
        BY <2>4, <3>1
      <4> QED BY <2>1, <2>2, <2>8, <3>1, <4>1 DEF EntryOf
    <3>2. CASE k # Len(journal) + 1
      <4>1. k \in DOMAIN journal /\ journal'[k] = journal[k]
        BY <2>4, <2>10, <3>2
      <4>2. EntryOf(k) /\ journal[k].op \in Op /\ journal[k].op # m.op
        BY <2>5, <4>1, EntryType DEF Told
      <4>3. answer'[journal[k].op] = answer[journal[k].op]
        BY <2>7, <4>2
      <4> QED BY <2>1, <2>6, <4>1, <4>2, <4>3 DEF EntryOf
    <3> QED BY <3>1, <3>2
  <2>11. Distinct'
    BY <2>4, <2>5 DEF Told, Distinct
  <2>12. Recorded'
    <3>1. ASSUME NEW n \in Op, answer'[n] = "ok" PROVE \E k \in Completed(journal') : journal'[k].op = n
      <4>1. answer[n] = "ok"
        BY <2>7, <2>8, <3>1
      <4>2. PICK k \in Completed(journal) : journal[k].op = n
        BY <4>1 DEF Told, Recorded
      <4> QED BY <2>4, <4>2 DEF Completed
    <3> QED BY <3>1 DEF Recorded
  <2> QED BY <2>9, <2>10, <2>11, <2>12 DEF Told
<1>3. ASSUME NEW i \in Inst, Complete(i) PROVE Told'
  <2> DEFINE m == Head(mailbox[i])
             n == Len(journal)
  <2>1. /\ mailbox[i] # <<>> /\ state[i] = "run" /\ job[i] = n /\ m.op # 0 /\ n > 0 /\ n \in Nat
        /\ journal[n].op = m.op /\ ~journal[n].ok /\ UNCHANGED <<issued, bad>>
        /\ journal' = [journal EXCEPT ![n].ok = TRUE]
        /\ job' = [job EXCEPT ![i] = 0]
    <3>1. state[i] = "run" /\ job[i] # 0
      BY <1>3 DEF Complete
    <3>2. /\ mailbox[i] # <<>> /\ job[i] = n /\ m.op # 0 /\ n > 0
          /\ journal[n].op = m.op /\ ~journal[n].ok
      BY <3>1 DEF OpenEntry
    <3>3. n \in Nat
      BY <1>1
    <3> QED BY <1>3, <3>1, <3>2, <3>3 DEF Complete, complete_op
  <2>2. /\ m.from \in Callers /\ m.op \in Op /\ m.op <= issued
        /\ call[m.from].at = "wait" /\ call[m.from].op = m.op /\ call[m.from].ref = i
        /\ \A d \in Callers \ {m.from} : call[d].at # "idle" => call[d].op # m.op
    BY <2>1, HeadOf
  <2> HIDE DEF m
  <2>3. /\ answer' = [answer EXCEPT ![m.op] = "ok"] /\ call' = [call EXCEPT ![m.from].at = "idle"]
    BY <1>3, <2>1 DEF Complete, Answered, m
  <2>4. /\ DOMAIN journal' = DOMAIN journal /\ n \in DOMAIN journal
        /\ \A k \in DOMAIN journal : journal'[k].op = journal[k].op /\ (k # n => journal'[k] = journal[k])
        /\ journal'[n].ok = TRUE
    <3>1. DOMAIN journal = 1 .. n /\ \A k \in DOMAIN journal : journal[k] \in Entry
      BY <1>1
    <3> QED BY <2>1, <3>1 DEF Entry
  <2> HIDE DEF n
  <2>5. Unanswered'
    <3>1. \A p \in Op : p > issued' => answer'[p] = "none"
      BY <1>1, <2>1, <2>2, <2>3 DEF Told, Unanswered
    <3>2. ASSUME NEW d \in Callers, call'[d].at # "idle", call'[d].op # 0 PROVE answer'[call'[d].op] = "none"
      <4>1. d # m.from /\ call'[d] = call[d]
        BY <2>2, <2>3, <3>2, IdleCaller
      <4>2. call[d].op # m.op /\ answer[call[d].op] = "none"
        BY <2>2, <3>2, <4>1 DEF Told, Unanswered
      <4> QED BY <1>1, <2>2, <2>3, <4>1, <4>2
    <3> QED BY <3>1, <3>2 DEF Unanswered
  <2>6. ASSUME NEW k \in DOMAIN journal' PROVE EntryOf(k)'
    <3>1. k \in DOMAIN journal /\ journal'[k].op = journal[k].op /\ EntryOf(k) /\ journal[k].op \in Op
      BY <2>4, <2>6, EntryType DEF Told
    <3>2. CASE k = n
      BY <1>1, <2>1, <2>2, <2>3, <2>4, <3>1, <3>2 DEF EntryOf
    <3>3. CASE k # n
      <4>1. journal'[k] = journal[k] /\ journal[k].op # m.op
        BY <2>1, <2>4, <3>1, <3>3 DEF Told, Distinct
      <4>2. answer'[journal[k].op] = answer[journal[k].op]
        BY <1>1, <2>3, <3>1, <4>1
      <4>3. \A j \in Inst : job[j] # k
        <5>1. k # 0
          BY <1>1, <3>1
        <5> QED BY <3>3, <5>1 DEF OpenEntry, n
      <4> QED BY <2>1, <3>1, <4>1, <4>2, <4>3 DEF EntryOf
    <3> QED BY <3>2, <3>3
  <2>7. Distinct'
    BY <2>4 DEF Told, Distinct
  <2>8. Recorded'
    <3>1. ASSUME NEW p \in Op, answer'[p] = "ok" PROVE \E k \in Completed(journal') : journal'[k].op = p
      <4>1. CASE p = m.op
        BY <2>1, <2>4, <4>1 DEF Completed
      <4>2. CASE p # m.op
        <5>1. answer[p] = "ok"
          BY <1>1, <2>3, <3>1, <4>2
        <5>2. PICK k \in Completed(journal) : journal[k].op = p
          BY <5>1 DEF Told, Recorded
        <5> QED BY <2>1, <2>4, <4>2, <5>2 DEF Completed
      <4> QED BY <4>1, <4>2
    <3> QED BY <3>1 DEF Recorded
  <2> QED BY <2>5, <2>6, <2>7, <2>8 DEF Told
<1>4. ASSUME NEW i \in Inst, Summary(i) PROVE Told'
  <2>1. mailbox[i] # <<>> /\ UNCHANGED <<journal, job, issued, bad, answer>>
    BY <1>4 DEF Summary, Takes, Answered
  <2>2. /\ Head(mailbox[i]).from \in Callers
        /\ call' = [call EXCEPT ![Head(mailbox[i]).from].at = "idle"]
    BY <1>4, <2>1, HeadOf DEF Summary, Answered
  <2>3. Unanswered'
    BY <2>1, <2>2, IdleCaller, SMTT(30) DEF Told, Unanswered
  <2> QED BY <1>1, <2>1, <2>3, ToldKept
<1>5. ASSUME NEW i \in Inst, Finish(i) PROVE Told'
  <2>1. /\ state[i] = "finish" /\ UNCHANGED <<journal, job, issued, bad>>
        /\ \A c \in Callers : call'[c] = IF Left(i, c) THEN [call[c] EXCEPT !.at = "idle"] ELSE call[c]
        /\ \A n \in Op : answer'[n] = IF LeftOp(i, n) THEN "dropped" ELSE answer[n]
    BY <1>5 DEF Finish
  <2>2. ASSUME NEW n \in Op, LeftOp(i, n)
        PROVE  \E c \in Callers : Left(i, c) /\ call[c].op = n /\ call[c].at = "wait" /\ call[c].ref = i
    <3>1. PICK k \in DOMAIN mailbox[i] : mailbox[i][k].op = n
      BY <2>2 DEF LeftOp
    <3>2. MessageOf(i, k) /\ mailbox[i][k].from \in Callers
      BY MailType DEF Custody
    <3> QED BY <3>1, <3>2 DEF MessageOf, Left
  <2>3. ASSUME NEW n \in Op, LeftOp(i, n)
        PROVE  n <= issued /\ answer[n] = "none" /\ \A k \in DOMAIN journal : journal[k].op # n
    <3>1. PICK c \in Callers : call[c].op = n /\ call[c].at = "wait" /\ call[c].ref = i
      BY <2>2, <2>3
    <3>2. CallerOf(c) /\ n # 0
      BY OpFacts DEF Custody
    <3>3. n <= issued /\ answer[n] = "none"
      BY <3>1, <3>2 DEF CallerOf, Told, Unanswered
    <3> QED BY <2>1, <3>1, <3>3, Fresh
  <2>4. Unanswered'
    <3>1. \A n \in Op : n > issued' => answer'[n] = "none"
      BY <1>1, <2>1, <2>3, OpFacts DEF Told, Unanswered
    <3>2. ASSUME NEW d \in Callers, call'[d].at # "idle", call'[d].op # 0 PROVE answer'[call'[d].op] = "none"
      <4>1. ~Left(i, d) /\ call'[d] = call[d]
        BY <2>1, <3>2, ZenonT(30) DEF TypeOK, Call
      <4>2. call[d].op \in Op
        BY <3>2, <4>1 DEF TypeOK, Call
      <4>3. ~LeftOp(i, call[d].op)
        <5>1. ASSUME LeftOp(i, call[d].op) PROVE FALSE
          <6>1. PICK c \in Callers : Left(i, c) /\ call[c].op = call[d].op /\ call[c].at = "wait"
            BY <2>2, <4>2, <5>1
          <6> QED BY <3>2, <4>1, <6>1 DEF Custody, CallerOf
        <5> QED BY <5>1
      <4> QED BY <2>1, <3>2, <4>1, <4>2, <4>3 DEF Told, Unanswered
    <3> QED BY <3>1, <3>2 DEF Unanswered
  <2>5. \A n \in Op : \/ answer'[n] = answer[n]
                      \/ answer'[n] # "ok" /\ answer[n] # "ok" /\ \A k \in DOMAIN journal : journal[k].op # n
    BY <2>1, <2>3
  <2> QED BY <1>1, <2>1, <2>4, <2>5, ToldKept
<1>6. ASSUME NEW c \in Callers, SendFails(c) PROVE Told'
  <2>1. /\ call[c].at = "held" /\ UNCHANGED <<journal, job, issued, bad>>
        /\ call' = [call EXCEPT ![c].at = "idle"]
        /\ answer' = IF call[c].op = 0 THEN answer ELSE [answer EXCEPT ![call[c].op] = "unsent"]
    BY <1>6 DEF SendFails, Answered, calcVars
  <2>2. call'[c].at = "idle" /\ \A d \in Callers \ {c} : call'[d] = call[d]
    BY <2>1, IdleCaller
  <2>3. CallerOf(c) /\ call[c].op <= issued
    BY <2>1 DEF Custody, CallerOf
  <2>4. \A n \in Op : n # call[c].op => answer'[n] = answer[n]
    BY <1>1, <2>1
  <2>5. \A n \in Op : n = call[c].op => answer'[n] = "unsent" /\ answer[n] = "none"
    BY <1>1, <2>1, OpFacts DEF Told, Unanswered
  <2>6. Unanswered'
    <3>1. \A n \in Op : n > issued' => answer'[n] = "none"
      BY <1>1, <2>1, <2>3, <2>4, OpFacts DEF Told, Unanswered
    <3>2. ASSUME NEW d \in Callers, call'[d].at # "idle", call'[d].op # 0 PROVE answer'[call'[d].op] = "none"
      <4>1. call'[d] = call[d] /\ d # c
        BY <2>2, <3>2
      <4>2. call[d].op \in Op
        BY <3>2, <4>1 DEF TypeOK, Call
      <4>3. call[d].op # call[c].op
        BY <2>1, <2>3, <3>2, <4>1 DEF CallerOf
      <4> QED BY <2>4, <3>2, <4>1, <4>2, <4>3 DEF Told, Unanswered
    <3> QED BY <3>1, <3>2 DEF Unanswered
  <2>7. \A k \in DOMAIN journal : journal[k].op # call[c].op
    BY <2>1, Fresh
  <2>8. \A n \in Op : \/ answer'[n] = answer[n]
                      \/ answer'[n] # "ok" /\ answer[n] # "ok" /\ \A k \in DOMAIN journal : journal[k].op # n
    BY <2>4, <2>5, <2>7
  <2> QED BY <1>1, <2>1, <2>6, <2>8, ToldKept
<1>7. ASSUME NEW c \in Callers, Request(c) PROVE Told'
  <2>1. /\ UNCHANGED <<journal, job, answer>> /\ issued' = issued + 1 /\ bad \subseteq bad'
        /\ call'[c].op = issued + 1 /\ issued + 1 \in Op
        /\ \A d \in Callers \ {c} : call'[d] = call[d]
    BY <1>1, <1>7, JournalAssumption DEF Request, TypeOK, calcVars, Op
  <2>2. Unanswered'
    <3>1. answer[issued + 1] = "none"
      BY <1>1, <2>1 DEF Told, Unanswered
    <3>2. \A n \in Op : n > issued' => answer'[n] = "none"
      BY <1>1, <2>1, OpFacts DEF Told, Unanswered
    <3>3. ASSUME NEW d \in Callers, call'[d].at # "idle", call'[d].op # 0 PROVE answer'[call'[d].op] = "none"
      BY <2>1, <3>1, <3>3 DEF Told, Unanswered
    <3> QED BY <3>2, <3>3 DEF Unanswered
  <2> QED BY <1>1, <2>1, <2>2, ToldKept
<1>8. ASSUME Tick PROVE Told'
  <2>1. /\ UNCHANGED <<journal, job, answer, issued, bad>> /\ call'[Timer].op = 0
        /\ \A d \in Callers \ {Timer} : call'[d] = call[d]
    BY <1>8 DEF Tick, TypeOK, calcVars, Callers
  <2>2. Unanswered'
    BY <2>1 DEF Told, Unanswered
  <2> QED BY <1>1, <2>1, <2>2, ToldKept
<1>9. ASSUME NEW c \in Callers, SendRequest(c) PROVE Told'
  <2>1. /\ UNCHANGED <<journal, job, answer, issued, bad>> /\ call[c].at = "held"
        /\ call'[c].op = call[c].op /\ \A d \in Callers \ {c} : call'[d] = call[d]
    BY <1>9 DEF SendRequest, TypeOK, Call
  <2>2. Unanswered'
    BY <2>1 DEF Told, Unanswered
  <2> QED BY <1>1, <2>1, <2>2, ToldKept
<1>10. ASSUME UNCHANGED <<journal, job, answer, issued, bad, call>> PROVE Told'
  BY <1>1, <1>10, ToldKept, SMTT(30) DEF Told, Unanswered
<1>11. ASSUME NEW i \in Inst, PreStart(i) \/ Notify(i) \/ TakeStop(i) PROVE Told'
  BY <1>10, <1>11 DEF PreStart, Notify, TakeStop, callVars
<1>12. ASSUME RestartChild \/ StopTimer \/ TimerJoined \/ StopCalc \/ UNCHANGED vars PROVE Told'
  BY <1>10, <1>12 DEF RestartChild, StopTimer, TimerJoined, StopCalc, vars, calcVars, callVars
<1> HIDE InstFacts
<1> QED
  BY <1>2, <1>3, <1>4, <1>5, <1>6, <1>7, <1>8, <1>9, <1>11, <1>12 DEF Next, Calculator, Caller

-----------------------------------------------------------------------------
(* Crashes and restarts                                                    *)

AtWork(st, jb) == {i \in Inst : st[i] = "notify" \/ jb[i] # 0}

Working == AtWork(state, job)

Counted == Cardinality(Pending(journal)) = (slot - 1) + Len(signals) + Cardinality(Working)

LEMMA CountedInit == Init => Counted
<1> SUFFICES ASSUME Init PROVE Counted
  OBVIOUS
<1>1. Pending(journal) = {}
  BY DEF Init, Pending
<1>2. Working = {}
  BY DEF Init, Working, AtWork
<1>3. slot = 1 /\ Len(signals) = 0
  BY DEF Init
<1>4. Cardinality(Pending(journal)) = 0 /\ Cardinality(Working) = 0
  BY <1>1, <1>2, FS_EmptySet
<1> QED BY <1>3, <1>4 DEF Counted

\* At most the instance in the slot is at work or about to signal its crash.
LEMMA WorkingCount ==
  ASSUME NEW st, NEW jb, NEW s \in Inst, \A i \in Inst : st[i] = "notify" \/ jb[i] # 0 => i = s
  PROVE  Cardinality(AtWork(st, jb)) = IF st[s] = "notify" \/ jb[s] # 0 THEN 1 ELSE 0
<1>1. CASE st[s] = "notify" \/ jb[s] # 0
  <2>1. AtWork(st, jb) = {s}
    BY <1>1 DEF AtWork
  <2> QED BY <1>1, <2>1, FS_Singleton
<1>2. CASE ~(st[s] = "notify" \/ jb[s] # 0)
  <2>1. AtWork(st, jb) = {}
    BY <1>2 DEF AtWork
  <2> QED BY <1>2, <2>1, FS_EmptySet
<1> QED BY <1>1, <1>2

\* What is pending in a journal, when an entry is started and when the last one
\* is completed.
LEMMA PendingCount ==
  ASSUME NEW j \in Seq(Entry)
  PROVE  /\ Cardinality(Pending(j)) \in Nat
         /\ \A n \in Op : Cardinality(Pending(Append(j, [op |-> n, ok |-> FALSE])))
                            = Cardinality(Pending(j)) + 1
         /\ Len(j) > 0 /\ ~j[Len(j)].ok =>
              Cardinality(Pending([j EXCEPT ![Len(j)].ok = TRUE])) = Cardinality(Pending(j)) - 1
<1>1. IsFiniteSet(Pending(j)) /\ Cardinality(Pending(j)) \in Nat
  <2>1. Len(j) \in Nat /\ DOMAIN j = 1 .. Len(j)
    OBVIOUS
  <2>2. IsFiniteSet(DOMAIN j)
    BY <2>1, FS_Interval
  <2>3. Pending(j) \subseteq DOMAIN j
    BY DEF Pending
  <2> QED BY <2>2, <2>3, FS_Subset, FS_CardinalityType
<1>2. ASSUME NEW n \in Op
      PROVE  Cardinality(Pending(Append(j, [op |-> n, ok |-> FALSE]))) = Cardinality(Pending(j)) + 1
  <2> DEFINE e == [op |-> n, ok |-> FALSE]
             jj == Append(j, e)
  <2>1. e \in Entry
    BY DEF Entry
  <2>2. /\ DOMAIN jj = DOMAIN j \cup {Len(j) + 1} /\ jj[Len(j) + 1] = e
        /\ \A k \in DOMAIN j : jj[k] = j[k] /\ k # Len(j) + 1
    BY <2>1, Positions
  <2> HIDE DEF jj
  <2>3. Pending(jj) = Pending(j) \cup {Len(j) + 1} /\ Len(j) + 1 \notin Pending(j)
    BY <2>2 DEF Pending
  <2>4. Cardinality(Pending(jj)) = Cardinality(Pending(j)) + 1
    BY <1>1, <2>3, FS_AddElement
  <2> QED BY <2>4 DEF jj
<1>3. ASSUME Len(j) > 0, ~j[Len(j)].ok
      PROVE  Cardinality(Pending([j EXCEPT ![Len(j)].ok = TRUE])) = Cardinality(Pending(j)) - 1
  <2> DEFINE n == Len(j)
             jj == [j EXCEPT ![n].ok = TRUE]
  <2>1. n \in Nat /\ DOMAIN j = 1 .. n /\ \A k \in DOMAIN j : j[k] \in Entry
    OBVIOUS
  <2>2. DOMAIN jj = DOMAIN j /\ n \in DOMAIN j /\ jj[n].ok = TRUE /\ \A k \in DOMAIN j : k # n => jj[k] = j[k]
    BY <1>3, <2>1 DEF Entry
  <2> HIDE DEF jj
  <2>3. Pending(jj) = Pending(j) \ {n} /\ n \in Pending(j)
    BY <1>3, <2>2 DEF Pending
  <2>4. Cardinality(Pending(jj)) = Cardinality(Pending(j)) - 1
    BY <1>1, <2>3, FS_RemoveElement
  <2> QED BY <2>4 DEF jj
<1> QED BY <1>1, <1>2, <1>3

\* Each interrupted entry has cost a restart, waits as a signal, or is at work.
LEMMA CountedStep ==
  IInv /\ Custody /\ Counted /\ [Next]_vars => Counted'
<1> SUFFICES ASSUME IInv, TypeOK, Serial, OpenEntry, Custody, Counted, [Next]_vars PROVE Counted'
  BY DEF IInv
<1> DEFINE Busy(st, jb, s) == st[s] = "notify" \/ jb[s] # 0
<1>1. TypeOK' /\ Serial' /\ OpenEntry'
  BY TypeStep, SerialStep, OpenEntryStep
<1>2. Cardinality(Working) = IF Busy(state, job, slot) THEN 1 ELSE 0
  <2>1. slot \in Inst /\ \A i \in Inst : state[i] = "notify" \/ job[i] # 0 => i = slot
    BY DEF Serial, OpenEntry, TypeOK
  <2> QED BY <2>1, WorkingCount DEF Working
<1>3. Cardinality(Working') = IF Busy(state', job', slot') THEN 1 ELSE 0
  <2>1. slot' \in Inst /\ \A i \in Inst : state'[i] = "notify" \/ job'[i] # 0 => i = slot'
    BY <1>1 DEF Serial, OpenEntry, TypeOK
  <2> QED BY <2>1, WorkingCount DEF Working
<1>4. slot \in Nat /\ Len(signals) \in Nat /\ Cardinality(Pending(journal)) \in Nat /\ journal \in Seq(Entry)
  <2>1. slot \in Nat /\ Len(signals) \in Nat /\ journal \in Seq(Entry)
    BY InstFacts DEF TypeOK
  <2> QED BY <2>1, PendingCount
<1>5. ASSUME UNCHANGED <<journal, slot, signals>>, Busy(state', job', slot) <=> Busy(state, job, slot)
      PROVE  Counted'
  BY <1>2, <1>3, <1>5 DEF Counted
<1>6. ASSUME NEW i \in Inst, RunOp(i) \/ Panic(i) PROVE Counted'
  <2>1. /\ state[i] = "run" /\ job[i] = 0 /\ mailbox[i] # <<>> /\ Head(mailbox[i]).op # 0
        /\ journal' = Append(journal, [op |-> Head(mailbox[i]).op, ok |-> FALSE])
        /\ UNCHANGED <<slot, signals>> /\ (job'[i] # 0 \/ state'[i] = "notify")
    <3>1. 0 \notin bad
      BY JournalAssumption DEF TypeOK, Op
    <3> QED BY <1>4, <1>6, <3>1, SMTT(30) DEF RunOp, Panic, Takes, Idle, start_op, TypeOK
  <2>2. i = slot /\ ~Busy(state, job, slot) /\ Busy(state', job', slot')
    BY <2>1 DEF Serial
  <2>3. Head(mailbox[i]).op \in Op
    BY <2>1, HeadOf
  <2>4. Cardinality(Pending(journal')) = Cardinality(Pending(journal)) + 1
    BY <1>4, <2>1, <2>3, PendingCount
  <2> QED BY <1>2, <1>3, <1>4, <2>1, <2>2, <2>4 DEF Counted
<1>7. ASSUME NEW i \in Inst, Complete(i) PROVE Counted'
  <2>1. /\ state[i] = "run" /\ job[i] # 0 /\ journal' = [journal EXCEPT ![job[i]].ok = TRUE]
        /\ UNCHANGED <<slot, signals, state>> /\ job'[i] = 0
    BY <1>7 DEF Complete, complete_op, TypeOK
  <2>2. job[i] = Len(journal) /\ Len(journal) > 0 /\ ~journal[Len(journal)].ok
    BY <2>1 DEF OpenEntry
  <2>3. i = slot /\ Busy(state, job, slot) /\ ~Busy(state', job', slot')
    BY <2>1 DEF Serial
  <2>4. Cardinality(Pending(journal')) = Cardinality(Pending(journal)) - 1
    BY <1>4, <2>1, <2>2, PendingCount
  <2> QED BY <1>2, <1>3, <1>4, <2>1, <2>3, <2>4 DEF Counted
<1>8. ASSUME NEW i \in Inst, Notify(i) PROVE Counted'
  <2>1. /\ state[i] = "notify" /\ state'[i] = "finish" /\ UNCHANGED <<journal, slot, job>>
        /\ signals' = Append(signals, i)
    BY <1>8 DEF Notify, TypeOK
  <2>2. Len(signals') = Len(signals) + 1
    BY <2>1 DEF TypeOK
  <2>3. i = slot /\ Busy(state, job, slot) /\ ~Busy(state', job', slot')
    BY <2>1 DEF Serial, OpenEntry
  <2> QED BY <1>2, <1>3, <1>4, <2>1, <2>2, <2>3 DEF Counted
<1>9. ASSUME RestartChild PROVE Counted'
  <2>1. /\ signals # <<>> /\ Head(signals) = slot /\ slot + 1 \in Inst /\ slot' = slot + 1
        /\ signals' = Tail(signals) /\ state'[slot + 1] = "starting" /\ UNCHANGED <<journal, job>>
    BY <1>9 DEF RestartChild, TypeOK
  <2>2. Len(signals') = Len(signals) - 1 /\ 1 \in 1 .. Len(signals) /\ signals[1] = slot
    BY <2>1, SMTT(30) DEF TypeOK
  <2>3. state[slot] \in {"finish", "dead"} /\ job[slot] = 0
    BY <2>2 DEF Serial, OpenEntry, TypeOK
  <2>4. job[slot + 1] = 0
    BY <1>4, <2>1 DEF Serial, OpenEntry
  <2>5. ~Busy(state, job, slot) /\ ~Busy(state', job', slot')
    BY <2>1, <2>3, <2>4
  <2> QED BY <1>2, <1>3, <1>4, <2>1, <2>2, <2>5 DEF Counted
<1>10. ASSUME NEW i \in Inst, PreStart(i) \/ Summary(i) \/ TakeStop(i) \/ Finish(i) PROVE Counted'
  <2>1. UNCHANGED <<journal, slot, signals, job>>
    BY <1>10 DEF PreStart, Summary, TakeStop, Finish
  <2>2. \A j \in Inst : state'[j] = "notify" <=> state[j] = "notify"
    BY <1>10 DEF PreStart, Summary, TakeStop, Finish, Idle, TypeOK
  <2> QED BY <1>5, <2>1, <2>2 DEF TypeOK
<1>11. ASSUME NEW c \in Callers, Caller(c) PROVE Counted'
  BY <1>5, <1>11 DEF Caller, Request, SendRequest, SendFails, calcVars
<1>12. ASSUME Tick \/ StopTimer \/ TimerJoined \/ StopCalc \/ UNCHANGED vars PROVE Counted'
  BY <1>5, <1>12 DEF Tick, StopTimer, TimerJoined, StopCalc, vars, calcVars
<1> QED
  BY <1>6, <1>7, <1>8, <1>9, <1>10, <1>11, <1>12 DEF Next, Calculator

-----------------------------------------------------------------------------
(* What callers are told                                                   *)

LEMMA AnswerInvariance == Spec => [](IInv /\ Custody /\ Told /\ Counted)
<1>1. Init => Custody /\ Told /\ Counted
  BY CustodyInit, ToldInit, CountedInit
<1>2. IInv /\ Custody /\ Told /\ Counted /\ [Next]_vars => (Custody /\ Told /\ Counted)'
  BY CustodyStep, ToldStep, CountedStep DEF IInv
<1> QED BY <1>1, <1>2, Invariance, PTL DEF Spec

\* Whatever crashes between the two writes of run_op and however callers race
\* with the restart, no operation is written down twice, and the callers that
\* were told Ok are exactly those whose operation the journal completed.
THEOREM AnswersMatchJournal == Spec => []AnswerMatchesJournal
<1>1. IInv /\ Told => AnswerMatchesJournal
  <2> SUFFICES ASSUME TypeOK, Told PROVE AnswerMatchesJournal
    BY DEF IInv
  <2>1. ASSUME NEW k \in Completed(journal) PROVE answer[journal[k].op] = "ok"
    BY <2>1 DEF Told, EntryOf, Completed
  <2> QED BY <2>1 DEF AnswerMatchesJournal, Told, Distinct, Recorded
<1> QED BY <1>1, AnswerInvariance, PTL

\* Every interrupted entry is a division by zero whose caller was told, or the
\* entry at work, and each of the former has cost or is about to cost exactly
\* one restart.
THEOREM CrashesMatch == Spec => []CrashesMatchJournal
<1>1. IInv /\ Told /\ Counted => CrashesMatchJournal
  <2> SUFFICES ASSUME TypeOK, OpenEntry, Told, Counted PROVE CrashesMatchJournal
    BY DEF IInv
  <2>1. ASSUME NEW k \in Pending(journal)
        PROVE  \/ journal[k].op \in bad /\ answer[journal[k].op] = "dropped"
               \/ k = Len(journal) /\ \E i \in Inst : job[i] = k
    <3>1. k \in DOMAIN journal /\ EntryOf(k) /\ ~journal[k].ok
      BY <2>1 DEF Told, Pending
    <3>2. k # 0
      <4>1. journal \in Seq(Entry)
        BY DEF TypeOK
      <4> QED BY <3>1, <4>1
    <3> QED BY <3>1, <3>2 DEF EntryOf, OpenEntry
  <2> QED BY <2>1 DEF CrashesMatchJournal, Counted, Working, AtWork
<1> QED BY <1>1, AnswerInvariance, PTL
=============================================================================
