--------------------------- MODULE DeadlockProofs ---------------------------
(***************************************************************************)
(* The deadlock-prevention program for every number of ticks and           *)
(* generations: main comes through its script without an error, a probe    *)
(* main was told of is in the journal or on its way there and nothing else *)
(* is, and a timer has one tick under way.  The argument splits every run  *)
(* into calm and storm: a storm begins when a calculator takes up a probe  *)
(* and ends with main's next sleep.                                        *)
(***************************************************************************)
EXTENDS DeadlockApp, ChannelLemmas, FiniteSetTheorems, SequenceTheorems, TLAPS

-----------------------------------------------------------------------------
(* Messages in a mailbox                                                   *)

Has(q, S) == \E k \in DOMAIN q : q[k] \in S

Only(q, S) == \A k \in DOMAIN q : q[k] \in S

Once(q, S) == \A k, l \in DOMAIN q : q[k] \in S /\ q[l] \in S => k = l

\* What a send does to a mailbox.
LEMMA SendFacts ==
  ASSUME NEW q \in Seq(Msg), NEW m \in Msg, NEW S
  PROVE  /\ Append(q, m) \in Seq(Msg)
         /\ Has(Append(q, m), S) <=> Has(q, S) \/ m \in S
         /\ Only(q, S) /\ m \in S => Only(Append(q, m), S)
         /\ Once(q, S) /\ m \notin S => Once(Append(q, m), S)
         /\ ~Has(q, S) => Once(Append(q, m), S)
<1> DEFINE r == Append(q, m)
<1>1. /\ r \in Seq(Msg) /\ Len(q) \in Nat /\ DOMAIN q = 1 .. Len(q) /\ DOMAIN r = 1 .. Len(q) + 1
      /\ \A k \in DOMAIN q : r[k] = q[k]
      /\ r[Len(q) + 1] = m
  BY Push
<1>2. DOMAIN r = DOMAIN q \cup {Len(q) + 1} /\ Len(q) + 1 \notin DOMAIN q
  BY <1>1
<1> HIDE DEF r
<1> QED BY <1>1, <1>2 DEF Has, Only, Once, r

\* What taking the next message does to it.
LEMMA TakeFacts ==
  ASSUME NEW q \in Seq(Msg), q # <<>>, NEW S
  PROVE  /\ Tail(q) \in Seq(Msg) /\ Head(q) \in Msg
         /\ Has(q, S) <=> Has(Tail(q), S) \/ Head(q) \in S
         /\ Only(q, S) => Only(Tail(q), S) /\ Head(q) \in S
         /\ Once(q, S) => Once(Tail(q), S)
         /\ Once(q, S) /\ Head(q) \in S => ~Has(Tail(q), S)
<1> DEFINE r == Tail(q)
<1>1. /\ r \in Seq(Msg) /\ Len(q) \in Nat /\ DOMAIN q = 1 .. Len(q) /\ DOMAIN r = 1 .. Len(q) - 1
      /\ \A k \in DOMAIN r : k + 1 \in DOMAIN q /\ k + 1 # 1 /\ r[k] = q[k + 1]
      /\ Head(q) \in Msg /\ Head(q) = q[1] /\ 1 \in DOMAIN q
  BY Pop
<1>2. \A k \in DOMAIN q : k = 1 \/ (k - 1 \in DOMAIN r /\ r[k - 1] = q[k])
  BY <1>1
<1>3. \A k, l \in DOMAIN r : k + 1 = l + 1 => k = l
  BY <1>1
<1> HIDE DEF r
<1>4. Has(q, S) <=> Has(r, S) \/ Head(q) \in S
  BY <1>1, <1>2 DEF Has
<1>5. Only(q, S) => Only(r, S) /\ Head(q) \in S
  BY <1>1 DEF Only
<1>6. Once(q, S) => Once(r, S)
  BY <1>1, <1>3 DEF Once
<1>7. Once(q, S) /\ Head(q) \in S => ~Has(r, S)
  BY <1>1 DEF Once, Has
<1> QED BY <1>1, <1>4, <1>5, <1>6, <1>7 DEF r

\* An empty mailbox.
LEMMA EmptyFacts ==
  ASSUME NEW S
  PROVE  ~Has(<<>>, S) /\ Only(<<>>, S) /\ Once(<<>>, S) /\ <<>> \in Seq(Msg)
BY DEF Has, Only, Once

-----------------------------------------------------------------------------
(* Constants                                                               *)

\* An instance is a child and its generation; main and nobody are none.
LEMMA InstFacts ==
  /\ \A i \in Inst : i[1] \in Child /\ i[2] \in 1 .. MaxGen /\ i = <<i[1], i[2]>>
  /\ \A c \in Child, g \in 1 .. MaxGen : <<c, g>> \in Inst /\ <<c, g>>[1] = c /\ <<c, g>>[2] = g
  /\ Main \notin Inst /\ Nobody \notin Inst /\ Main # Nobody
BY DEF Inst, Main, Nobody, Child

\* The current instance of a child.
LEMMA CurrentFacts ==
  ASSUME gen \in [Child -> 1 .. MaxGen]
  PROVE  /\ \A c \in Child : Current(c) \in Inst /\ Current(c)[1] = c /\ Current(c)[2] = gen[c]
         /\ \A i \in Inst : i = Current(i[1]) <=> i[2] = gen[i[1]]
BY InstFacts DEF Current

\* Two sequences joined.
LEMMA Joined ==
  ASSUME NEW S, NEW s \in Seq(S), NEW t \in Seq(S)
  PROVE  /\ s \o t \in Seq(S) /\ Len(s \o t) = Len(s) + Len(t)
         /\ \A k \in 1 .. Len(s) : (s \o t)[k] = s[k]
         /\ \A k \in 1 .. Len(t) : (s \o t)[Len(s) + k] = t[k]
<1>0. Len(s) \in Nat /\ Len(t) \in Nat
  BY LenProperties
<1>1. /\ s \o t \in Seq(S) /\ Len(s \o t) = Len(s) + Len(t)
      /\ \A k \in 1 .. Len(s) + Len(t) : (s \o t)[k] = IF k <= Len(s) THEN s[k] ELSE t[k - Len(s)]
  BY ConcatProperties
<1>2. \A k \in 1 .. Len(s) : k \in 1 .. Len(s) + Len(t) /\ k <= Len(s)
  BY <1>0
<1>3. \A k \in 1 .. Len(t) :
        Len(s) + k \in 1 .. Len(s) + Len(t) /\ ~(Len(s) + k <= Len(s)) /\ (Len(s) + k) - Len(s) = k
  BY <1>0
<1> QED BY <1>1, <1>2, <1>3

\* The four parts main's script is joined from.
LEMMA JoinedFour ==
  ASSUME NEW S, NEW A \in Seq(S), NEW B \in Seq(S), NEW C \in Seq(S), NEW D \in Seq(S),
         NEW x, x = A \o B \o C \o D
  PROVE  /\ Len(x) = Len(A) + Len(B) + Len(C) + Len(D)
         /\ \A k \in 1 .. Len(A) : x[k] = A[k]
         /\ \A k \in 1 .. Len(B) : x[Len(A) + k] = B[k]
         /\ \A k \in 1 .. Len(C) : x[Len(A) + Len(B) + k] = C[k]
         /\ \A k \in 1 .. Len(D) : x[Len(A) + Len(B) + Len(C) + k] = D[k]
<1>0. Len(A) \in Nat /\ Len(B) \in Nat /\ Len(C) \in Nat /\ Len(D) \in Nat
  BY LenProperties
<1>1. PICK y \in Seq(S) : /\ y = A \o B /\ Len(y) = Len(A) + Len(B)
                          /\ \A k \in 1 .. Len(A) : y[k] = A[k]
                          /\ \A k \in 1 .. Len(B) : y[Len(A) + k] = B[k]
  <2>1. /\ A \o B \in Seq(S) /\ Len(A \o B) = Len(A) + Len(B)
        /\ \A k \in 1 .. Len(A) : (A \o B)[k] = A[k]
        /\ \A k \in 1 .. Len(B) : (A \o B)[Len(A) + k] = B[k]
    BY Joined
  <2> QED BY <2>1, Zenon
<1>2. PICK z \in Seq(S) : /\ z = y \o C /\ Len(z) = Len(y) + Len(C)
                          /\ \A k \in 1 .. Len(y) : z[k] = y[k]
                          /\ \A k \in 1 .. Len(C) : z[Len(y) + k] = C[k]
  <2>1. /\ y \o C \in Seq(S) /\ Len(y \o C) = Len(y) + Len(C)
        /\ \A k \in 1 .. Len(y) : (y \o C)[k] = y[k]
        /\ \A k \in 1 .. Len(C) : (y \o C)[Len(y) + k] = C[k]
    BY Joined
  <2> QED BY <2>1, Zenon
<1>3. /\ Len(z \o D) = Len(z) + Len(D)
      /\ \A k \in 1 .. Len(z) : (z \o D)[k] = z[k]
      /\ \A k \in 1 .. Len(D) : (z \o D)[Len(z) + k] = D[k]
  BY Joined
<1>4. /\ Len(x) = Len(z) + Len(D)
      /\ \A k \in 1 .. Len(z) : x[k] = z[k]
      /\ \A k \in 1 .. Len(D) : x[Len(z) + k] = D[k]
  BY <1>1, <1>2, <1>3, Zenon
<1>5. \A k \in 1 .. Len(A) : k \in 1 .. Len(y) /\ k \in 1 .. Len(z)
  BY <1>0, <1>1, <1>2
<1>6. \A k \in 1 .. Len(B) : Len(A) + k \in 1 .. Len(y) /\ Len(A) + k \in 1 .. Len(z)
  BY <1>0, <1>1, <1>2
<1>7. \A k \in 1 .. Len(C) : Len(y) + k \in 1 .. Len(z)
  BY <1>0, <1>1, <1>2
<1> HIDE <1>1, <1>2, <1>3
<1> QED BY <1>0, <1>1, <1>2, <1>4, <1>5, <1>6, <1>7

\* The script, line by line.
LEMMA ScriptFacts ==
  /\ Len(Script) = 25
  /\ \A k \in 1 .. 25 :
       /\ Script[k].op \in Probe <=> k \in {8, 14, 18}
       /\ Script[k].op \in {"add", "fast", "last"} <=> k \in {1, 2, 3, 5, 23, 24}
       /\ Script[k].op = "start" <=> k \in {4, 12, 17, 22}
       /\ Script[k].op = "sleep" <=> k \in {6, 9, 15, 19, 25}
       /\ Script[k].op = "note" <=> k \in {7, 13}
       /\ Script[k].op = "check" <=> k \in {10, 21}
       /\ Script[k].op = "journal" <=> k \in {11, 16, 20}
  /\ Script[8].op = "slow" /\ Script[14].op = "self" /\ Script[18].op = "cross"
  /\ Script[11].finds = "slow" /\ Script[16].finds = "self" /\ Script[20].finds = "cross"
<1> DEFINE A == measure_success_latencies
           B == phase1_slow_handle
           C == phase2_deadlock_prevention
           D == <<Do("sleep")>>
<1>1. /\ A \in Seq(Steps) /\ Len(A) = 3
      /\ A[1] = Do("add") /\ A[2] = Do("fast") /\ A[3] = Do("last")
  BY DEF measure_success_latencies, Do, Steps, Calls
<1>2. /\ B \in Seq(Steps) /\ Len(B) = 9
      /\ B[1] = Do("start") /\ B[2] = Do("add") /\ B[3] = Do("sleep") /\ B[4] = Do("note")
      /\ B[5] = Do("slow") /\ B[6] = Do("sleep") /\ B[7] = Do("check") /\ B[8] = Finds("slow")
      /\ B[9] = Do("start")
  BY DEF phase1_slow_handle, Do, Finds, Steps, Calls, Probe
<1>3. /\ C \in Seq(Steps) /\ Len(C) = 12
      /\ C[1] = Do("note") /\ C[2] = Do("self") /\ C[3] = Do("sleep") /\ C[4] = Finds("self")
      /\ C[5] = Do("start") /\ C[6] = Do("cross") /\ C[7] = Do("sleep") /\ C[8] = Finds("cross")
      /\ C[9] = Do("check") /\ C[10] = Do("start") /\ C[11] = Do("add") /\ C[12] = Do("fast")
  BY DEF phase2_deadlock_prevention, Do, Finds, Steps, Calls, Probe
<1>4. D \in Seq(Steps) /\ Len(D) = 1 /\ D[1] = Do("sleep")
  BY DEF Do, Steps
<1>5. Script = ((A \o B) \o C) \o D
  BY DEF Script
<1> HIDE DEF A, B, C, D
<1>a. A \in Seq(Steps) /\ B \in Seq(Steps) /\ C \in Seq(Steps) /\ D \in Seq(Steps)
  BY <1>1, <1>2, <1>3, <1>4
<1>b. Len(A) = 3 /\ Len(B) = 9 /\ Len(C) = 12 /\ Len(D) = 1
  BY <1>1, <1>2, <1>3, <1>4
<1>6. /\ Len(Script) = Len(A) + Len(B) + Len(C) + Len(D)
      /\ \A k \in 1 .. Len(A) : Script[k] = A[k]
      /\ \A k \in 1 .. Len(B) : Script[Len(A) + k] = B[k]
      /\ \A k \in 1 .. Len(C) : Script[Len(A) + Len(B) + k] = C[k]
      /\ \A k \in 1 .. Len(D) : Script[Len(A) + Len(B) + Len(C) + k] = D[k]
  BY <1>5, <1>a, JoinedFour, SMTT(30)
<1>9. /\ Len(Script) = 25
      /\ \A k \in 1 .. 3 : Script[k] = A[k]
      /\ \A k \in 1 .. 9 : Script[3 + k] = B[k]
      /\ \A k \in 1 .. 12 : Script[12 + k] = C[k]
      /\ Script[25] = D[1]
  BY <1>6, <1>b
<1>10. /\ Script[1] = A[1] /\ Script[2] = A[2] /\ Script[3] = A[3]
       /\ Script[4] = B[1] /\ Script[5] = B[2] /\ Script[6] = B[3] /\ Script[7] = B[4] /\ Script[8] = B[5]
       /\ Script[9] = B[6] /\ Script[10] = B[7] /\ Script[11] = B[8] /\ Script[12] = B[9]
       /\ Script[13] = C[1] /\ Script[14] = C[2] /\ Script[15] = C[3] /\ Script[16] = C[4]
       /\ Script[17] = C[5] /\ Script[18] = C[6] /\ Script[19] = C[7] /\ Script[20] = C[8]
       /\ Script[21] = C[9] /\ Script[22] = C[10] /\ Script[23] = C[11] /\ Script[24] = C[12]
       /\ Script[25] = D[1]
  BY <1>9
<1>11. \A k \in 1 .. 25 : \/ k = 1 \/ k = 2 \/ k = 3 \/ k = 4 \/ k = 5 \/ k = 6 \/ k = 7 \/ k = 8 \/ k = 9
                          \/ k = 10 \/ k = 11 \/ k = 12 \/ k = 13 \/ k = 14 \/ k = 15 \/ k = 16 \/ k = 17
                          \/ k = 18 \/ k = 19 \/ k = 20 \/ k = 21 \/ k = 22 \/ k = 23 \/ k = 24 \/ k = 25
  OBVIOUS
<1>12. /\ Script[1].op = "add" /\ Script[2].op = "fast" /\ Script[3].op = "last"
       /\ Script[4].op = "start" /\ Script[5].op = "add" /\ Script[6].op = "sleep" /\ Script[7].op = "note"
       /\ Script[8].op = "slow" /\ Script[9].op = "sleep" /\ Script[10].op = "check"
       /\ Script[11].op = "journal" /\ Script[12].op = "start" /\ Script[13].op = "note"
       /\ Script[14].op = "self" /\ Script[15].op = "sleep" /\ Script[16].op = "journal"
       /\ Script[17].op = "start" /\ Script[18].op = "cross" /\ Script[19].op = "sleep"
       /\ Script[20].op = "journal" /\ Script[21].op = "check" /\ Script[22].op = "start"
       /\ Script[23].op = "add" /\ Script[24].op = "fast" /\ Script[25].op = "sleep"
       /\ Script[11].finds = "slow" /\ Script[16].finds = "self" /\ Script[20].finds = "cross"
  <2>1. /\ Script[1] = Do("add") /\ Script[2] = Do("fast") /\ Script[3] = Do("last")
        /\ Script[4] = Do("start") /\ Script[5] = Do("add") /\ Script[6] = Do("sleep")
        /\ Script[7] = Do("note") /\ Script[8] = Do("slow") /\ Script[9] = Do("sleep")
        /\ Script[10] = Do("check") /\ Script[11] = Finds("slow") /\ Script[12] = Do("start")
        /\ Script[13] = Do("note") /\ Script[14] = Do("self") /\ Script[15] = Do("sleep")
        /\ Script[16] = Finds("self") /\ Script[17] = Do("start") /\ Script[18] = Do("cross")
        /\ Script[19] = Do("sleep") /\ Script[20] = Finds("cross") /\ Script[21] = Do("check")
        /\ Script[22] = Do("start") /\ Script[23] = Do("add") /\ Script[24] = Do("fast")
        /\ Script[25] = Do("sleep")
    BY <1>1, <1>2, <1>3, <1>4, <1>10
  <2>2. /\ Do("add").op = "add" /\ Do("fast").op = "fast" /\ Do("last").op = "last"
        /\ Do("start").op = "start" /\ Do("sleep").op = "sleep" /\ Do("note").op = "note"
        /\ Do("slow").op = "slow" /\ Do("check").op = "check" /\ Do("self").op = "self"
        /\ Do("cross").op = "cross" /\ Finds("slow") = [op |-> "journal", finds |-> "slow"]
        /\ Finds("self") = [op |-> "journal", finds |-> "self"]
        /\ Finds("cross") = [op |-> "journal", finds |-> "cross"]
    BY DEF Do, Finds
  <2> QED BY <2>1, <2>2
<1> QED BY <1>9, <1>11, <1>12 DEF Probe

-----------------------------------------------------------------------------
(* The inductive invariant                                                 *)

MainMsg == {m \in Msg : m.from = Main}

Ticks == {m \in Msg : m.op = "tick"}

Starts == {m \in Msg : m.op = "start"}

\* Messages of main that do not belong to its present call.
Strays == {m \in Msg : m.from = Main /\ m.op # Script[at].op}

\* The messages an instance may find in its mailbox.
Letters(i) ==
  {m \in Msg :
     /\ i[1] = "calculator" => \/ m.op \in Calls \ {"start"} /\ m.from = Main
                               \/ m.op = "ping" /\ m.from = i
                               \/ m.op = "last" /\ m.from \in Inst /\ m.from[1] # "calculator"
     /\ i[1] = "timer" => m.op \in {"start", "tick"} /\ m.from = Nobody
     /\ i[1] = "ledger" => m.op = "fetch" /\ m.from = Nobody}

\* A calculator only awaits within a probe of main, and nothing answers it.  A
\* probe that was given up is main's no more.
JobOf(i) ==
  job[i] # NoJob =>
    /\ i[1] = "calculator" =>
         /\ job[i].op \in Probe
         /\ \/ state[i] = "run" /\ job[i].from = Main /\ reply[i] = "wait"
            \/ state[i] = "stuck" /\ job[i].from = Nobody
    /\ i[1] # "calculator" =>
         /\ state[i] = "run" /\ job[i].op \notin Probe /\ job[i].from = Nobody
         /\ job[i].on \in Inst /\ job[i].on[1] = "calculator"

LifeOf(i) ==
  /\ state[i] = "unborn" <=> i[2] > gen[i[1]]
  /\ state[i] \in {"unborn", "dead"} => mailbox[i] = <<>>
  /\ i \in started => i[1] = "timer" /\ state[i] # "unborn"
  /\ Only(mailbox[i], Letters(i))
  /\ JobOf(i)

\* A child whose instance is on its way out is known to the supervisor.
Filled(c) ==
  \/ state[Current(c)] \in {"run", "stuck", "notify"}
  \/ \E k \in DOMAIN signals : signals[k] = Current(c)
  \/ c \in todo

\* The present call of main is with one actor: in its mailbox or in its hands.
CustodyOf(i) ==
  /\ Has(mailbox[i], MainMsg) => step = "wait" /\ reply[Main] = "wait" /\ i = ref
  /\ Once(mailbox[i], MainMsg)
  /\ ~Has(mailbox[i], Strays)
  /\ job[i].from = Main => step = "wait" /\ reply[Main] = "wait" /\ i = ref /\ job[i].op = Script[at].op

InMail == \E i \in Inst : Has(mailbox[i], MainMsg)

\* From the take-up of a probe to main's next sleep.
Storm == at \in {9, 15, 19} \/ (at \in {8, 14, 18} /\ step = "wait" /\ ~InMail)

CalmOf(i) ==
  /\ state[i] \notin {"stuck", "notify", "finish"}
  /\ i[1] # "timer" => job[i] = NoJob
  /\ i[1] # "timer" /\ Superseded(i) => state[i] = "dead"
  /\ i[1] = "ledger" => mailbox[i] = <<>>
  /\ i = Current(i[1]) => state[i] = "run"

Calm == signals = <<>> /\ todo = {} /\ \A i \in Inst : CalmOf(i)

\* A timer nobody has started.
Virgin(i) == i \notin started /\ ~Has(mailbox[i], Starts)

Caused ==
  \E i \in Inst :
    i[1] = "calculator" /\ (job[i] # NoJob \/ state[i] \in {"stuck", "notify"} \/ \E k \in DOMAIN signals : signals[k] = i)

\* The stuck calculator is still on its way to the supervisor, or the chain
\* has been replaced since main looked.
Healing ==
  \/ Caused
  \/ /\ "timer" \in todo \/ Virgin(Current("timer"))
     /\ "calculator" \in todo \/ gen["calculator"] > noted

\* The timer of main's phase has one tick under way.
TickOf(i) ==
  i[1] = "timer" =>
    /\ i \notin started => sleepers[i[2]] = 0 /\ ~Has(mailbox[i], Ticks) /\ job[i] = NoJob
    /\ Once(mailbox[i], Starts)
    /\ i \in started => ~Has(mailbox[i], Starts)
    /\ i \in started /\ state[i] = "run" =>
         \/ sleepers[i[2]] = 1 /\ ~Has(mailbox[i], Ticks) /\ job[i] = NoJob
         \/ sleepers[i[2]] = 0 /\ Has(mailbox[i], Ticks) /\ Once(mailbox[i], Ticks) /\ job[i] = NoJob
         \/ sleepers[i[2]] = 0 /\ ~Has(mailbox[i], Ticks) /\ job[i] # NoJob

Pos == [slow |-> 8, self |-> 14, cross |-> 18]

CallOf == IF Script[at].op = "start" THEN "timer" ELSE "calculator"

MainInv ==
  /\ ~failed
  /\ step # "wait" <=> reply[Main] = "none"
  /\ step # "ready" => at <= Len(Script) /\ Script[at].op \in Calls
  /\ step = "wait" => /\ Script[at].op # "start"
                      /\ Script[at].op \in Probe => reply[Main] # "ok"
                      /\ Script[at].op \notin Probe => reply[Main] # "dropped"
                      /\ Script[at].op = "journal" /\ reply[Main] = "ok" => Script[at].finds \in Range(copy)
  /\ step = "held" => ref = Current(CallOf)
  /\ noted <= gen["calculator"]
  /\ at = 10 \/ at \in 16 .. 21 => gen["calculator"] > noted
  /\ ~Storm /\ (at \in 1 .. 4 \/ at \in 10 .. 12 \/ at \in 16 .. 17 \/ at \in 20 .. 22) => Virgin(Current("timer"))

\* Main knows that its probe was dropped.
Told(p) == at > Pos[p] \/ (at = Pos[p] /\ reply[Main] = "dropped")

\* on_handle_stuck has the probe main gave up last, which main sleeps off.
PendingOf(i) ==
  i[1] = "calculator" /\ state[i] = "stuck" =>
    /\ job[i].op \in Probe
    /\ (at = Pos[job[i].op] /\ reply[Main] = "dropped") \/ at = Pos[job[i].op] + 1

\* The probes main knows of are journaled, except for one that is pending.
Record ==
  /\ \A p \in Probe : /\ p \in Range(journal) \/ Unjournaled(p) <=> Told(p)
                      /\ ~(p \in Range(journal) /\ Unjournaled(p))
  /\ \A i \in Inst : PendingOf(i)
  /\ \A i, j \in Inst :
       i[1] = "calculator" /\ j[1] = "calculator" /\ state[i] = "stuck" /\ state[j] = "stuck" => i = j

Life == \A i \in Inst : LifeOf(i)

Fill == \A c \in Child : Filled(c)

Custody == \A i \in Inst : CustodyOf(i)

Weather == (~Storm => Calm) /\ (Storm => Healing)

Ticking == \A i \in Inst : TickOf(i)

IInv == TypeOK /\ Life /\ Fill /\ Custody /\ Weather /\ Ticking /\ MainInv

-----------------------------------------------------------------------------
(* What the invariant says together                                        *)

\* A line of the script and what is done there.
LEMMA LineFacts ==
  ASSUME at \in 1 .. Len(Script) + 1
  PROVE  /\ Running => at \in 1 .. 25
         /\ \A k \in 1 .. 25 : /\ Script[k].op \in Calls <=> k \notin {6, 7, 9, 10, 13, 15, 19, 21, 25}
                               /\ Script[k] \in Steps
         /\ \A k \in 1 .. 25 : \A p \in Probe : Script[k].op = p <=> k = Pos[p]
         /\ Pos["slow"] = 8 /\ Pos["self"] = 14 /\ Pos["cross"] = 18
<1>1. Len(Script) = 25
  BY ScriptFacts
<1>2. Script \in Seq(Steps)
  BY BoundsAssumption
<1>3. \A k \in 1 .. 25 : Script[k] \in Steps
  <2>1. Script \in [1 .. Len(Script) -> Steps]
    BY <1>2, LenProperties
  <2> QED BY <1>1, <2>1, Zenon
<1>4. \A k \in 1 .. 25 : Script[k].op \in Calls \cup {"sleep", "note", "check"}
  BY <1>3 DEF Steps
<1>5. \A k \in 1 .. 25 : Script[k].op \in Calls <=> ~(Script[k].op \in {"sleep", "note", "check"})
  BY <1>4 DEF Calls, Probe
<1>6. \A k \in 1 .. 25 : Script[k].op \in Calls <=> k \notin {6, 7, 9, 10, 13, 15, 19, 21, 25}
  BY <1>5, ScriptFacts
<1>7. Pos["slow"] = 8 /\ Pos["self"] = 14 /\ Pos["cross"] = 18
  BY DEF Pos
<1>8. \A k \in 1 .. 25 : \A p \in Probe : Script[k].op = p <=> k = Pos[p]
  <2>1. \A k \in 1 .. 25 : Script[k].op \in Probe => k \in {8, 14, 18}
    BY ScriptFacts
  <2> QED BY <2>1, <1>7, ScriptFacts DEF Probe
<1>9. Running => at \in 1 .. 25
  BY <1>1 DEF Running
<1> QED BY <1>3, <1>6, <1>7, <1>8, <1>9

\* What the kind of a message says about the sets it is in.
LEMMA MessageFacts ==
  ASSUME NEW op \in Probe \cup Quick \cup {"fetch", "start", "tick"}, NEW from \in Inst \cup {Main, Nobody}
  PROVE  /\ Message(op, from) \in Msg /\ Message(op, from).op = op /\ Message(op, from).from = from
         /\ Message(op, from) \in Ticks <=> op = "tick"
         /\ Message(op, from) \in Starts <=> op = "start"
         /\ Message(op, from) \in MainMsg <=> from = Main
BY DEF Message, Msg, Ticks, Starts, MainMsg

\* While a message of main waits in a mailbox, nothing else is going on.
LEMMA MailFacts ==
  ASSUME IInv, InMail
  PROVE  /\ step = "wait" /\ reply[Main] = "wait" /\ at \in 1 .. 25 /\ Script[at].op \in Calls
         /\ ~Storm /\ Calm
<1>1. step = "wait" /\ reply[Main] = "wait"
  BY DEF IInv, Custody, CustodyOf, InMail
<1>2. at \in 1 .. 25 /\ Script[at].op \in Calls
  BY <1>1, ScriptFacts DEF IInv, TypeOK, MainInv
<1>3. at \notin {9, 15, 19}
  BY <1>2, LineFacts DEF IInv, TypeOK
<1>4. ~Storm
  BY <1>3 DEF Storm
<1> QED BY <1>1, <1>2, <1>4 DEF IInv, Weather

\* A calculator at an await has main's probe, alone.
LEMMA StuckFacts ==
  ASSUME IInv, NEW i \in Inst, i[1] = "calculator", job[i] # NoJob, state[i] = "run"
  PROVE  /\ step = "wait" /\ reply[Main] = "wait" /\ at \in 1 .. 25 /\ i = ref
         /\ job[i].op = Script[at].op /\ job[i].op \in Probe /\ at = Pos[job[i].op] /\ at \in {8, 14, 18}
         /\ Storm /\ ~InMail /\ reply[i] = "wait" /\ state[i] = "run" /\ job[i].from = Main
<1>1. job[i].op \in Probe /\ job[i].from = Main /\ reply[i] = "wait" /\ state[i] = "run"
  BY DEF IInv, Life, LifeOf, JobOf
<1>2. step = "wait" /\ reply[Main] = "wait" /\ i = ref /\ job[i].op = Script[at].op
  BY <1>1 DEF IInv, Custody, CustodyOf
<1>3. at \in 1 .. 25
  BY <1>2, ScriptFacts DEF IInv, TypeOK, MainInv
<1>4. at = Pos[job[i].op] /\ at \in {8, 14, 18}
  <2>1. at \in 1 .. Len(Script) + 1
    BY DEF IInv, TypeOK
  <2>2. at = Pos[job[i].op]
    BY <1>1, <1>2, <1>3, <2>1, LineFacts
  <2>3. at \in {8, 14, 18}
    BY <1>1, <1>2, <1>3, ScriptFacts
  <2> QED BY <2>2, <2>3
<1>5. Storm
  BY DEF IInv, Weather, Calm, CalmOf
<1>6. ~InMail
  BY <1>4, <1>5 DEF Storm
<1> QED BY <1>1, <1>2, <1>3, <1>4, <1>5, <1>6

\* Taking a message changes one mailbox.
LEMMA TakenFacts ==
  ASSUME TypeOK, NEW i \in Inst, mailbox[i] # <<>>
  PROVE  /\ Taken(i) \in [Inst -> Seq(Msg)] /\ Head(mailbox[i]) \in Msg
         /\ \A j \in Inst : j # i => Taken(i)[j] = mailbox[j]
         /\ Taken(i)[i] = Tail(mailbox[i])
         /\ \A j \in Inst : \A S : /\ Has(Taken(i)[j], S) => Has(mailbox[j], S)
                                   /\ Only(mailbox[j], S) => Only(Taken(i)[j], S)
                                   /\ Once(mailbox[j], S) => Once(Taken(i)[j], S)
         /\ \A S : /\ Head(mailbox[i]) \in S => Has(mailbox[i], S)
                   /\ Head(mailbox[i]) \notin S => (Has(Taken(i)[i], S) <=> Has(mailbox[i], S))
                   /\ Only(mailbox[i], S) => Head(mailbox[i]) \in S
                   /\ Once(mailbox[i], S) /\ Head(mailbox[i]) \in S => ~Has(Taken(i)[i], S)
<1>1. mailbox \in [Inst -> Seq(Msg)] /\ mailbox[i] \in Seq(Msg)
  BY DEF TypeOK
<1>2. Tail(mailbox[i]) \in Seq(Msg) /\ Head(mailbox[i]) \in Msg
  BY <1>1, TakeFacts
<1>3. /\ Taken(i) \in [Inst -> Seq(Msg)] /\ Taken(i)[i] = Tail(mailbox[i])
      /\ \A j \in Inst : j # i => Taken(i)[j] = mailbox[j]
  BY <1>1, <1>2 DEF Taken
<1>4. \A S : /\ Has(mailbox[i], S) <=> Has(Tail(mailbox[i]), S) \/ Head(mailbox[i]) \in S
             /\ Only(mailbox[i], S) => Only(Tail(mailbox[i]), S) /\ Head(mailbox[i]) \in S
             /\ Once(mailbox[i], S) => Once(Tail(mailbox[i]), S)
             /\ Once(mailbox[i], S) /\ Head(mailbox[i]) \in S => ~Has(Tail(mailbox[i]), S)
  BY <1>1, TakeFacts
<1>5. ASSUME NEW j \in Inst, NEW S
      PROVE  /\ Has(Taken(i)[j], S) => Has(mailbox[j], S)
             /\ Only(mailbox[j], S) => Only(Taken(i)[j], S)
             /\ Once(mailbox[j], S) => Once(Taken(i)[j], S)
  <2>1. CASE j = i
    BY <2>1, <1>3, <1>4
  <2>2. CASE j # i
    BY <2>2, <1>3
  <2> QED BY <2>1, <2>2
<1> QED BY <1>2, <1>3, <1>4, <1>5

\* A reply settles at most one waiter.
LEMMA SettledFacts ==
  ASSUME TypeOK, NEW w \in Inst \cup {Main, Nobody}, NEW how \in {"ok", "dropped"}
  PROVE  /\ Settled(w, how) \in [Inst \cup {Main} -> {"none", "wait", "ok", "dropped"}]
         /\ \A v \in Inst \cup {Main} : v # w => Settled(w, how)[v] = reply[v]
         /\ w = Main /\ reply[Main] = "wait" => Settled(w, how)[Main] = how
         /\ w \in Inst => Settled(w, how)[Main] = reply[Main]
BY InstFacts, SMTT(30) DEF Settled, TypeOK

\* Sending a message changes one mailbox.
LEMMA SentFacts ==
  ASSUME NEW f \in [Inst -> Seq(Msg)], NEW t \in Inst, NEW m \in Msg
  PROVE  LET g == [f EXCEPT ![t] = Append(@, m)]
         IN  /\ g \in [Inst -> Seq(Msg)]
             /\ \A j \in Inst : j # t => g[j] = f[j]
             /\ \A S : /\ Has(g[t], S) <=> Has(f[t], S) \/ m \in S
                       /\ Only(f[t], S) /\ m \in S => Only(g[t], S)
                       /\ Once(f[t], S) /\ m \notin S => Once(g[t], S)
                       /\ ~Has(f[t], S) => Once(g[t], S)
<1> DEFINE g == [f EXCEPT ![t] = Append(@, m)]
<1>1. Append(f[t], m) \in Seq(Msg)
  BY SendFacts
<1>2. g \in [Inst -> Seq(Msg)] /\ g[t] = Append(f[t], m) /\ \A j \in Inst : j # t => g[j] = f[j]
  BY <1>1
<1>3. \A S : /\ Has(Append(f[t], m), S) <=> Has(f[t], S) \/ m \in S
             /\ Only(f[t], S) /\ m \in S => Only(Append(f[t], m), S)
             /\ Once(f[t], S) /\ m \notin S => Once(Append(f[t], m), S)
             /\ ~Has(f[t], S) => Once(Append(f[t], m), S)
  BY SendFacts
<1> HIDE DEF g
<1>4. /\ g \in [Inst -> Seq(Msg)]
      /\ \A j \in Inst : j # t => g[j] = f[j]
      /\ \A S : /\ Has(g[t], S) <=> Has(f[t], S) \/ m \in S
                /\ Only(f[t], S) /\ m \in S => Only(g[t], S)
                /\ Once(f[t], S) /\ m \notin S => Once(g[t], S)
                /\ ~Has(f[t], S) => Once(g[t], S)
  BY <1>2, <1>3
<1> QED BY <1>4 DEF g

\* One more task of schedule_next sleeps.
LEMMA SleeperFacts ==
  ASSUME TypeOK, NEW i \in Inst, sleepers' = [sleepers EXCEPT ![i[2]] = @ + 1]
  PROVE  /\ sleepers' \in [1 .. MaxGen -> Nat] /\ sleepers'[i[2]] = sleepers[i[2]] + 1
         /\ sleepers[i[2]] \in Nat
         /\ \A j \in Inst : i[1] = j[1] /\ j # i => sleepers'[j[2]] = sleepers[j[2]]
<1> DEFINE g == i[2]
<1>1. g \in 1 .. MaxGen
  BY InstFacts
<1>2. \A j \in Inst : i[1] = j[1] /\ j # i => j[2] # g
  <2> TAKE j \in Inst
  <2>1. i = <<i[1], i[2]>> /\ j = <<j[1], j[2]>>
    BY InstFacts
  <2> QED BY <2>1, Zenon
<1>3. \A j \in Inst : j[2] \in 1 .. MaxGen
  BY InstFacts
<1>4. sleepers' = [sleepers EXCEPT ![g] = @ + 1]
  OBVIOUS
<1> HIDE DEF g
<1>5. /\ sleepers' \in [1 .. MaxGen -> Nat] /\ sleepers'[g] = sleepers[g] + 1 /\ sleepers[g] \in Nat
      /\ \A h \in 1 .. MaxGen : h # g => sleepers'[h] = sleepers[h]
  <2>1. sleepers \in [1 .. MaxGen -> Nat]
    BY DEF TypeOK
  <2> QED BY <1>1, <1>4, <2>1
<1>6. \A j \in Inst : i[1] = j[1] /\ j # i => sleepers'[j[2]] = sleepers[j[2]]
  BY <1>2, <1>3, <1>5, Zenon
<1> QED BY <1>5, <1>6 DEF g

-----------------------------------------------------------------------------
(* Parts of the invariant a step does not touch                            *)

\* Slots stay filled when no instance ends, is spawned or is signalled.
LEMMA FillFrame ==
  ASSUME Fill, gen' = gen, state' = state, signals' = signals, todo' = todo
  PROVE  Fill'
BY DEF Fill, Filled, Current

\* What main knows, when neither main nor its reply moves.
LEMMA MainFrame ==
  ASSUME TypeOK, MainInv, gen' = gen, copy' = copy, at' = at, step' = step,
         ref' = ref, noted' = noted, failed' = failed, reply'[Main] = reply[Main], Storm' <=> Storm,
         Virgin(Current("timer")) /\ ~Storm => Virgin(Current("timer"))'
  PROVE  MainInv'
BY DEF MainInv, CallOf, Current, TypeOK

\* Who has main's message, when none is added.
LEMMA CustodyFrame ==
  ASSUME Custody, at' = at, step' = step, ref' = ref, reply'[Main] = reply[Main],
         \A j \in Inst : /\ Has(mailbox'[j], MainMsg) => Has(mailbox[j], MainMsg)
                         /\ Once(mailbox[j], MainMsg) => Once(mailbox'[j], MainMsg)
                         /\ Has(mailbox'[j], Strays) => Has(mailbox[j], Strays)
                         /\ job'[j].from = Main => job'[j] = job[j]
  PROVE  Custody'
<1> SUFFICES ASSUME NEW j \in Inst PROVE CustodyOf(j)'
  BY DEF Custody
<1>1. CustodyOf(j)
  BY DEF Custody
<1>2. Strays' = Strays
  BY DEF Strays
<1> QED BY <1>1, <1>2 DEF CustodyOf

-----------------------------------------------------------------------------
(* One step at a time                                                      *)

\* Calculator::handle answers a quick message at once.
LEMMA QuickStep ==
  ASSUME IInv, Record, NEW i \in Inst, HandleQuick(i)
  PROVE  IInv'
<1> DEFINE m == Head(mailbox[i])
<1>0. TypeOK /\ Life /\ Fill /\ Custody /\ Weather /\ Ticking /\ MainInv
  BY DEF IInv
<1>1. /\ i[1] = "calculator" /\ mailbox[i] # <<>> /\ m.op \in Quick /\ job[i] = NoJob /\ state[i] = "run"
      /\ mailbox' = Taken(i) /\ reply' = Settled(m.from, "ok")
      /\ copy' = IF m.op = "journal" THEN journal ELSE copy
  BY DEF HandleQuick, Ready
<1>2. /\ gen' = gen /\ state' = state /\ job' = job /\ started' = started /\ sleepers' = sleepers
      /\ ticks' = ticks /\ signals' = signals /\ todo' = todo /\ journal' = journal
      /\ at' = at /\ step' = step /\ ref' = ref /\ noted' = noted /\ failed' = failed
  BY DEF HandleQuick, mainVars
<1>3. /\ m \in Msg /\ m \in Letters(i) /\ mailbox' \in [Inst -> Seq(Msg)]
      /\ \A j \in Inst : j # i => mailbox'[j] = mailbox[j]
      /\ \A j \in Inst : \A S : /\ Has(mailbox'[j], S) => Has(mailbox[j], S)
                                /\ Only(mailbox[j], S) => Only(mailbox'[j], S)
                                /\ Once(mailbox[j], S) => Once(mailbox'[j], S)
      /\ \A S : /\ m \in S => Has(mailbox[i], S)
                /\ m \notin S => (Has(mailbox'[i], S) <=> Has(mailbox[i], S))
                /\ Once(mailbox[i], S) /\ m \in S => ~Has(mailbox'[i], S)
  BY <1>0, <1>1, TakenFacts DEF Life, LifeOf
<1>4. /\ m.from \in Inst \cup {Main, Nobody} /\ (m \in MainMsg <=> m.from = Main)
      /\ \/ m.op \in Calls /\ m.from = Main
         \/ m.op = "ping" /\ m.from = i
         \/ m.op = "last" /\ m.from \in Inst /\ m.from[1] # "calculator"
  BY <1>1, <1>3 DEF Letters, Msg, MainMsg
<1> HIDE DEF m
<1>5. /\ reply' \in [Inst \cup {Main} -> {"none", "wait", "ok", "dropped"}]
      /\ \A v \in Inst \cup {Main} : v # m.from => reply'[v] = reply[v]
      /\ m.from = Main /\ reply[Main] = "wait" => reply'[Main] = "ok"
      /\ m.from # Main => reply'[Main] = reply[Main]
  <2>1. /\ Settled(m.from, "ok") \in [Inst \cup {Main} -> {"none", "wait", "ok", "dropped"}]
        /\ \A v \in Inst \cup {Main} : v # m.from => Settled(m.from, "ok")[v] = reply[v]
        /\ m.from = Main /\ reply[Main] = "wait" => Settled(m.from, "ok")[Main] = "ok"
    BY <1>0, <1>4, SettledFacts
  <2> QED BY <1>1, <2>1
<1>6. m.from = Main =>
        /\ InMail /\ step = "wait" /\ reply[Main] = "wait" /\ i = ref /\ Script[at].op = m.op
        /\ ~Storm /\ Calm /\ at \in 1 .. 25 /\ at \notin {8, 14, 18} /\ at \notin {9, 15, 19}
  <2> SUFFICES ASSUME m.from = Main
               PROVE  /\ InMail /\ step = "wait" /\ reply[Main] = "wait" /\ i = ref /\ Script[at].op = m.op
                      /\ ~Storm /\ Calm /\ at \in 1 .. 25 /\ at \notin {8, 14, 18} /\ at \notin {9, 15, 19}
    OBVIOUS
  <2>1. InMail
    BY <1>3, <1>4 DEF InMail
  <2>2. /\ step = "wait" /\ reply[Main] = "wait" /\ at \in 1 .. 25 /\ Script[at].op \in Calls
        /\ ~Storm /\ Calm
    BY <2>1, MailFacts
  <2>3. i = ref
    BY <1>0, <1>3, <1>4 DEF Custody, CustodyOf
  <2>4. Script[at].op = m.op
    <3>1. m \notin Strays
      BY <1>0, <1>3 DEF Custody, CustodyOf
    <3> QED BY <1>3, <3>1 DEF Strays
  <2>5. at \notin {8, 14, 18} /\ at \notin {9, 15, 19}
    BY <1>1, <2>2, <2>4, ScriptFacts, SMTT(30) DEF Quick, Probe, Calls
  <2> QED BY <2>1, <2>2, <2>3, <2>4, <2>5
<1>7. InMail' => InMail /\ m.from # Main
  BY <1>0, <1>3, <1>4, <1>6 DEF InMail, Custody, CustodyOf
<1>8. InMail /\ m.from # Main => InMail'
  BY <1>3, <1>4 DEF InMail
<1>9. Storm' <=> Storm
  BY <1>2, <1>6, <1>7, <1>8 DEF Storm
<1>10. TypeOK'
  BY <1>0, <1>1, <1>2, <1>3, <1>5 DEF TypeOK
<1>11. Life'
  <2> SUFFICES ASSUME NEW j \in Inst PROVE LifeOf(j)'
    BY DEF Life
  <2>1. LifeOf(j)
    BY <1>0 DEF Life
  <2>2. state'[j] \in {"unborn", "dead"} => mailbox'[j] = <<>>
    BY <1>1, <1>2, <1>3, <2>1 DEF LifeOf
  <2>3. Only(mailbox'[j], Letters(j))
    BY <1>3, <2>1 DEF LifeOf
  <2>4. JobOf(j)'
    <3>1. job[j] # NoJob /\ j[1] = "calculator" => reply'[j] = reply[j]
      BY <1>1, <1>4, <1>5, InstFacts
    <3> QED BY <1>2, <2>1, <3>1 DEF LifeOf, JobOf
  <2> QED BY <1>2, <2>1, <2>2, <2>3, <2>4 DEF LifeOf
<1>12. Fill'
  BY <1>0, <1>2 DEF Fill, Filled, Current
<1>13. Custody'
  <2> SUFFICES ASSUME NEW j \in Inst PROVE CustodyOf(j)'
    BY DEF Custody
  <2>1. CustodyOf(j)
    BY <1>0 DEF Custody
  <2>2. Has(mailbox'[j], MainMsg) => Has(mailbox[j], MainMsg) /\ m.from # Main
    BY <1>3, <1>7 DEF InMail
  <2>3. Once(mailbox'[j], MainMsg) /\ ~Has(mailbox'[j], Strays)
    BY <1>3, <2>1 DEF CustodyOf
  <2>4. Strays' = Strays
    BY <1>2 DEF Strays
  <2>5. job[j].from = Main => m.from # Main
    <3>1. job[j].from = Main => job[j] # NoJob /\ job[j].from # Nobody
      BY InstFacts DEF NoJob
    <3>2. job[j].from = Main => j[1] = "calculator"
      BY <1>0, <3>1 DEF Life, LifeOf, JobOf
    <3> QED BY <1>6, <3>1, <3>2 DEF Calm, CalmOf
  <2> QED BY <1>2, <1>5, <2>1, <2>2, <2>3, <2>4, <2>5 DEF CustodyOf
<1>14. Weather'
  <2>1. Calm => Calm'
    BY <1>1, <1>2, <1>3 DEF Calm, CalmOf, Superseded, Current
  <2>2. Healing => Healing'
    BY <1>0, <1>2, <1>3, CurrentFacts DEF Healing, Caused, Virgin, Current, TypeOK, Child
  <2> QED BY <1>0, <1>9, <2>1, <2>2 DEF Weather
<1>15. Ticking'
  BY <1>0, <1>1, <1>2, <1>3 DEF Ticking, TickOf
<1>16. MainInv'
  <2>1. /\ step # "wait" <=> reply'[Main] = "none"
        /\ reply'[Main] = "dropped" <=> reply[Main] = "dropped"
        /\ step = "wait" => /\ Script[at].op \in Probe => reply'[Main] # "ok"
                            /\ Script[at].op \notin Probe => reply'[Main] # "dropped"
    BY <1>0, <1>1, <1>5, <1>6 DEF MainInv, Quick, Probe
  <2>2. step = "wait" /\ Script[at].op = "journal" /\ reply'[Main] = "ok" => Script[at].finds \in Range(copy')
    <3>1. CASE m.from = Main
      <4>1. m.op = "journal" => Script[at].finds \in Range(journal)
        <5>1. m.op = "journal" => at \in {11, 16, 20}
          BY <3>1, <1>6, ScriptFacts
        <5>2. m.op = "journal" => Script[at].finds \in Probe /\ at > Pos[Script[at].finds]
          BY <5>1, ScriptFacts DEF Probe, Pos
        <5>3. m.op = "journal" => ~Unjournaled(Script[at].finds)
          BY <1>6, <3>1 DEF Unjournaled, Calm, CalmOf
        <5> QED BY <5>2, <5>3 DEF Record, Told
      <4> QED BY <1>1, <1>6, <3>1, <4>1
    <3>2. CASE m.from # Main
      BY <1>0, <1>1, <1>4, <1>5, <3>2 DEF MainInv
    <3> QED BY <3>1, <3>2
  <2>3. Virgin(Current("timer")) => Virgin(Current("timer"))'
    BY <1>0, <1>2, <1>3, CurrentFacts DEF Virgin, Current, TypeOK, Child
  <2> QED BY <1>0, <1>2, <1>9, <2>1, <2>2, <2>3 DEF MainInv, CallOf, Current
<1> QED BY <1>10, <1>11, <1>12, <1>13, <1>14, <1>15, <1>16 DEF IInv

\* A calculator about to take up a probe is main's, and everything is calm.
LEMMA ProbeFacts ==
  ASSUME IInv, NEW i \in Inst, i[1] = "calculator", Ready(i, Probe)
  PROVE  LET m == Head(mailbox[i])
         IN  /\ m \in Msg /\ m.from = Main /\ m.op \in Probe /\ m.op = Script[at].op
             /\ InMail /\ ~Storm /\ Calm /\ step = "wait" /\ reply[Main] = "wait" /\ i = ref
             /\ at \in {8, 14, 18} /\ i = Current("calculator")
             /\ \A j \in Inst : ~Has(Taken(i)[j], MainMsg) /\ job[j].from # Main
<1> DEFINE m == Head(mailbox[i])
<1>0. TypeOK /\ Life /\ Custody /\ MainInv
  BY DEF IInv
<1>1. mailbox[i] # <<>> /\ m.op \in Probe /\ state[i] = "run"
  BY DEF Ready
<1>2. /\ m \in Msg /\ m \in Letters(i)
      /\ \A j \in Inst : j # i => Taken(i)[j] = mailbox[j]
      /\ \A S : /\ m \in S => Has(mailbox[i], S)
                /\ Once(mailbox[i], S) /\ m \in S => ~Has(Taken(i)[i], S)
  BY <1>0, <1>1, TakenFacts DEF Life, LifeOf
<1>3. m.from = Main /\ m \in MainMsg
  BY <1>1, <1>2 DEF Letters, MainMsg, Probe
<1> HIDE DEF m
<1>4. InMail
  BY <1>2, <1>3 DEF InMail
<1>5. step = "wait" /\ reply[Main] = "wait" /\ at \in 1 .. 25 /\ ~Storm /\ Calm
  BY <1>4, MailFacts
<1>6. i = ref
  BY <1>0, <1>2, <1>3 DEF Custody, CustodyOf
<1>7. m.op = Script[at].op
  <2>1. m \notin Strays
    BY <1>0, <1>2 DEF Custody, CustodyOf
  <2> QED BY <1>2, <1>3, <2>1 DEF Strays
<1>8. at \in {8, 14, 18}
  BY <1>1, <1>5, <1>7, ScriptFacts
<1>9. i = Current("calculator")
  BY <1>1, <1>5 DEF Calm, CalmOf, Superseded
<1>10. ASSUME NEW j \in Inst PROVE ~Has(Taken(i)[j], MainMsg) /\ job[j].from # Main
  <2>1. ~Has(Taken(i)[j], MainMsg)
    BY <1>0, <1>2, <1>3, <1>6 DEF Custody, CustodyOf
  <2>2. job[j].from = Main => job[j] # NoJob /\ job[j].from # Nobody
    BY InstFacts DEF NoJob
  <2>3. job[j].from = Main => j[1] = "calculator"
    BY <1>0, <2>2 DEF Life, LifeOf, JobOf
  <2> QED BY <1>5, <2>1, <2>2, <2>3 DEF Calm, CalmOf
<1> QED BY <1>1, <1>2, <1>3, <1>4, <1>5, <1>6, <1>7, <1>8, <1>9, <1>10 DEF m

\* What a handler asks, and of whom.
LEMMA AskedFacts ==
  ASSUME IInv, NEW i \in Inst, Asks(i)
  PROVE  LET a == Asked(i)
             m == Head(mailbox[i])
         IN  /\ m \in Msg /\ mailbox[i] # <<>> /\ state[i] = "run" /\ job[i] = NoJob
             /\ a.to \in Inst /\ a.msg \in Msg /\ a.msg \in Letters(a.to)
             /\ a.msg \notin MainMsg /\ a.msg \notin Ticks /\ a.msg \notin Starts /\ a.to[1] # "timer"
             /\ i[1] = "calculator" => Ready(i, Probe) /\ a.to \in {Current("calculator"), Current("ledger")}
             /\ i[1] # "calculator" =>
                  /\ m.op \in {"fetch", "tick"} /\ m.from = Nobody /\ m \notin MainMsg /\ m \notin Starts
                  /\ i[1] = "timer" => m \in Ticks
                  /\ a.to[1] = "calculator"
<1> DEFINE a == Asked(i)
           m == Head(mailbox[i])
<1>0. TypeOK /\ Life
  BY DEF IInv
<1>1. mailbox[i] # <<>> /\ state[i] = "run" /\ job[i] = NoJob
  BY DEF Asks, Ready
<1>2. m \in Msg /\ m \in Letters(i)
  BY <1>0, <1>1, TakenFacts DEF Life, LifeOf
<1>3. \A c \in Child : Current(c) \in Inst /\ Current(c)[1] = c
  BY <1>0, CurrentFacts DEF TypeOK
<1>4. i[1] \in Child
  BY InstFacts
<1>5. CASE i[1] = "calculator"
  <2>1. Ready(i, Probe) /\ m.op \in {"self", "cross"}
    BY <1>5 DEF Asks, Ready, Probe
  <2>2. i = Current("calculator")
    BY <1>5, <2>1, ProbeFacts
  <2>3. CASE m.op = "self"
    <3>1. a = [to |-> Current("calculator"), msg |-> Message("ping", i)]
      BY <2>3 DEF Asked, Question
    <3>2. Message("ping", i) \in Letters(i)
      BY <1>5, MessageFacts DEF Letters, Quick
    <3>3. /\ Message("ping", i) \in Msg /\ Message("ping", i) \notin MainMsg
          /\ Message("ping", i) \notin Ticks /\ Message("ping", i) \notin Starts
      BY MessageFacts, InstFacts DEF Quick
    <3> QED BY <1>1, <1>2, <1>3, <1>5, <2>1, <2>2, <3>1, <3>2, <3>3 DEF Child
  <2>4. CASE m.op = "cross"
    <3>1. a = [to |-> Current("ledger"), msg |-> Message("fetch", Nobody)]
      BY <2>4 DEF Asked, Question
    <3>2. Message("fetch", Nobody) \in Letters(Current("ledger"))
      BY <1>3, MessageFacts DEF Letters, Quick, Child
    <3>3. /\ Message("fetch", Nobody) \in Msg /\ Message("fetch", Nobody) \notin MainMsg
          /\ Message("fetch", Nobody) \notin Ticks /\ Message("fetch", Nobody) \notin Starts
      BY MessageFacts, InstFacts DEF Quick
    <3> QED BY <1>1, <1>2, <1>3, <1>5, <2>1, <3>1, <3>2, <3>3 DEF Child
  <2> QED BY <2>1, <2>3, <2>4
<1>6. CASE i[1] # "calculator"
  <2>1. /\ m.op \in {"fetch", "tick"} /\ (i[1] = "timer" <=> m.op = "tick") /\ m.from = Nobody
    BY <1>2, <1>4, <1>6 DEF Asks, Ready, Letters, Child
  <2>2. m \notin MainMsg /\ m \notin Starts /\ (i[1] = "timer" => m \in Ticks)
    BY <1>2, <2>1, InstFacts DEF MainMsg, Starts, Ticks
  <2>3. a = [to |-> Current("calculator"), msg |-> Message("last", i)]
    BY <2>1 DEF Asked, Question
  <2>4. Message("last", i) \in Letters(Current("calculator"))
    BY <1>3, <1>6, MessageFacts, SMTT(30) DEF Letters, Quick, Child
  <2>5. /\ Message("last", i) \in Msg /\ Message("last", i) \notin MainMsg
        /\ Message("last", i) \notin Ticks /\ Message("last", i) \notin Starts
    BY MessageFacts, InstFacts DEF Quick
  <2> QED BY <1>1, <1>2, <1>3, <1>6, <2>1, <2>2, <2>3, <2>4, <2>5 DEF Child
<1> QED BY <1>5, <1>6

\* A calculator takes up a probe: the storm begins.
LEMMA ProbeStep ==
  ASSUME IInv, NEW i \in Inst, i[1] = "calculator", Ready(i, Probe),
         NEW t \in Inst \cup {Nobody}, Await(i, t),
         mailbox' \in [Inst -> Seq(Msg)],
         \A j \in Inst : /\ Only(mailbox'[j], Letters(j)) /\ ~Has(mailbox'[j], MainMsg)
                         /\ j[1] = "timer" \/ state[j] \in {"unborn", "dead"} => mailbox'[j] = mailbox[j],
         UNCHANGED <<gen, state, started, sleepers, ticks, signals, todo, journal, copy, mainVars>>
  PROVE  IInv'
<1> DEFINE m == Head(mailbox[i])
<1>0. TypeOK /\ Life /\ Fill /\ Custody /\ Weather /\ Ticking /\ MainInv
  BY DEF IInv
<1>1. /\ m \in Msg /\ m.from = Main /\ m.op \in Probe /\ m.op = Script[at].op
      /\ InMail /\ ~Storm /\ Calm /\ step = "wait" /\ reply[Main] = "wait" /\ i = ref
      /\ at \in {8, 14, 18} /\ i = Current("calculator")
      /\ \A j \in Inst : job[j].from # Main
  BY ProbeFacts
<1>2. /\ gen' = gen /\ state' = state /\ started' = started /\ sleepers' = sleepers /\ copy' = copy
      /\ ticks' = ticks /\ signals' = signals /\ todo' = todo /\ journal' = journal
      /\ at' = at /\ step' = step /\ ref' = ref /\ noted' = noted /\ failed' = failed
  BY DEF mainVars
<1>3. state[i] = "run" /\ job[i] = NoJob
  BY DEF Ready
<1>4. /\ job'[i] = [op |-> m.op, from |-> Main, on |-> t] /\ \A j \in Inst : j # i => job'[j] = job[j]
      /\ reply'[i] = "wait" /\ \A v \in Inst \cup {Main} : v # i => reply'[v] = reply[v]
      /\ reply' \in [Inst \cup {Main} -> {"none", "wait", "ok", "dropped"}]
      /\ job' \in [Inst -> [op : {"none"} \cup Probe \cup {"fetch", "tick"}, from : Inst \cup {Main, Nobody},
                            on : Inst \cup {Nobody}]]
  BY <1>0, <1>1 DEF Await, TypeOK
<1> HIDE DEF m
<1>5. /\ job'[i] # NoJob /\ job'[i].op = m.op /\ job'[i].from = Main
      /\ reply'[Main] = reply[Main]
  <2>1. job'[i].op = m.op /\ job'[i].from = Main
    BY <1>4
  <2>2. NoJob.from = Nobody
    BY DEF NoJob
  <2>3. job'[i] # NoJob
    BY <2>1, <2>2, InstFacts
  <2> QED BY <1>4, <2>1, <2>3, InstFacts
<1>6. ~InMail' /\ Storm'
  BY <1>1, <1>2 DEF InMail, Storm
<1>7. TypeOK'
  BY <1>0, <1>2, <1>4 DEF TypeOK
<1>8. Life'
  <2> SUFFICES ASSUME NEW j \in Inst PROVE LifeOf(j)'
    BY DEF Life
  <2>1. LifeOf(j)
    BY <1>0 DEF Life
  <2>2. JobOf(j)'
    BY <1>1, <1>2, <1>3, <1>4, <1>5, <2>1, InstFacts DEF LifeOf, JobOf
  <2> QED BY <1>2, <2>1, <2>2 DEF LifeOf
<1>9. Fill'
  BY <1>0, <1>2, FillFrame
<1>10. Custody'
  <2> SUFFICES ASSUME NEW j \in Inst PROVE CustodyOf(j)'
    BY DEF Custody
  <2>1. CustodyOf(j)
    BY <1>0 DEF Custody
  <2>2. ~Has(mailbox'[j], MainMsg) /\ ~Has(mailbox'[j], Strays) /\ Once(mailbox'[j], MainMsg)
    BY DEF Has, MainMsg, Strays, Once
  <2>3. Strays' = Strays
    BY <1>2 DEF Strays
  <2> QED BY <1>1, <1>2, <1>4, <1>5, <2>2, <2>3 DEF CustodyOf
<1>11. Weather'
  BY <1>5, <1>6 DEF Weather, Healing, Caused
<1>12. Ticking'
  BY <1>0, <1>2, <1>4, SMTT(30) DEF Ticking, TickOf
<1>13. MainInv'
  BY <1>0, <1>1, <1>2, <1>5, <1>6 DEF MainInv, CallOf, Current
<1> QED BY <1>7, <1>8, <1>9, <1>10, <1>11, <1>12, <1>13 DEF IInv

\* SlowDiv goes to sleep past its timeout: the storm begins.
LEMMA SlowStep ==
  ASSUME IInv, NEW i \in Inst, HandleSlow(i)
  PROVE  IInv'
<1>0. TypeOK /\ Life
  BY DEF IInv
<1>1. i[1] = "calculator" /\ Ready(i, Probe) /\ mailbox' = Taken(i) /\ Await(i, Nobody) /\ mailbox[i] # <<>>
  BY DEF HandleSlow, Ready, Probe
<1>2. /\ mailbox' \in [Inst -> Seq(Msg)] /\ state[i] = "run"
      /\ \A j \in Inst : j # i => mailbox'[j] = mailbox[j]
      /\ \A j \in Inst : Only(mailbox'[j], Letters(j))
  BY <1>0, <1>1, TakenFacts DEF Life, LifeOf, Ready
<1>3. \A j \in Inst : ~Has(mailbox'[j], MainMsg)
  BY <1>1, ProbeFacts
<1>4. \A j \in Inst : j[1] = "timer" \/ state[j] \in {"unborn", "dead"} => mailbox'[j] = mailbox[j]
  BY <1>1, <1>2
<1>5. UNCHANGED <<gen, state, started, sleepers, ticks, signals, todo, journal, copy, mainVars>>
  BY DEF HandleSlow
<1> QED BY <1>1, <1>2, <1>3, <1>4, <1>5, ProbeStep

\* The mailboxes after a question.
LEMMA AskEffect ==
  ASSUME IInv, NEW i \in Inst, HandleAsk(i)
  PROVE  /\ mailbox' \in [Inst -> Seq(Msg)]
         /\ \A j \in Inst : j # i /\ j # Asked(i).to => mailbox'[j] = mailbox[j]
         /\ \A j \in Inst : Only(mailbox'[j], Letters(j))
         /\ \A j \in Inst : \A S : Asked(i).msg \notin S =>
              /\ Has(mailbox'[j], S) <=> Has(Taken(i)[j], S)
              /\ Has(mailbox'[j], S) => Has(mailbox[j], S)
              /\ Once(mailbox[j], S) => Once(mailbox'[j], S)
<1> DEFINE a == Asked(i)
           f == Taken(i)
<1>0. TypeOK /\ Life
  BY DEF IInv
<1>1. Asks(i) /\ mailbox' = [f EXCEPT ![a.to] = Append(@, a.msg)]
  BY DEF HandleAsk
<1>2. mailbox[i] # <<>> /\ a.to \in Inst /\ a.msg \in Msg /\ a.msg \in Letters(a.to)
  BY <1>1, AskedFacts
<1>3. /\ f \in [Inst -> Seq(Msg)]
      /\ \A j \in Inst : j # i => f[j] = mailbox[j]
      /\ \A j \in Inst : Only(f[j], Letters(j))
      /\ \A j \in Inst : \A S : /\ Has(f[j], S) => Has(mailbox[j], S)
                                /\ Once(mailbox[j], S) => Once(f[j], S)
  BY <1>0, <1>2, TakenFacts DEF Life, LifeOf
<1> HIDE DEF a, f
<1>4. /\ mailbox' \in [Inst -> Seq(Msg)]
      /\ \A j \in Inst : j # a.to => mailbox'[j] = f[j]
      /\ \A S : /\ Has(mailbox'[a.to], S) <=> Has(f[a.to], S) \/ a.msg \in S
                /\ Only(f[a.to], S) /\ a.msg \in S => Only(mailbox'[a.to], S)
                /\ Once(f[a.to], S) /\ a.msg \notin S => Once(mailbox'[a.to], S)
  <2> DEFINE x == a.to
             y == a.msg
  <2>1. x \in Inst /\ y \in Msg /\ mailbox' = [f EXCEPT ![x] = Append(@, y)]
    BY <1>1, <1>2
  <2> HIDE DEF x, y
  <2>2. /\ mailbox' \in [Inst -> Seq(Msg)]
        /\ \A j \in Inst : j # x => mailbox'[j] = f[j]
        /\ \A S : /\ Has(mailbox'[x], S) <=> Has(f[x], S) \/ y \in S
                  /\ Only(f[x], S) /\ y \in S => Only(mailbox'[x], S)
                  /\ Once(f[x], S) /\ y \notin S => Once(mailbox'[x], S)
    BY <1>3, <2>1, SentFacts, ZenonT(30)
  <2> QED BY <2>2 DEF x, y
<1>5. ASSUME NEW j \in Inst PROVE Only(mailbox'[j], Letters(j))
  <2>1. CASE j = a.to
    BY <1>2, <1>3, <1>4, <2>1
  <2>2. CASE j # a.to
    BY <1>3, <1>4, <2>2
  <2> QED BY <2>1, <2>2
<1>6. ASSUME NEW j \in Inst, NEW S, a.msg \notin S
      PROVE  /\ Has(mailbox'[j], S) <=> Has(f[j], S)
             /\ Has(mailbox'[j], S) => Has(mailbox[j], S)
             /\ Once(mailbox[j], S) => Once(mailbox'[j], S)
  <2>1. CASE j = a.to
    BY <1>3, <1>4, <1>6, <2>1
  <2>2. CASE j # a.to
    BY <1>3, <1>4, <2>2
  <2> QED BY <2>1, <2>2
<1> QED BY <1>3, <1>4, <1>5, <1>6 DEF a, f

\* A handler asks another actor and waits.
LEMMA AskStep ==
  ASSUME IInv, NEW i \in Inst, HandleAsk(i)
  PROVE  IInv'
<1> DEFINE m == Head(mailbox[i])
           t == Asked(i).to
<1>0. TypeOK /\ Life /\ Fill /\ Custody /\ Weather /\ Ticking /\ MainInv
  BY DEF IInv
<1>1. Asks(i) /\ state[t] \in {"run", "stuck", "notify", "finish"} /\ Await(i, t)
  BY DEF HandleAsk, Accepts
<1>2. UNCHANGED <<gen, state, started, sleepers, ticks, signals, todo, journal, copy, mainVars>>
  BY DEF HandleAsk
<1>3. /\ m \in Msg /\ mailbox[i] # <<>> /\ state[i] = "run" /\ job[i] = NoJob
      /\ t \in Inst /\ t[1] # "timer"
      /\ Asked(i).msg \notin MainMsg /\ Asked(i).msg \notin Ticks /\ Asked(i).msg \notin Starts
      /\ i[1] = "calculator" => Ready(i, Probe)
      /\ i[1] # "calculator" =>
           /\ m.op \in {"fetch", "tick"} /\ m.from = Nobody /\ m \notin MainMsg /\ m \notin Starts
           /\ i[1] = "timer" => m \in Ticks
           /\ t[1] = "calculator"
  BY <1>1, AskedFacts
<1>4. /\ mailbox' \in [Inst -> Seq(Msg)]
      /\ \A j \in Inst : j # i /\ j # t => mailbox'[j] = mailbox[j]
      /\ \A j \in Inst : Only(mailbox'[j], Letters(j))
      /\ \A j \in Inst : \A S : Asked(i).msg \notin S =>
           /\ Has(mailbox'[j], S) <=> Has(Taken(i)[j], S)
           /\ Has(mailbox'[j], S) => Has(mailbox[j], S)
           /\ Once(mailbox[j], S) => Once(mailbox'[j], S)
  BY AskEffect
<1>5. \A j \in Inst : state[j] \in {"unborn", "dead"} => mailbox'[j] = mailbox[j]
  BY <1>1, <1>3, <1>4
<1>6. CASE i[1] = "calculator"
  <2>1. \A j \in Inst : ~Has(mailbox'[j], MainMsg)
    BY <1>3, <1>4, <1>6, ProbeFacts
  <2>2. \A j \in Inst : j[1] = "timer" \/ state[j] \in {"unborn", "dead"} => mailbox'[j] = mailbox[j]
    BY <1>3, <1>4, <1>5, <1>6
  <2> QED BY <1>1, <1>2, <1>3, <1>4, <1>6, <2>1, <2>2, ProbeStep
<1>7. CASE i[1] # "calculator"
  <2>0. /\ gen' = gen /\ state' = state /\ started' = started /\ sleepers' = sleepers /\ copy' = copy
        /\ ticks' = ticks /\ signals' = signals /\ todo' = todo /\ journal' = journal
        /\ at' = at /\ step' = step /\ ref' = ref /\ noted' = noted /\ failed' = failed
    BY <1>2 DEF mainVars
  <2>1. /\ job'[i] = [op |-> m.op, from |-> Nobody, on |-> t] /\ \A j \in Inst : j # i => job'[j] = job[j]
        /\ \A v \in Inst \cup {Main} : v # i => reply'[v] = reply[v]
        /\ reply' \in [Inst \cup {Main} -> {"none", "wait", "ok", "dropped"}]
        /\ job' \in [Inst -> [op : {"none"} \cup Probe \cup {"fetch", "tick"}, from : Inst \cup {Main, Nobody},
                              on : Inst \cup {Nobody}]]
    BY <1>0, <1>1, <1>3, <1>7 DEF Await, TypeOK
  <2> HIDE DEF m, t
  <2>2. /\ job'[i] # NoJob /\ job'[i].op \notin Probe /\ job'[i].from = Nobody /\ job'[i].on = t
        /\ reply'[Main] = reply[Main]
    BY <1>3, <1>7, <2>1, InstFacts DEF NoJob, Probe
  <2>3. \A j \in Inst : Has(mailbox'[j], MainMsg) <=> Has(mailbox[j], MainMsg)
    BY <1>0, <1>3, <1>4, <1>7, TakenFacts DEF m
  <2>4. Storm' <=> Storm
    BY <2>0, <2>3 DEF Storm, InMail
  <2>5. TypeOK'
    BY <1>0, <1>4, <2>0, <2>1 DEF TypeOK
  <2>6. Life'
    <3> SUFFICES ASSUME NEW j \in Inst PROVE LifeOf(j)'
      BY DEF Life
    <3>1. LifeOf(j)
      BY <1>0 DEF Life
    <3>2. JobOf(j)'
      BY <1>3, <1>7, <2>0, <2>1, <2>2, <3>1 DEF LifeOf, JobOf
    <3> QED BY <1>4, <1>5, <2>0, <3>1, <3>2 DEF LifeOf
  <2>7. Fill'
    BY <1>0, <2>0, FillFrame
  <2>8. Custody'
    <3>1. Asked(i).msg \notin Strays
      BY <1>3 DEF Strays, MainMsg
    <3>2. \A j \in Inst : job'[j].from = Main => job'[j] = job[j]
      BY <2>1, <2>2, InstFacts
    <3> QED BY <1>0, <1>3, <1>4, <2>0, <2>2, <2>3, <3>1, <3>2, CustodyFrame
  <2>9. Weather'
    <3>1. Calm => i[1] = "timer"
      <4>1. i[1] = "ledger" => ~Calm
        BY <1>3 DEF Calm, CalmOf
      <4> QED BY <1>7, <4>1, InstFacts DEF Child
    <3>2. Calm => Calm'
      <4> SUFFICES ASSUME Calm, NEW j \in Inst PROVE CalmOf(j)'
        BY <2>0 DEF Calm
      <4>1. CalmOf(j)
        BY DEF Calm
      <4>2. j[1] = "ledger" => mailbox'[j] = mailbox[j]
        BY <1>3, <1>4, <1>7, <3>1
      <4>3. j[1] # "timer" => job'[j] = job[j]
        BY <2>1, <3>1
      <4> QED BY <2>0, <4>1, <4>2, <4>3 DEF CalmOf, Superseded, Current
    <3>3. Caused => Caused'
      BY <1>7, <2>0, <2>1 DEF Caused
    <3>4. Virgin(Current("timer")) => Virgin(Current("timer"))'
      BY <1>0, <1>3, <1>4, <2>0, CurrentFacts DEF Virgin, Current, TypeOK, Child
    <3> QED BY <1>0, <2>0, <2>4, <3>2, <3>3, <3>4 DEF Weather, Healing
  <2>10. Ticking'
    <3> SUFFICES ASSUME NEW j \in Inst, j[1] = "timer" PROVE TickOf(j)'
      BY DEF Ticking, TickOf
    <3>1. TickOf(j)
      BY <1>0 DEF Ticking
    <3>2. CASE j = i
      <4>1. Has(mailbox[i], Ticks) /\ (Once(mailbox[i], Ticks) => ~Has(mailbox'[i], Ticks))
        BY <1>0, <1>3, <1>4, <1>7, <3>2, TakenFacts DEF m
      <4> QED BY <1>3, <1>4, <2>0, <2>2, <3>1, <3>2, <4>1 DEF TickOf
    <3>3. CASE j # i
      BY <1>3, <1>4, <1>7, <2>0, <2>1, <3>1, <3>3 DEF TickOf
    <3> QED BY <3>2, <3>3
  <2>11. MainInv'
    <3>1. Virgin(Current("timer")) => Virgin(Current("timer"))'
      BY <1>0, <1>3, <1>4, <2>0, CurrentFacts DEF Virgin, Current, TypeOK, Child
    <3> QED BY <1>0, <2>0, <2>2, <2>4, <3>1, MainFrame
  <2> QED BY <2>5, <2>6, <2>7, <2>8, <2>9, <2>10, <2>11 DEF IInv
<1> QED BY <1>6, <1>7

\* A question that cannot be sent is never part of a probe: its handler owes
\* nobody a reply.
LEMMA AskFailsFacts ==
  ASSUME IInv, NEW i \in Inst, AskFails(i)
  PROVE  i[1] # "calculator" /\ reply' = reply
<1> DEFINE m == Head(mailbox[i])
<1>0. TypeOK
  BY DEF IInv
<1>1. Asks(i) /\ state[Asked(i).to] \notin {"run", "stuck", "notify", "finish"}
      /\ reply' = Settled(m.from, "dropped")
  BY DEF AskFails, Accepts
<1>2. /\ i[1] = "calculator" => Ready(i, Probe) /\ Asked(i).to \in {Current("calculator"), Current("ledger")}
      /\ i[1] # "calculator" => m.from = Nobody
  BY <1>1, AskedFacts
<1>3. i[1] # "calculator"
  <2> SUFFICES ASSUME i[1] = "calculator" PROVE FALSE
    OBVIOUS
  <2>1. Calm
    BY <1>2, ProbeFacts
  <2>2. \A c \in Child : Current(c) \in Inst /\ Current(c)[1] = c
    BY <1>0, CurrentFacts DEF TypeOK
  <2>3. state[Current("calculator")] = "run" /\ state[Current("ledger")] = "run"
    BY <2>1, <2>2 DEF Calm, CalmOf, Child
  <2> QED BY <1>1, <1>2, <2>3
<1> QED BY <1>1, <1>2, <1>3 DEF Settled

\* A handler whose question cannot be sent fails; the timer ignores it.
LEMMA AskFailsStep ==
  ASSUME IInv, NEW i \in Inst, AskFails(i)
  PROVE  IInv'
<1> DEFINE m == Head(mailbox[i])
<1>0. TypeOK /\ Life /\ Fill /\ Custody /\ Weather /\ Ticking /\ MainInv
  BY DEF IInv
<1>1. Asks(i) /\ state[Asked(i).to] \notin {"run", "stuck", "notify", "finish"} /\ mailbox' = Taken(i)
      /\ reply' = Settled(m.from, "dropped")
  BY DEF AskFails, Accepts
<1>2. /\ gen' = gen /\ job' = job /\ started' = started /\ copy' = copy
      /\ ticks' = ticks /\ signals' = signals /\ todo' = todo /\ journal' = journal
      /\ at' = at /\ step' = step /\ ref' = ref /\ noted' = noted /\ failed' = failed
  BY DEF AskFails, mainVars
<1>3. /\ m \in Msg /\ mailbox[i] # <<>> /\ state[i] = "run" /\ job[i] = NoJob
      /\ i[1] = "calculator" => Ready(i, Probe) /\ Asked(i).to \in {Current("calculator"), Current("ledger")}
      /\ i[1] # "calculator" =>
           /\ m.from = Nobody /\ m \notin MainMsg /\ m \notin Starts
           /\ i[1] = "timer" => m \in Ticks
  BY <1>1, AskedFacts
<1>4. i[1] # "calculator"
  BY AskFailsFacts
<1>5. reply' = reply
  BY AskFailsFacts
<1>6. /\ mailbox' \in [Inst -> Seq(Msg)]
      /\ \A j \in Inst : j # i => mailbox'[j] = mailbox[j]
      /\ \A j \in Inst : \A S : /\ Has(mailbox'[j], S) => Has(mailbox[j], S)
                                /\ Only(mailbox[j], S) => Only(mailbox'[j], S)
                                /\ Once(mailbox[j], S) => Once(mailbox'[j], S)
      /\ \A S : /\ m \in S => Has(mailbox[i], S)
                /\ m \notin S => (Has(mailbox'[i], S) <=> Has(mailbox[i], S))
                /\ Once(mailbox[i], S) /\ m \in S => ~Has(mailbox'[i], S)
  BY <1>0, <1>1, <1>3, TakenFacts
<1> HIDE DEF m
<1>7. /\ i[1] = "timer" => /\ state' = state /\ sleepers'[i[2]] = sleepers[i[2]] + 1
                           /\ \A j \in Inst : j[1] = "timer" /\ j # i => sleepers'[j[2]] = sleepers[j[2]]
      /\ i[1] # "timer" => sleepers' = sleepers /\ state'[i] = "notify"
      /\ \A j \in Inst : j # i => state'[j] = state[j]
      /\ state' \in [Inst -> {"unborn", "run", "stuck", "notify", "finish", "dead"}]
      /\ sleepers' \in [1 .. MaxGen -> Nat]
  <2>1. CASE i[1] = "timer"
    <3>1. sleepers' = [sleepers EXCEPT ![i[2]] = @ + 1] /\ state' = state
      BY <2>1 DEF AskFails
    <3>2. /\ sleepers' \in [1 .. MaxGen -> Nat] /\ sleepers'[i[2]] = sleepers[i[2]] + 1
          /\ \A j \in Inst : j[1] = "timer" /\ j # i => sleepers'[j[2]] = sleepers[j[2]]
      BY <1>0, <2>1, <3>1, SleeperFacts, Zenon
    <3>3. state' \in [Inst -> {"unborn", "run", "stuck", "notify", "finish", "dead"}]
      BY <1>0, <3>1 DEF TypeOK
    <3> QED BY <2>1, <3>1, <3>2, <3>3
  <2>2. CASE i[1] # "timer"
    BY <1>0, <2>2 DEF AskFails, TypeOK
  <2> QED BY <2>1, <2>2
<1>8. Storm' <=> Storm
  BY <1>2, <1>3, <1>4, <1>6 DEF Storm, InMail
<1>9. TypeOK'
  BY <1>0, <1>2, <1>5, <1>6, <1>7 DEF TypeOK
<1>10. Life'
  <2> SUFFICES ASSUME NEW j \in Inst PROVE LifeOf(j)'
    BY DEF Life
  <2>1. LifeOf(j)
    BY <1>0 DEF Life
  <2>2. state'[j] = state[j] \/ (j = i /\ state'[j] = "notify")
    BY <1>7
  <2>3. JobOf(j)'
    BY <1>2, <1>3, <1>5, <2>1, <2>2 DEF LifeOf, JobOf
  <2>4. state'[j] \in {"unborn", "dead"} => mailbox'[j] = <<>>
    BY <1>3, <1>6, <2>1, <2>2 DEF LifeOf
  <2> QED BY <1>2, <1>3, <1>6, <2>1, <2>2, <2>3, <2>4 DEF LifeOf
<1>11. Fill'
  BY <1>0, <1>2, <1>7, CurrentFacts DEF Fill, Filled, Current, TypeOK
<1>12. Custody'
  BY <1>0, <1>2, <1>5, <1>6, CustodyFrame
<1>13. Virgin(Current("timer")) => Virgin(Current("timer"))'
  BY <1>0, <1>2, <1>6, CurrentFacts DEF Virgin, Current, TypeOK, Child
<1>14. Weather'
  <2>1. Calm => i[1] = "timer"
    <3>1. i[1] = "ledger" => ~Calm
      BY <1>3 DEF Calm, CalmOf
    <3> QED BY <1>4, <3>1, InstFacts DEF Child
  <2>2. Calm => Calm'
    <3> SUFFICES ASSUME Calm, NEW j \in Inst PROVE CalmOf(j)'
      BY <1>2 DEF Calm
    <3>1. CalmOf(j) /\ state' = state
      BY <1>7, <2>1 DEF Calm
    <3>2. j[1] = "ledger" => mailbox'[j] = mailbox[j]
      BY <1>6, <2>1
    <3> QED BY <1>2, <3>1, <3>2 DEF CalmOf, Superseded, Current
  <2>3. Caused => Caused'
    BY <1>2, <1>4, <1>7 DEF Caused
  <2> QED BY <1>0, <1>2, <1>8, <1>13, <2>2, <2>3 DEF Weather, Healing
<1>15. Ticking'
  <2> SUFFICES ASSUME NEW j \in Inst, j[1] = "timer" PROVE TickOf(j)'
    BY DEF Ticking, TickOf
  <2>1. TickOf(j) /\ j[2] \in 1 .. MaxGen /\ i[2] \in 1 .. MaxGen
    BY <1>0, InstFacts DEF Ticking
  <2>2. CASE j = i
    <3>1. Has(mailbox[i], Ticks) /\ (Once(mailbox[i], Ticks) => ~Has(mailbox'[i], Ticks))
      BY <1>3, <1>4, <1>6, <2>2
    <3>2. state' = state /\ sleepers'[j[2]] = sleepers[j[2]] + 1
      BY <1>7, <2>2
    <3> QED BY <1>2, <1>3, <1>6, <2>1, <2>2, <3>1, <3>2 DEF TickOf
  <2>3. CASE j # i
    <3>1. state'[j] = state[j] /\ sleepers'[j[2]] = sleepers[j[2]] /\ mailbox'[j] = mailbox[j]
      BY <1>6, <1>7, <2>3
    <3> QED BY <1>2, <2>1, <3>1 DEF TickOf
  <2> QED BY <2>2, <2>3
<1>16. MainInv'
  BY <1>0, <1>2, <1>5, <1>8, <1>13, MainFrame
<1> QED BY <1>9, <1>10, <1>11, <1>12, <1>14, <1>15, <1>16 DEF IInv

\* A tick goes on with the outcome of its query, and schedules the next.
LEMMA ResumeStep ==
  ASSUME IInv, NEW i \in Inst, Resume(i)
  PROVE  IInv'
<1>0. TypeOK /\ Life /\ Fill /\ Custody /\ Weather /\ Ticking /\ MainInv
  BY DEF IInv
<1>1. /\ state[i] = "run" /\ job[i] # NoJob /\ reply[i] # "wait"
      /\ reply' = [Settled(job[i].from, "ok") EXCEPT ![i] = "none"]
      /\ job' = [job EXCEPT ![i] = NoJob]
      /\ sleepers' = IF i[1] = "timer" THEN [sleepers EXCEPT ![i[2]] = @ + 1] ELSE sleepers
  BY DEF Resume
<1>2. /\ gen' = gen /\ state' = state /\ mailbox' = mailbox /\ started' = started /\ copy' = copy
      /\ ticks' = ticks /\ signals' = signals /\ todo' = todo /\ journal' = journal
      /\ at' = at /\ step' = step /\ ref' = ref /\ noted' = noted /\ failed' = failed
  BY DEF Resume, mainVars
<1>3. i[1] # "calculator"
  BY <1>1, StuckFacts
<1>4. job[i].from = Nobody
  BY <1>0, <1>1, <1>3 DEF Life, LifeOf, JobOf
<1>5. /\ reply' \in [Inst \cup {Main} -> {"none", "wait", "ok", "dropped"}]
      /\ \A v \in Inst \cup {Main} : v # i => reply'[v] = reply[v]
      /\ reply'[Main] = reply[Main]
  BY <1>0, <1>1, <1>4, InstFacts, SMTT(30) DEF Settled, TypeOK
<1>6. /\ job' \in [Inst -> [op : {"none"} \cup Probe \cup {"fetch", "tick"}, from : Inst \cup {Main, Nobody},
                            on : Inst \cup {Nobody}]]
      /\ job'[i] = NoJob /\ \A j \in Inst : j # i => job'[j] = job[j]
  BY <1>0, <1>1 DEF TypeOK, NoJob
<1>7. /\ sleepers' \in [1 .. MaxGen -> Nat]
      /\ i[1] = "timer" => sleepers'[i[2]] = sleepers[i[2]] + 1
      /\ \A j \in Inst : j[1] = "timer" /\ j # i => sleepers'[j[2]] = sleepers[j[2]]
  <2>1. CASE i[1] = "timer"
    BY <1>0, <1>1, <2>1, SleeperFacts, Zenon
  <2>2. CASE i[1] # "timer"
    BY <1>0, <1>1, <2>2 DEF TypeOK
  <2> QED BY <2>1, <2>2
<1>8. Storm' <=> Storm
  BY <1>2 DEF Storm, InMail
<1>9. TypeOK'
  BY <1>0, <1>2, <1>5, <1>6, <1>7 DEF TypeOK
<1>10. Life'
  <2> SUFFICES ASSUME NEW j \in Inst PROVE LifeOf(j)'
    BY DEF Life
  <2>1. LifeOf(j)
    BY <1>0 DEF Life
  <2>2. JobOf(j)'
    BY <1>2, <1>5, <1>6, <2>1 DEF LifeOf, JobOf
  <2> QED BY <1>2, <2>1, <2>2 DEF LifeOf
<1>11. Fill'
  BY <1>0, <1>2, FillFrame
<1>12. Custody'
  <2>1. \A j \in Inst : job'[j].from = Main => job'[j] = job[j]
    BY <1>6, InstFacts DEF NoJob
  <2> QED BY <1>0, <1>2, <1>5, <2>1, CustodyFrame
<1>13. Virgin(Current("timer")) => Virgin(Current("timer"))'
  BY <1>2 DEF Virgin, Current
<1>14. Weather'
  <2>1. Calm => Calm'
    BY <1>2, <1>6 DEF Calm, CalmOf, Superseded, Current
  <2>2. Caused => Caused'
    BY <1>2, <1>3, <1>6 DEF Caused
  <2> QED BY <1>0, <1>2, <1>8, <1>13, <2>1, <2>2 DEF Weather, Healing
<1>15. Ticking'
  <2> SUFFICES ASSUME NEW j \in Inst, j[1] = "timer" PROVE TickOf(j)'
    BY DEF Ticking, TickOf
  <2>1. TickOf(j) /\ sleepers[j[2]] \in Nat
    BY <1>0, InstFacts DEF Ticking, TypeOK
  <2>2. CASE j = i
    BY <1>1, <1>2, <1>6, <1>7, <2>1, <2>2 DEF TickOf
  <2>3. CASE j # i
    BY <1>2, <1>6, <1>7, <2>1, <2>3 DEF TickOf
  <2> QED BY <2>2, <2>3
<1>16. MainInv'
  BY <1>0, <1>2, <1>5, <1>8, <1>13, MainFrame
<1> QED BY <1>9, <1>10, <1>11, <1>12, <1>14, <1>15, <1>16 DEF IInv

\* ResultTimer takes up Start and schedules its first tick.
LEMMA StartStep ==
  ASSUME IInv, NEW i \in Inst, HandleStart(i)
  PROVE  IInv'
<1> DEFINE m == Head(mailbox[i])
<1>0. TypeOK /\ Life /\ Fill /\ Custody /\ Weather /\ Ticking /\ MainInv
  BY DEF IInv
<1>1. /\ i[1] = "timer" /\ mailbox[i] # <<>> /\ m.op = "start" /\ job[i] = NoJob /\ state[i] = "run"
      /\ mailbox' = Taken(i) /\ started' = started \cup {i}
      /\ sleepers' = [sleepers EXCEPT ![i[2]] = @ + 1]
  BY DEF HandleStart, Ready
<1>2. /\ gen' = gen /\ state' = state /\ job' = job /\ reply' = reply /\ copy' = copy
      /\ ticks' = ticks /\ signals' = signals /\ todo' = todo /\ journal' = journal
      /\ at' = at /\ step' = step /\ ref' = ref /\ noted' = noted /\ failed' = failed
  BY DEF HandleStart, mainVars
<1>3. /\ m \in Msg /\ m \in Letters(i) /\ mailbox' \in [Inst -> Seq(Msg)]
      /\ \A j \in Inst : j # i => mailbox'[j] = mailbox[j]
      /\ \A j \in Inst : \A S : /\ Has(mailbox'[j], S) => Has(mailbox[j], S)
                                /\ Only(mailbox[j], S) => Only(mailbox'[j], S)
                                /\ Once(mailbox[j], S) => Once(mailbox'[j], S)
      /\ \A S : /\ m \in S => Has(mailbox[i], S)
                /\ m \notin S => (Has(mailbox'[i], S) <=> Has(mailbox[i], S))
                /\ Once(mailbox[i], S) /\ m \in S => ~Has(mailbox'[i], S)
  BY <1>0, <1>1, TakenFacts DEF Life, LifeOf
<1>4. m \in Starts /\ m \notin Ticks /\ m \notin MainMsg
  BY <1>1, <1>3, InstFacts DEF Letters, Starts, Ticks, MainMsg
<1> HIDE DEF m
<1>5. /\ sleepers' \in [1 .. MaxGen -> Nat] /\ sleepers'[i[2]] = sleepers[i[2]] + 1
      /\ \A j \in Inst : j[1] = "timer" /\ j # i => sleepers'[j[2]] = sleepers[j[2]]
  BY <1>0, <1>1, SleeperFacts, Zenon
<1>6. i \notin started /\ sleepers[i[2]] = 0 /\ ~Has(mailbox[i], Ticks) /\ Has(mailbox[i], Starts)
      /\ ~Has(mailbox'[i], Starts)
  BY <1>0, <1>1, <1>3, <1>4 DEF Ticking, TickOf
<1>7. Storm' <=> Storm
  BY <1>2, <1>3, <1>4 DEF Storm, InMail
<1>8. TypeOK'
  BY <1>0, <1>1, <1>2, <1>3, <1>5 DEF TypeOK
<1>9. Life'
  <2> SUFFICES ASSUME NEW j \in Inst PROVE LifeOf(j)'
    BY DEF Life
  <2>1. LifeOf(j)
    BY <1>0 DEF Life
  <2>2. state[j] \in {"unborn", "dead"} => mailbox'[j] = <<>>
    BY <1>1, <1>3, <2>1 DEF LifeOf
  <2>3. JobOf(j)'
    BY <1>2, <2>1 DEF LifeOf, JobOf
  <2> QED BY <1>1, <1>2, <1>3, <2>1, <2>2, <2>3 DEF LifeOf
<1>10. Fill'
  BY <1>0, <1>2, FillFrame
<1>11. Custody'
  BY <1>0, <1>2, <1>3, CustodyFrame
<1>12. Virgin(Current("timer")) => Virgin(Current("timer"))'
  BY <1>0, <1>1, <1>2, <1>3, <1>6, CurrentFacts DEF Virgin, Current, TypeOK, Child
<1>13. Weather'
  <2>1. Calm => Calm'
    BY <1>1, <1>2, <1>3 DEF Calm, CalmOf, Superseded, Current
  <2>2. Caused => Caused'
    BY <1>2 DEF Caused
  <2> QED BY <1>0, <1>2, <1>7, <1>12, <2>1, <2>2 DEF Weather, Healing
<1>14. Ticking'
  <2> SUFFICES ASSUME NEW j \in Inst, j[1] = "timer" PROVE TickOf(j)'
    BY DEF Ticking, TickOf
  <2>1. TickOf(j)
    BY <1>0 DEF Ticking
  <2>2. CASE j = i
    BY <1>1, <1>2, <1>3, <1>5, <1>6, <2>1, <2>2 DEF TickOf
  <2>3. CASE j # i
    BY <1>1, <1>2, <1>3, <1>5, <2>1, <2>3 DEF TickOf
  <2> QED BY <2>2, <2>3
<1>15. MainInv'
  BY <1>0, <1>2, <1>7, <1>12, MainFrame
<1> QED BY <1>8, <1>9, <1>10, <1>11, <1>13, <1>14, <1>15 DEF IInv

\* What giving up changes: main's reply goes when it is main's probe.
LEMMA TimeoutFacts ==
  ASSUME IInv, NEW i \in Inst, HandleTimeout(i)
  PROVE  /\ state[i] = "run" /\ job[i] # NoJob
         /\ state'[i] = "stuck" /\ (\A j \in Inst : j # i => state'[j] = state[j])
         /\ state' \in [Inst -> {"unborn", "run", "stuck", "notify", "finish", "dead"}]
         /\ \A j \in Inst : j # i => job'[j] = job[j]
         /\ job'[i].from = Nobody
         /\ job' \in [Inst -> [op : {"none"} \cup Probe \cup {"fetch", "tick"}, from : Inst \cup {Main, Nobody},
                               on : Inst \cup {Nobody}]]
         /\ i[1] = "calculator" => job'[i].op = job[i].op
         /\ i[1] # "calculator" => job'[i] = NoJob
         /\ reply' \in [Inst \cup {Main} -> {"none", "wait", "ok", "dropped"}]
         /\ \A v \in Inst : v # i => reply'[v] = reply[v]
         /\ reply'[Main] = IF i[1] = "calculator" THEN "dropped" ELSE reply[Main]
         /\ Storm
<1>0. TypeOK /\ Life /\ Weather
  BY DEF IInv
<1>1. /\ state[i] = "run" /\ job[i] # NoJob /\ Stuck(i)
      /\ reply' = [Settled(job[i].from, "dropped") EXCEPT ![i] = "none"]
      /\ job' = [job EXCEPT ![i] = IF Journaled(i) = <<>> THEN NoJob
                                  ELSE [op |-> job[i].op, from |-> Nobody, on |-> Nobody]]
      /\ state' = [state EXCEPT ![i] = "stuck"]
  BY DEF HandleTimeout
<1>2. /\ state'[i] = "stuck" /\ (\A j \in Inst : j # i => state'[j] = state[j])
      /\ state' \in [Inst -> {"unborn", "run", "stuck", "notify", "finish", "dead"}]
  BY <1>0, <1>1 DEF TypeOK
<1>3. NoJob \in [op : {"none"} \cup Probe \cup {"fetch", "tick"}, from : Inst \cup {Main, Nobody},
                 on : Inst \cup {Nobody}] /\ NoJob.from = Nobody
  BY DEF NoJob
<1>4. CASE i[1] = "calculator"
  <2>1. job[i].op \in Probe /\ job[i].from = Main /\ reply[Main] = "wait" /\ Storm
    BY <1>1, <1>4, StuckFacts
  <2>2. Journaled(i) # <<>>
    <3>1. Journaled(i) = <<job[i].op>> /\ Len(<<job[i].op>>) = 1 /\ Len(<<>>) = 0
      BY <1>4, <2>1 DEF Journaled
    <3> QED BY <3>1
  <2> DEFINE kept == [op |-> job[i].op, from |-> Nobody, on |-> Nobody]
  <2>3. /\ kept \in [op : {"none"} \cup Probe \cup {"fetch", "tick"}, from : Inst \cup {Main, Nobody},
                     on : Inst \cup {Nobody}]
        /\ kept.from = Nobody /\ kept.op = job[i].op
    BY <2>1
  <2>4. job' = [job EXCEPT ![i] = kept]
    BY <1>1, <2>2
  <2> HIDE DEF kept
  <2>5. /\ job'[i] = kept /\ (\A j \in Inst : j # i => job'[j] = job[j])
        /\ job' \in [Inst -> [op : {"none"} \cup Probe \cup {"fetch", "tick"}, from : Inst \cup {Main, Nobody},
                              on : Inst \cup {Nobody}]]
    BY <1>0, <2>3, <2>4 DEF TypeOK
  <2>6. /\ reply' \in [Inst \cup {Main} -> {"none", "wait", "ok", "dropped"}]
        /\ \A v \in Inst : v # i => reply'[v] = reply[v]
        /\ reply'[Main] = "dropped"
    BY <1>0, <1>1, <2>1, InstFacts, SMTT(30) DEF Settled, TypeOK
  <2> QED BY <1>1, <1>2, <1>4, <2>1, <2>3, <2>5, <2>6
<1>5. CASE i[1] # "calculator"
  <2>1. job[i].op \notin Probe /\ job[i].from = Nobody /\ job[i].on \in Inst /\ job[i].on[1] = "calculator"
    BY <1>0, <1>1, <1>5 DEF Life, LifeOf, JobOf
  <2>2. Journaled(i) = <<>>
    BY <1>5 DEF Journaled
  <2>3. job' = [job EXCEPT ![i] = NoJob]
    BY <1>1, <2>2
  <2>4. /\ job'[i] = NoJob /\ (\A j \in Inst : j # i => job'[j] = job[j])
        /\ job' \in [Inst -> [op : {"none"} \cup Probe \cup {"fetch", "tick"}, from : Inst \cup {Main, Nobody},
                              on : Inst \cup {Nobody}]]
    BY <1>0, <1>3, <2>3 DEF TypeOK
  <2>5. /\ reply' \in [Inst \cup {Main} -> {"none", "wait", "ok", "dropped"}]
        /\ \A v \in Inst : v # i => reply'[v] = reply[v]
        /\ reply'[Main] = reply[Main]
    BY <1>0, <1>1, <2>1, InstFacts, ZenonT(30) DEF Settled, TypeOK
  <2>6. job[job[i].on] # NoJob
    BY <1>1, <1>5, <2>1 DEF Stuck, Probe
  <2>7. Storm
    <3>1. ~Calm
      BY <2>1, <2>6 DEF Calm, CalmOf
    <3> QED BY <1>0, <3>1 DEF Weather
  <2> QED BY <1>1, <1>2, <1>3, <1>5, <2>4, <2>5, <2>7
<1> QED BY <1>4, <1>5

\* An actor gives up, which it does in a storm only.
LEMMA TimeoutStep ==
  ASSUME IInv, NEW i \in Inst, HandleTimeout(i)
  PROVE  IInv'
<1>0. TypeOK /\ Life /\ Fill /\ Custody /\ Weather /\ Ticking /\ MainInv
  BY DEF IInv
<1>1. /\ state[i] = "run" /\ job[i] # NoJob
      /\ state'[i] = "stuck" /\ (\A j \in Inst : j # i => state'[j] = state[j])
      /\ state' \in [Inst -> {"unborn", "run", "stuck", "notify", "finish", "dead"}]
      /\ \A j \in Inst : j # i => job'[j] = job[j]
      /\ job'[i].from = Nobody
      /\ job' \in [Inst -> [op : {"none"} \cup Probe \cup {"fetch", "tick"}, from : Inst \cup {Main, Nobody},
                            on : Inst \cup {Nobody}]]
      /\ i[1] = "calculator" => job'[i].op = job[i].op
      /\ i[1] # "calculator" => job'[i] = NoJob
  BY TimeoutFacts
<1>2. /\ gen' = gen /\ mailbox' = mailbox /\ started' = started /\ copy' = copy /\ journal' = journal
      /\ ticks' = ticks /\ signals' = signals /\ todo' = todo /\ sleepers' = sleepers
      /\ at' = at /\ step' = step /\ ref' = ref /\ noted' = noted /\ failed' = failed
  BY DEF HandleTimeout, mainVars
<1>3. /\ reply' \in [Inst \cup {Main} -> {"none", "wait", "ok", "dropped"}]
      /\ \A v \in Inst : v # i => reply'[v] = reply[v]
      /\ reply'[Main] = IF i[1] = "calculator" THEN "dropped" ELSE reply[Main]
      /\ Storm
  BY TimeoutFacts
<1>4. i[1] = "calculator" =>
        /\ step = "wait" /\ reply[Main] = "wait" /\ ~InMail /\ i = ref /\ Script[at].op \in Probe
        /\ job[i].op \in Probe
  BY <1>1, StuckFacts
<1>5. Storm'
  BY <1>2, <1>3 DEF InMail, Storm
<1>6. TypeOK'
  BY <1>0, <1>1, <1>2, <1>3 DEF TypeOK
<1>7. Life'
  <2> SUFFICES ASSUME NEW j \in Inst PROVE LifeOf(j)'
    BY DEF Life
  <2>1. LifeOf(j)
    BY <1>0 DEF Life
  <2>2. JobOf(j)'
    BY <1>1, <1>3, <1>4, <2>1 DEF LifeOf, JobOf
  <2> QED BY <1>1, <1>2, <2>1, <2>2 DEF LifeOf
<1>8. Fill'
  BY <1>0, <1>1, <1>2, CurrentFacts DEF Fill, Filled, Current, TypeOK
<1>9. Custody'
  <2> SUFFICES ASSUME NEW j \in Inst PROVE CustodyOf(j)'
    BY DEF Custody
  <2>1. CustodyOf(j)
    BY <1>0 DEF Custody
  <2>2. Strays' = Strays
    BY <1>2 DEF Strays
  <2>3. job'[j].from = Main => job'[j] = job[j] /\ i[1] # "calculator"
    <3>1. j # i => job'[j] = job[j]
      BY <1>1
    <3>2. job'[j].from = Main => j # i
      BY <1>1, InstFacts
    <3>3. i[1] = "calculator" /\ job[j].from = Main => j = i
      BY <1>4, <2>1 DEF CustodyOf
    <3> QED BY <3>1, <3>2, <3>3
  <2>4. Has(mailbox[j], MainMsg) => i[1] # "calculator"
    BY <1>4 DEF InMail
  <2> QED BY <1>2, <1>3, <2>1, <2>2, <2>3, <2>4 DEF CustodyOf
<1>10. Virgin(Current("timer")) => Virgin(Current("timer"))'
  BY <1>2 DEF Virgin, Current
<1>11. Weather'
  <2>1. Caused => Caused'
    BY <1>1, <1>2 DEF Caused
  <2> QED BY <1>0, <1>2, <1>3, <1>5, <1>10, <2>1 DEF Weather, Healing
<1>12. Ticking'
  <2> SUFFICES ASSUME NEW j \in Inst, j[1] = "timer" PROVE TickOf(j)'
    BY DEF Ticking, TickOf
  <2>1. TickOf(j)
    BY <1>0 DEF Ticking
  <2> QED BY <1>1, <1>2, <2>1 DEF TickOf
<1>13. MainInv'
  BY <1>0, <1>2, <1>3, <1>4, <1>5, <1>10, MainFrame DEF MainInv, CallOf, Current
<1> QED BY <1>6, <1>7, <1>8, <1>9, <1>11, <1>12, <1>13 DEF IInv

\* What on_handle_stuck changes.
LEMMA StuckEffect ==
  ASSUME TypeOK, NEW i \in Inst, OnHandleStuck(i)
  PROVE  /\ state[i] = "stuck" /\ journal' = journal \o Journaled(i)
         /\ job'[i] = NoJob /\ (\A j \in Inst : j # i => job'[j] = job[j])
         /\ state'[i] = "notify" /\ (\A j \in Inst : j # i => state'[j] = state[j])
         /\ state' \in [Inst -> {"unborn", "run", "stuck", "notify", "finish", "dead"}]
         /\ job' \in [Inst -> [op : {"none"} \cup Probe \cup {"fetch", "tick"}, from : Inst \cup {Main, Nobody},
                               on : Inst \cup {Nobody}]]
         /\ gen' = gen /\ mailbox' = mailbox /\ started' = started /\ copy' = copy /\ reply' = reply
         /\ ticks' = ticks /\ signals' = signals /\ todo' = todo /\ sleepers' = sleepers
         /\ at' = at /\ step' = step /\ ref' = ref /\ noted' = noted /\ failed' = failed
<1>1. /\ state[i] = "stuck" /\ journal' = journal \o Journaled(i)
      /\ job' = [job EXCEPT ![i] = NoJob] /\ state' = [state EXCEPT ![i] = "notify"]
  BY DEF OnHandleStuck
<1>2. /\ gen' = gen /\ mailbox' = mailbox /\ started' = started /\ copy' = copy /\ reply' = reply
      /\ ticks' = ticks /\ signals' = signals /\ todo' = todo /\ sleepers' = sleepers
      /\ at' = at /\ step' = step /\ ref' = ref /\ noted' = noted /\ failed' = failed
  BY DEF OnHandleStuck, mainVars
<1>3. /\ job'[i] = NoJob /\ (\A j \in Inst : j # i => job'[j] = job[j])
      /\ job' \in [Inst -> [op : {"none"} \cup Probe \cup {"fetch", "tick"}, from : Inst \cup {Main, Nobody},
                            on : Inst \cup {Nobody}]]
  BY <1>1 DEF TypeOK, NoJob
<1>4. /\ state'[i] = "notify" /\ (\A j \in Inst : j # i => state'[j] = state[j])
      /\ state' \in [Inst -> {"unborn", "run", "stuck", "notify", "finish", "dead"}]
  BY <1>1 DEF TypeOK
<1> QED BY <1>1, <1>2, <1>3, <1>4

\* The journal after on_handle_stuck.
LEMMA JournalAfter ==
  ASSUME TypeOK, NEW i \in Inst, journal' = journal \o Journaled(i)
  PROVE  /\ journal' \in Seq(Probe)
         /\ \A p : p \in Range(journal') <=>
              p \in Range(journal) \/ (i[1] = "calculator" /\ job[i].op \in Probe /\ p = job[i].op)
<1>0. journal \in Seq(Probe)
  BY DEF TypeOK
<1>1. CASE i[1] = "calculator" /\ job[i].op \in Probe
  <2> DEFINE op == job[i].op
  <2>1. op \in Probe /\ Journaled(i) = <<op>>
    BY <1>1 DEF Journaled
  <2> HIDE DEF op
  <2>2. <<op>> \in Seq(Probe) /\ Len(<<op>>) = 1 /\ <<op>>[1] = op
    BY <2>1
  <2>3. journal' = Append(journal, op)
    BY <1>0, <2>1, <2>2
  <2>4. /\ Append(journal, op) \in Seq(Probe) /\ DOMAIN journal = 1 .. Len(journal) /\ Len(journal) \in Nat
        /\ DOMAIN Append(journal, op) = 1 .. Len(journal) + 1
        /\ \A k \in DOMAIN journal : Append(journal, op)[k] = journal[k]
        /\ Append(journal, op)[Len(journal) + 1] = op
    BY <1>0, <2>1, Push, SMTT(30)
  <2>5. DOMAIN journal' = DOMAIN journal \cup {Len(journal) + 1}
    BY <2>3, <2>4
  <2>6. \A p : p \in Range(journal') <=> p \in Range(journal) \/ p = op
    BY <2>3, <2>4, <2>5 DEF Range
  <2> QED BY <1>1, <2>3, <2>4, <2>6 DEF op
<1>2. CASE ~(i[1] = "calculator" /\ job[i].op \in Probe)
  <2>1. Journaled(i) = <<>>
    BY <1>2 DEF Journaled
  <2>2. journal' = journal
    BY <1>0, <2>1, ConcatEmptySeq
  <2> QED BY <1>0, <1>2, <2>2
<1> QED BY <1>1, <1>2

\* on_handle_stuck is done.
LEMMA JournalStep ==
  ASSUME IInv, NEW i \in Inst, OnHandleStuck(i)
  PROVE  IInv'
<1>0. TypeOK /\ Life /\ Fill /\ Custody /\ Weather /\ Ticking /\ MainInv
  BY DEF IInv
<1>1. /\ state[i] = "stuck"
      /\ job'[i] = NoJob /\ (\A j \in Inst : j # i => job'[j] = job[j])
      /\ state'[i] = "notify" /\ (\A j \in Inst : j # i => state'[j] = state[j])
      /\ state' \in [Inst -> {"unborn", "run", "stuck", "notify", "finish", "dead"}]
      /\ job' \in [Inst -> [op : {"none"} \cup Probe \cup {"fetch", "tick"}, from : Inst \cup {Main, Nobody},
                            on : Inst \cup {Nobody}]]
  BY <1>0, StuckEffect
<1>2. /\ gen' = gen /\ mailbox' = mailbox /\ started' = started /\ copy' = copy /\ reply' = reply
      /\ ticks' = ticks /\ signals' = signals /\ todo' = todo /\ sleepers' = sleepers
      /\ at' = at /\ step' = step /\ ref' = ref /\ noted' = noted /\ failed' = failed
  BY <1>0, StuckEffect
<1>3. Storm
  BY <1>0, <1>1 DEF Weather, Calm, CalmOf
<1>4. Storm'
  BY <1>2, <1>3 DEF InMail, Storm
<1>5. TypeOK'
  <2>1. journal' \in Seq(Probe)
    BY <1>0, StuckEffect, JournalAfter
  <2> QED BY <1>0, <1>1, <1>2, <2>1 DEF TypeOK
<1>6. Life'
  <2> SUFFICES ASSUME NEW j \in Inst PROVE LifeOf(j)'
    BY DEF Life
  <2>1. LifeOf(j)
    BY <1>0 DEF Life
  <2>2. JobOf(j)'
    BY <1>1, <1>2, <2>1 DEF LifeOf, JobOf
  <2> QED BY <1>1, <1>2, <2>1, <2>2 DEF LifeOf
<1>7. Fill'
  BY <1>0, <1>1, <1>2, CurrentFacts DEF Fill, Filled, Current, TypeOK
<1>8. Custody'
  <2>1. \A j \in Inst : job'[j].from = Main => job'[j] = job[j]
    BY <1>1, InstFacts DEF NoJob
  <2> QED BY <1>0, <1>2, <2>1, CustodyFrame
<1>9. Virgin(Current("timer")) => Virgin(Current("timer"))'
  BY <1>2 DEF Virgin, Current
<1>10. Weather'
  <2>1. Caused => Caused'
    BY <1>1, <1>2 DEF Caused
  <2> QED BY <1>0, <1>2, <1>3, <1>4, <1>9, <2>1 DEF Weather, Healing
<1>11. Ticking'
  <2> SUFFICES ASSUME NEW j \in Inst, j[1] = "timer" PROVE TickOf(j)'
    BY DEF Ticking, TickOf
  <2>1. TickOf(j)
    BY <1>0 DEF Ticking
  <2> QED BY <1>1, <1>2, <2>1 DEF TickOf
<1>12. MainInv'
  BY <1>0, <1>2, <1>3, <1>4, <1>9, MainFrame
<1> QED BY <1>5, <1>6, <1>7, <1>8, <1>10, <1>11, <1>12 DEF IInv

\* notify_supervisor sends the signal of the instance that failed.
LEMMA NotifyStep ==
  ASSUME IInv, NEW i \in Inst, Notify(i)
  PROVE  IInv'
<1>0. TypeOK /\ Life /\ Fill /\ Custody /\ Weather /\ Ticking /\ MainInv
  BY DEF IInv
<1>1. /\ state[i] = "notify" /\ signals' = Append(signals, i)
      /\ state' = [state EXCEPT ![i] = "finish"]
  BY DEF Notify
<1>2. /\ gen' = gen /\ mailbox' = mailbox /\ job' = job /\ reply' = reply /\ started' = started /\ copy' = copy
      /\ ticks' = ticks /\ todo' = todo /\ sleepers' = sleepers /\ journal' = journal
      /\ at' = at /\ step' = step /\ ref' = ref /\ noted' = noted /\ failed' = failed
  BY DEF Notify, mainVars
<1>3. Storm
  BY <1>0, <1>1 DEF Weather, Calm, CalmOf
<1>4. /\ signals' \in Seq(Inst)
      /\ \A j \in Inst : (\E k \in DOMAIN signals' : signals'[k] = j)
                           <=> (\E k \in DOMAIN signals : signals[k] = j) \/ j = i
  <2>1. /\ Append(signals, i) \in Seq(Inst) /\ DOMAIN signals = 1 .. Len(signals) /\ Len(signals) \in Nat
        /\ DOMAIN Append(signals, i) = 1 .. Len(signals) + 1
        /\ \A k \in DOMAIN signals : Append(signals, i)[k] = signals[k]
        /\ Append(signals, i)[Len(signals) + 1] = i
    BY <1>0, Push DEF TypeOK
  <2>2. DOMAIN signals' = DOMAIN signals \cup {Len(signals) + 1}
    BY <1>1, <2>1
  <2> QED BY <1>1, <2>1, <2>2
<1>5. /\ state'[i] = "finish" /\ (\A j \in Inst : j # i => state'[j] = state[j])
      /\ state' \in [Inst -> {"unborn", "run", "stuck", "notify", "finish", "dead"}]
  BY <1>0, <1>1 DEF TypeOK
<1>6. Storm'
  BY <1>2, <1>3 DEF InMail, Storm
<1>7. TypeOK'
  BY <1>0, <1>2, <1>4, <1>5 DEF TypeOK
<1>8. Life'
  <2> SUFFICES ASSUME NEW j \in Inst PROVE LifeOf(j)'
    BY DEF Life
  <2>1. LifeOf(j)
    BY <1>0 DEF Life
  <2>2. JobOf(j)'
    BY <1>1, <1>2, <1>5, <2>1 DEF LifeOf, JobOf
  <2> QED BY <1>1, <1>2, <1>5, <2>1, <2>2 DEF LifeOf
<1>9. Fill'
  <2> SUFFICES ASSUME NEW c \in Child PROVE Filled(c)'
    BY DEF Fill
  <2>1. Filled(c) /\ Current(c)' = Current(c) /\ Current(c) \in Inst
    BY <1>0, <1>2, CurrentFacts DEF Fill, Current, TypeOK
  <2> QED BY <1>2, <1>4, <1>5, <2>1 DEF Filled
<1>10. Custody'
  BY <1>0, <1>2, CustodyFrame
<1>11. Virgin(Current("timer")) => Virgin(Current("timer"))'
  BY <1>2 DEF Virgin, Current
<1>12. Weather'
  <2>1. Caused => Caused'
    BY <1>2, <1>4, <1>5 DEF Caused
  <2> QED BY <1>0, <1>2, <1>3, <1>6, <1>11, <2>1 DEF Weather, Healing
<1>13. Ticking'
  <2> SUFFICES ASSUME NEW j \in Inst, j[1] = "timer" PROVE TickOf(j)'
    BY DEF Ticking, TickOf
  <2>1. TickOf(j)
    BY <1>0 DEF Ticking
  <2> QED BY <1>2, <1>5, <2>1 DEF TickOf
<1>14. MainInv'
  BY <1>0, <1>2, <1>3, <1>6, <1>11, MainFrame
<1> QED BY <1>7, <1>8, <1>9, <1>10, <1>12, <1>13, <1>14 DEF IInv

\* The end of a task: nobody that still counts on it loses a reply.
LEMMA EndsStep ==
  ASSUME IInv, NEW i \in Inst, Ends(i), job[i] = NoJob, ~Has(mailbox[i], MainMsg),
         state[i] = "finish" \/ (state[i] = "run" /\ Superseded(i))
  PROVE  IInv'
<1>0. TypeOK /\ Life /\ Fill /\ Custody /\ Weather /\ Ticking /\ MainInv
  BY DEF IInv
<1>1. /\ state' = [state EXCEPT ![i] = "dead"] /\ mailbox' = [mailbox EXCEPT ![i] = <<>>]
      /\ reply' = [w \in DOMAIN reply |->
                     IF reply[w] = "wait" /\ \E k \in DOMAIN mailbox[i] : mailbox[i][k].from = w
                     THEN "dropped" ELSE reply[w]]
  BY DEF Ends
<1>2. /\ gen' = gen /\ job' = job /\ signals' = signals /\ started' = started /\ copy' = copy
      /\ ticks' = ticks /\ todo' = todo /\ sleepers' = sleepers /\ journal' = journal
      /\ at' = at /\ step' = step /\ ref' = ref /\ noted' = noted /\ failed' = failed
  BY DEF Ends, mainVars
<1>3. /\ state'[i] = "dead" /\ (\A j \in Inst : j # i => state'[j] = state[j])
      /\ state' \in [Inst -> {"unborn", "run", "stuck", "notify", "finish", "dead"}]
      /\ mailbox'[i] = <<>> /\ (\A j \in Inst : j # i => mailbox'[j] = mailbox[j])
      /\ mailbox' \in [Inst -> Seq(Msg)]
      /\ \A S : ~Has(mailbox'[i], S) /\ Only(mailbox'[i], S) /\ Once(mailbox'[i], S)
  BY <1>0, <1>1, EmptyFacts DEF TypeOK
<1>4. \A k \in DOMAIN mailbox[i] : mailbox[i][k] \in Msg /\ mailbox[i][k] \in Letters(i)
                                   /\ mailbox[i][k] \notin MainMsg
  BY <1>0 DEF Life, LifeOf, Only, Has, Letters
<1>5. \A k \in DOMAIN mailbox[i] :
        /\ mailbox[i][k].from # Main
        /\ \A j \in Inst : mailbox[i][k].from = j /\ j[1] = "calculator" => j = i
  <2> SUFFICES ASSUME NEW k \in DOMAIN mailbox[i]
               PROVE  /\ mailbox[i][k].from # Main
                      /\ \A j \in Inst : mailbox[i][k].from = j /\ j[1] = "calculator" => j = i
    OBVIOUS
  <2>1. mailbox[i][k].from # Main
    BY <1>4 DEF MainMsg
  <2>2. i[1] = "calculator" \/ mailbox[i][k].from = Nobody
    BY <1>4, InstFacts DEF Letters, Child
  <2>3. ASSUME NEW j \in Inst, mailbox[i][k].from = j, j[1] = "calculator"
        PROVE  j = i
    BY <1>4, <2>2, <2>3, InstFacts DEF Letters
  <2> QED BY <2>1, <2>3
<1>6. /\ reply' \in [Inst \cup {Main} -> {"none", "wait", "ok", "dropped"}]
      /\ reply'[Main] = reply[Main]
      /\ \A j \in Inst : j[1] = "calculator" /\ j # i => reply'[j] = reply[j]
  <2>1. DOMAIN reply = Inst \cup {Main}
    BY <1>0 DEF TypeOK
  <2> QED BY <1>0, <1>1, <1>5, <2>1 DEF TypeOK
<1>7. Calm => i[1] = "timer" /\ i # Current(i[1])
  BY DEF Calm, CalmOf, Superseded
<1>8. Storm' <=> Storm
  BY <1>2, <1>3 DEF InMail, Storm
<1>9. TypeOK'
  BY <1>0, <1>2, <1>3, <1>6 DEF TypeOK
<1>10. Life'
  <2> SUFFICES ASSUME NEW j \in Inst PROVE LifeOf(j)'
    BY DEF Life
  <2>1. LifeOf(j)
    BY <1>0 DEF Life
  <2>2. JobOf(j)'
    BY <1>2, <1>3, <1>6, <2>1 DEF LifeOf, JobOf
  <2>3. CASE j = i
    BY <1>2, <1>3, <2>1, <2>2, <2>3 DEF LifeOf
  <2>4. CASE j # i
    BY <1>2, <1>3, <2>1, <2>2, <2>4 DEF LifeOf
  <2> QED BY <2>3, <2>4
<1>11. Fill'
  <2> SUFFICES ASSUME NEW c \in Child PROVE Filled(c)'
    BY DEF Fill
  <2>1. Filled(c) /\ Current(c)' = Current(c) /\ Current(c) \in Inst /\ Current(c)[1] = c
    BY <1>0, <1>2, CurrentFacts DEF Fill, Current, TypeOK
  <2> QED BY <1>2, <1>3, <2>1 DEF Filled, Superseded
<1>12. Custody'
  <2>1. \A j \in Inst : /\ Has(mailbox'[j], MainMsg) => Has(mailbox[j], MainMsg)
                        /\ Once(mailbox[j], MainMsg) => Once(mailbox'[j], MainMsg)
                        /\ Has(mailbox'[j], Strays) => Has(mailbox[j], Strays)
    BY <1>3
  <2> QED BY <1>0, <1>2, <1>6, <2>1, CustodyFrame
<1>13. Virgin(Current("timer")) => Virgin(Current("timer"))'
  BY <1>0, <1>2, <1>3, CurrentFacts DEF Virgin, Current, TypeOK, Child
<1>14. Weather'
  <2>1. Calm => Calm'
    <3> SUFFICES ASSUME Calm, NEW j \in Inst PROVE CalmOf(j)'
      BY <1>2 DEF Calm
    <3>1. CalmOf(j)
      BY DEF Calm
    <3>2. CASE j = i
      BY <1>2, <1>3, <1>7, <3>1, <3>2 DEF CalmOf, Current
    <3>3. CASE j # i
      BY <1>2, <1>3, <3>1, <3>3 DEF CalmOf, Current, Superseded
    <3> QED BY <3>2, <3>3
  <2>2. Caused => Caused'
    BY <1>2, <1>3 DEF Caused
  <2> QED BY <1>0, <1>2, <1>8, <1>13, <2>1, <2>2 DEF Weather, Healing
<1>15. Ticking'
  <2> SUFFICES ASSUME NEW j \in Inst, j[1] = "timer" PROVE TickOf(j)'
    BY DEF Ticking, TickOf
  <2>1. TickOf(j)
    BY <1>0 DEF Ticking
  <2>2. CASE j = i
    BY <1>2, <1>3, <2>1, <2>2 DEF TickOf
  <2>3. CASE j # i
    BY <1>2, <1>3, <2>1, <2>3 DEF TickOf
  <2> QED BY <2>2, <2>3
<1>16. MainInv'
  BY <1>0, <1>2, <1>6, <1>8, <1>13, MainFrame
<1> QED BY <1>9, <1>10, <1>11, <1>12, <1>14, <1>15, <1>16 DEF IInv

\* An instance that failed has nothing of main's.
LEMMA FinishFacts ==
  ASSUME IInv, NEW i \in Inst, Finish(i)
  PROVE  state[i] = "finish" /\ Ends(i) /\ job[i] = NoJob /\ ~Has(mailbox[i], MainMsg)
<1>1. state[i] = "finish" /\ Ends(i)
  BY DEF Finish
<1>2. ~Calm
  BY <1>1 DEF Calm, CalmOf
<1>3. ~Has(mailbox[i], MainMsg)
  BY <1>2, MailFacts DEF InMail
<1>4. job[i] = NoJob
  BY <1>1 DEF IInv, Life, LifeOf, JobOf
<1> QED BY <1>1, <1>3, <1>4

\* finish_actor drops the mailbox of an instance that failed.
LEMMA FinishStep ==
  ASSUME IInv, NEW i \in Inst, Finish(i)
  PROVE  IInv'
BY FinishFacts, EndsStep

\* A superseded instance nobody refers to ends.
LEMMA ClosedStep ==
  ASSUME IInv, NEW i \in Inst, MailboxClosed(i)
  PROVE  IInv'
<1>1. state[i] = "run" /\ Superseded(i) /\ job[i] = NoJob /\ mailbox[i] = <<>> /\ Ends(i)
  BY DEF MailboxClosed
<1>2. ~Has(mailbox[i], MainMsg)
  BY <1>1, EmptyFacts
<1> QED BY <1>1, <1>2, EndsStep

\* The supervisor takes a signal and begins a round.
LEMMA SignalStep ==
  ASSUME IInv, TakeSignal
  PROVE  IInv'
<1> DEFINE x == Head(signals)
<1>0. TypeOK /\ Life /\ Fill /\ Custody /\ Weather /\ Ticking /\ MainInv
  BY DEF IInv
<1>1. /\ todo = {} /\ signals # <<>> /\ signals' = Tail(signals)
      /\ todo' = {c \in Child : Order[c] >= FailedOrder(x)}
  BY DEF TakeSignal
<1>2. /\ gen' = gen /\ mailbox' = mailbox /\ job' = job /\ reply' = reply /\ started' = started /\ copy' = copy
      /\ ticks' = ticks /\ state' = state /\ sleepers' = sleepers /\ journal' = journal
      /\ at' = at /\ step' = step /\ ref' = ref /\ noted' = noted /\ failed' = failed
  BY DEF TakeSignal, mainVars
<1>3. Storm /\ Storm'
  BY <1>0, <1>1, <1>2 DEF Weather, Calm, Storm, InMail
<1>4. /\ x \in Inst /\ signals' \in Seq(Inst)
      /\ \A j \in Inst : (\E k \in DOMAIN signals : signals[k] = j)
                           => (\E k \in DOMAIN signals' : signals'[k] = j) \/ j = x
  <2>1. /\ Tail(signals) \in Seq(Inst) /\ x \in Inst /\ x = signals[1] /\ Len(signals) \in Nat
        /\ DOMAIN signals = 1 .. Len(signals) /\ DOMAIN Tail(signals) = 1 .. Len(signals) - 1
        /\ \A k \in DOMAIN Tail(signals) : Tail(signals)[k] = signals[k + 1]
    BY <1>0, <1>1, Pop DEF TypeOK
  <2> HIDE DEF x
  <2>2. \A k \in DOMAIN signals : k = 1 \/ (k - 1 \in DOMAIN Tail(signals) /\ Tail(signals)[k - 1] = signals[k])
    BY <2>1
  <2> QED BY <1>1, <2>1, <2>2
<1> HIDE DEF x
<1>5. /\ todo' \subseteq Child
      /\ x = Current(x[1]) => x[1] \in todo'
      /\ x[1] = "calculator" => "calculator" \in todo' /\ "timer" \in todo'
  <2>1. x[1] \in Child
    BY <1>4, InstFacts
  <2>2. Order["calculator"] = 0 /\ Order["timer"] = 1 /\ Order["ledger"] = 2
    BY DEF Order
  <2>3. FailedOrder(x) = 0 \/ FailedOrder(x) = Order[x[1]]
    BY DEF FailedOrder
  <2>4. x = Current(x[1]) => FailedOrder(x) = Order[x[1]]
    BY DEF FailedOrder, Superseded
  <2> QED BY <1>1, <2>1, <2>2, <2>3, <2>4 DEF Child
<1>6. TypeOK'
  BY <1>0, <1>2, <1>4, <1>5 DEF TypeOK
<1>7. Life'
  BY <1>0, <1>2 DEF Life, LifeOf, JobOf
<1>8. Fill'
  <2> SUFFICES ASSUME NEW c \in Child PROVE Filled(c)'
    BY DEF Fill
  <2>1. Filled(c) /\ Current(c)' = Current(c) /\ Current(c) \in Inst /\ Current(c)[1] = c
    BY <1>0, <1>2, CurrentFacts DEF Fill, Current, TypeOK
  <2> QED BY <1>1, <1>2, <1>4, <1>5, <2>1 DEF Filled
<1>9. Custody'
  BY <1>0, <1>2, CustodyFrame
<1>10. Virgin(Current("timer")) => Virgin(Current("timer"))'
  BY <1>2 DEF Virgin, Current
<1>11. Weather'
  <2>1. Caused => Caused' \/ x[1] = "calculator"
    BY <1>2, <1>4 DEF Caused
  <2> QED BY <1>0, <1>1, <1>2, <1>3, <1>5, <1>10, <2>1 DEF Weather, Healing
<1>12. Ticking'
  BY <1>0, <1>2 DEF Ticking, TickOf
<1>13. MainInv'
  BY <1>0, <1>2, <1>3, <1>10, MainFrame
<1> QED BY <1>6, <1>7, <1>8, <1>9, <1>11, <1>12, <1>13 DEF IInv

\* The supervisor replaces the next child of its round.
LEMMA RestartStep ==
  ASSUME IInv, RestartChild
  PROVE  IInv'
<1>0. TypeOK /\ Life /\ Fill /\ Custody /\ Weather /\ Ticking /\ MainInv
  BY DEF IInv
<1>1. PICK c \in todo : /\ gen[c] < MaxGen /\ gen' = [gen EXCEPT ![c] = @ + 1]
                        /\ state' = [state EXCEPT ![<<c, gen[c] + 1>>] = "run"]
                        /\ todo' = todo \ {c}
  BY DEF RestartChild
<1>2. /\ signals' = signals /\ mailbox' = mailbox /\ job' = job /\ reply' = reply /\ started' = started
      /\ copy' = copy /\ ticks' = ticks /\ sleepers' = sleepers /\ journal' = journal
      /\ at' = at /\ step' = step /\ ref' = ref /\ noted' = noted /\ failed' = failed
  BY DEF RestartChild, mainVars
<1>3. c \in Child /\ gen[c] \in 1 .. MaxGen /\ gen[c] + 1 \in 1 .. MaxGen
  BY <1>0, <1>1, BoundsAssumption, SMTT(30) DEF TypeOK
<1> DEFINE n == <<c, gen[c] + 1>>
<1>4. n \in Inst /\ n[1] = c /\ n[2] = gen[c] + 1
  BY <1>3, InstFacts
<1>5. /\ gen' \in [Child -> 1 .. MaxGen] /\ gen'[c] = gen[c] + 1
      /\ \A d \in Child : d # c => gen'[d] = gen[d]
  BY <1>0, <1>1, <1>3 DEF TypeOK
<1>6. state[n] = "unborn" /\ mailbox[n] = <<>> /\ n \notin started /\ job[n] = NoJob
  <2>1. LifeOf(n) /\ n[2] > gen[n[1]]
    BY <1>0, <1>3, <1>4 DEF Life, TypeOK
  <2> QED BY <2>1 DEF LifeOf, JobOf
<1>7. Current(c)' = n /\ \A d \in Child : d # c => Current(d)' = Current(d)
  BY <1>5 DEF Current
<1>8. state' = [state EXCEPT ![n] = "run"]
  BY <1>1
<1> HIDE DEF n
<1>9. /\ state'[n] = "run" /\ (\A j \in Inst : j # n => state'[j] = state[j])
      /\ state' \in [Inst -> {"unborn", "run", "stuck", "notify", "finish", "dead"}]
  BY <1>0, <1>4, <1>8 DEF TypeOK
<1>10. Storm /\ Storm'
  BY <1>0, <1>1, <1>2 DEF Weather, Calm, Storm, InMail
<1>11. TypeOK'
  BY <1>0, <1>1, <1>2, <1>5, <1>9 DEF TypeOK
<1>12. Life'
  <2> SUFFICES ASSUME NEW j \in Inst PROVE LifeOf(j)'
    BY DEF Life
  <2>1. LifeOf(j) /\ j[1] \in Child /\ j[2] \in 1 .. MaxGen
    BY <1>0, InstFacts DEF Life
  <2>2. JobOf(j)'
    BY <1>2, <1>6, <1>9, <2>1 DEF LifeOf, JobOf
  <2>3. state'[j] = "unborn" <=> j[2] > gen'[j[1]]
    <3>1. CASE j = n
      BY <1>3, <1>4, <1>5, <1>9, <3>1
    <3>2. CASE j # n /\ j[1] = c
      <4>1. j[2] # gen[c] + 1
        <5>1. j = <<j[1], j[2]>>
          BY InstFacts
        <5> QED BY <3>2, <5>1, Zenon DEF n
      <4> QED BY <1>3, <1>5, <1>9, <2>1, <3>2, <4>1 DEF LifeOf
    <3>3. CASE j[1] # c
      BY <1>4, <1>5, <1>9, <2>1, <3>3 DEF LifeOf
    <3> QED BY <3>1, <3>2, <3>3
  <2> QED BY <1>2, <1>6, <1>9, <2>1, <2>2, <2>3 DEF LifeOf
<1>13. Fill'
  <2> SUFFICES ASSUME NEW d \in Child PROVE Filled(d)'
    BY DEF Fill
  <2>1. Filled(d) /\ Current(d) \in Inst /\ Current(d)[1] = d
    BY <1>0, CurrentFacts DEF Fill, TypeOK
  <2>2. CASE d = c
    BY <1>7, <1>9, <2>2 DEF Filled
  <2>3. CASE d # c
    BY <1>1, <1>2, <1>4, <1>7, <1>9, <2>1, <2>3 DEF Filled
  <2> QED BY <2>2, <2>3
<1>14. Custody'
  BY <1>0, <1>2, CustodyFrame
<1>15. "timer" \in todo \/ Virgin(Current("timer")) => "timer" \in todo' \/ Virgin(Current("timer"))'
  <2>1. ~Has(<<>>, Starts)
    BY EmptyFacts
  <2>2. CASE c = "timer"
    BY <1>2, <1>6, <1>7, <2>1, <2>2 DEF Virgin
  <2>3. CASE c # "timer"
    BY <1>1, <1>2, <1>7, <2>3 DEF Virgin, Child
  <2> QED BY <2>2, <2>3
<1>16. noted <= gen'["calculator"] /\ gen'["calculator"] >= gen["calculator"]
       /\ (c = "calculator" => gen'["calculator"] > noted)
  <2>1. "calculator" \in Child /\ gen["calculator"] \in Nat /\ noted \in Nat /\ noted <= gen["calculator"]
    BY <1>0 DEF MainInv, TypeOK, Child
  <2>2. gen'["calculator"] = gen["calculator"] + 1 \/ (c # "calculator" /\ gen'["calculator"] = gen["calculator"])
    BY <1>5, <2>1
  <2> QED BY <2>1, <2>2
<1>17. Weather'
  <2>1. Caused => Caused'
    BY <1>2, <1>6, <1>9 DEF Caused
  <2>2. "calculator" \in todo \/ gen["calculator"] > noted => "calculator" \in todo' \/ gen'["calculator"] > noted
    BY <1>0, <1>1, <1>5, <1>16 DEF TypeOK, Child
  <2> QED BY <1>0, <1>2, <1>10, <1>15, <2>1, <2>2 DEF Weather, Healing
<1>18. Ticking'
  <2> SUFFICES ASSUME NEW j \in Inst, j[1] = "timer" PROVE TickOf(j)'
    BY DEF Ticking, TickOf
  <2>1. TickOf(j)
    BY <1>0 DEF Ticking
  <2> QED BY <1>2, <1>6, <1>9, <2>1 DEF TickOf
<1>19. MainInv'
  <2>1. step # "held"
    <3>1. at \in {9, 15, 19} => Script[at].op \notin Calls
      <4>1. \A k \in 1 .. 25 : Script[k].op \in Calls <=> k \notin {6, 7, 9, 10, 13, 15, 19, 21, 25}
        BY <1>0, LineFacts DEF TypeOK
      <4> QED BY <4>1
    <3> QED BY <1>0, <1>10, <3>1 DEF Storm, MainInv
  <2>2. at = 10 \/ at \in 16 .. 21 => gen'["calculator"] > noted
    BY <1>0, <1>5, <1>16 DEF MainInv, TypeOK, Child
  <2> QED BY <1>0, <1>2, <1>10, <1>16, <2>1, <2>2 DEF MainInv
<1> QED BY <1>11, <1>12, <1>13, <1>14, <1>17, <1>18, <1>19 DEF IInv

\* A tick that slept comes into the timer's mailbox.
LEMMA TickStep ==
  ASSUME IInv, NEW g \in 1 .. MaxGen, Tick(g)
  PROVE  IInv'
<1> DEFINE i == <<"timer", g>>
           tick == Message("tick", Nobody)
<1>0. TypeOK /\ Life /\ Fill /\ Custody /\ Weather /\ Ticking /\ MainInv
  BY DEF IInv
<1>1. /\ sleepers[g] > 0 /\ ticks < MaxTicks /\ ticks' = ticks + 1
      /\ sleepers' = [sleepers EXCEPT ![g] = @ - 1]
      /\ mailbox' = IF Accepts(i) THEN [mailbox EXCEPT ![i] = Append(@, tick)] ELSE mailbox
  BY DEF Tick
<1>2. /\ gen' = gen /\ job' = job /\ state' = state /\ signals' = signals /\ started' = started /\ copy' = copy
      /\ todo' = todo /\ reply' = reply /\ journal' = journal
      /\ at' = at /\ step' = step /\ ref' = ref /\ noted' = noted /\ failed' = failed
  BY DEF Tick, mainVars
<1>3. i \in Inst /\ i[1] = "timer" /\ i[2] = g
  BY InstFacts DEF Child
<1>4. tick \in Msg /\ tick \in Ticks /\ tick \notin Starts /\ tick \notin MainMsg /\ tick \in Letters(i)
  BY <1>3, MessageFacts, InstFacts DEF Letters
<1> HIDE DEF i, tick
<1>5. /\ mailbox' \in [Inst -> Seq(Msg)]
      /\ \A j \in Inst : j # i => mailbox'[j] = mailbox[j]
      /\ ~Accepts(i) => mailbox' = mailbox
      /\ \A S : /\ tick \notin S => (Has(mailbox'[i], S) <=> Has(mailbox[i], S))
                /\ tick \notin S /\ Once(mailbox[i], S) => Once(mailbox'[i], S)
                /\ tick \in S /\ Only(mailbox[i], S) => Only(mailbox'[i], S)
                /\ tick \in S /\ Accepts(i) => Has(mailbox'[i], S) /\ (~Has(mailbox[i], S) => Once(mailbox'[i], S))
  <2>0. mailbox \in [Inst -> Seq(Msg)]
    BY <1>0 DEF TypeOK
  <2>1. CASE Accepts(i)
    <3>1. mailbox' = [mailbox EXCEPT ![i] = Append(@, tick)]
      BY <1>1, <2>1
    <3>2. /\ mailbox' \in [Inst -> Seq(Msg)]
          /\ \A j \in Inst : j # i => mailbox'[j] = mailbox[j]
          /\ \A S : /\ Has(mailbox'[i], S) <=> Has(mailbox[i], S) \/ tick \in S
                    /\ Only(mailbox[i], S) /\ tick \in S => Only(mailbox'[i], S)
                    /\ Once(mailbox[i], S) /\ tick \notin S => Once(mailbox'[i], S)
                    /\ ~Has(mailbox[i], S) => Once(mailbox'[i], S)
      BY <1>3, <1>4, <2>0, <3>1, SentFacts, ZenonT(30)
    <3> QED BY <2>1, <3>2
  <2>2. CASE ~Accepts(i)
    BY <1>1, <2>0, <2>2
  <2> QED BY <2>1, <2>2
<1>6. /\ sleepers' \in [1 .. MaxGen -> Nat] /\ sleepers'[g] = sleepers[g] - 1
      /\ \A j \in Inst : j[1] = "timer" /\ j # i => sleepers'[j[2]] = sleepers[j[2]]
  <2>1. /\ sleepers' \in [1 .. MaxGen -> Nat] /\ sleepers'[g] = sleepers[g] - 1
        /\ \A h \in 1 .. MaxGen : h # g => sleepers'[h] = sleepers[h]
    <3>1. sleepers \in [1 .. MaxGen -> Nat]
      BY <1>0 DEF TypeOK
    <3>2. sleepers[g] \in Nat /\ sleepers[g] - 1 \in Nat
      BY <1>1, <3>1
    <3> QED BY <1>1, <3>1, <3>2
  <2>2. ASSUME NEW j \in Inst, j[1] = "timer", j # i PROVE j[2] \in 1 .. MaxGen /\ j[2] # g
    <3>1. j = <<j[1], j[2]>> /\ j[2] \in 1 .. MaxGen
      BY InstFacts
    <3> QED BY <2>2, <3>1, Zenon DEF i
  <2> QED BY <2>1, <2>2
<1>7. i \in started
  BY <1>0, <1>1, <1>3 DEF Ticking, TickOf
<1>8. Storm' <=> Storm
  BY <1>2, <1>3, <1>4, <1>5 DEF Storm, InMail
<1>9. TypeOK'
  <2>1. ticks' \in 0 .. MaxTicks
    BY <1>0, <1>1, BoundsAssumption DEF TypeOK
  <2> QED BY <1>0, <1>2, <1>5, <1>6, <2>1 DEF TypeOK
<1>10. Life'
  <2> SUFFICES ASSUME NEW j \in Inst PROVE LifeOf(j)'
    BY DEF Life
  <2>1. LifeOf(j)
    BY <1>0 DEF Life
  <2>2. state[j] \in {"unborn", "dead"} => mailbox'[j] = <<>>
    BY <1>5, <2>1 DEF LifeOf, Accepts
  <2>3. JobOf(j)' /\ Only(mailbox'[j], Letters(j))
    BY <1>2, <1>4, <1>5, <2>1 DEF LifeOf, JobOf
  <2> QED BY <1>2, <2>1, <2>2, <2>3 DEF LifeOf
<1>11. Fill'
  BY <1>0, <1>2, FillFrame
<1>12. Custody'
  <2>1. tick \notin Strays
    BY <1>4 DEF Strays, MainMsg
  <2>2. \A j \in Inst : /\ Has(mailbox'[j], MainMsg) => Has(mailbox[j], MainMsg)
                        /\ Once(mailbox[j], MainMsg) => Once(mailbox'[j], MainMsg)
                        /\ Has(mailbox'[j], Strays) => Has(mailbox[j], Strays)
    BY <1>4, <1>5, <2>1
  <2> QED BY <1>0, <1>2, <2>2, CustodyFrame
<1>13. Virgin(Current("timer")) => Virgin(Current("timer"))'
  BY <1>0, <1>2, <1>4, <1>5, CurrentFacts DEF Virgin, Current, TypeOK, Child
<1>14. Weather'
  <2>1. Calm => Calm'
    BY <1>2, <1>3, <1>5 DEF Calm, CalmOf, Superseded, Current
  <2>2. Caused => Caused'
    BY <1>2 DEF Caused
  <2> QED BY <1>0, <1>2, <1>8, <1>13, <2>1, <2>2 DEF Weather, Healing
<1>15. Ticking'
  <2> SUFFICES ASSUME NEW j \in Inst, j[1] = "timer" PROVE TickOf(j)'
    BY DEF Ticking, TickOf
  <2>1. TickOf(j)
    BY <1>0 DEF Ticking
  <2>2. CASE j = i
    <3>1. state[i] = "run" => Accepts(i)
      BY DEF Accepts
    <3>2. Once(mailbox'[i], Starts) /\ ~Has(mailbox'[i], Starts)
      BY <1>3, <1>4, <1>5, <1>7, <2>1, <2>2 DEF TickOf
    <3>3. state[i] = "run" => /\ sleepers'[g] = 0 /\ job[i] = NoJob
                              /\ Has(mailbox'[i], Ticks) /\ Once(mailbox'[i], Ticks)
      BY <1>1, <1>3, <1>4, <1>5, <1>6, <1>7, <2>1, <2>2, <3>1 DEF TickOf
    <3> QED BY <1>2, <1>3, <1>7, <2>2, <3>2, <3>3 DEF TickOf
  <2>3. CASE j # i
    BY <1>2, <1>5, <1>6, <2>1, <2>3 DEF TickOf
  <2> QED BY <2>2, <2>3
<1>16. MainInv'
  BY <1>0, <1>2, <1>8, <1>13, MainFrame
<1> QED BY <1>9, <1>10, <1>11, <1>12, <1>14, <1>15, <1>16 DEF IInv

-----------------------------------------------------------------------------
(* Steps of main                                                           *)

\* Between calls no message of main is anywhere.
LEMMA IdleFacts ==
  ASSUME IInv, reply[Main] # "wait"
  PROVE  ~InMail /\ \A j \in Inst : ~Has(mailbox[j], MainMsg) /\ job[j].from # Main
BY DEF IInv, Custody, CustodyOf, InMail

\* main moves to the next line and touches no actor.
LEMMA MoveFacts ==
  ASSUME IInv, Running, Advance, reply[Main] # "wait", reply'[Main] = "none",
         \A j \in Inst : reply'[j] = reply[j],
         reply' \in [Inst \cup {Main} -> {"none", "wait", "ok", "dropped"}],
         noted' \in 0 .. MaxGen, failed' \in BOOLEAN,
         UNCHANGED <<gen, state, mailbox, job, started, sleepers, ticks, signals, todo, journal, copy>>
  PROVE  /\ TypeOK' /\ Life' /\ Fill' /\ Custody' /\ Ticking' /\ ~InMail'
         /\ Storm' <=> at + 1 \in {9, 15, 19}
         /\ Calm => Calm'
         /\ Virgin(Current("timer")) => Virgin(Current("timer"))'
         /\ at \in 1 .. 25 /\ at' = at + 1 /\ step' = "ready" /\ gen' = gen
<1>0. TypeOK /\ Life /\ Fill /\ Custody /\ Weather /\ Ticking /\ MainInv
  BY DEF IInv
<1>1. at \in 1 .. 25 /\ Len(Script) = 25
  BY <1>0, LineFacts, ScriptFacts DEF TypeOK
<1>2. at' = at + 1 /\ step' = "ready" /\ ref' = Nobody
  BY DEF Advance
<1>3. /\ gen' = gen /\ state' = state /\ mailbox' = mailbox /\ job' = job /\ started' = started
      /\ sleepers' = sleepers /\ ticks' = ticks /\ signals' = signals /\ todo' = todo
      /\ journal' = journal /\ copy' = copy
  OBVIOUS
<1>4. ~InMail' /\ \A j \in Inst : ~Has(mailbox[j], MainMsg) /\ job[j].from # Main
  BY <1>3, IdleFacts DEF InMail
<1>5. TypeOK'
  BY <1>0, <1>1, <1>2, <1>3 DEF TypeOK
<1>6. Life'
  BY <1>0, <1>3 DEF Life, LifeOf, JobOf
<1>7. Fill'
  BY <1>0, <1>3, FillFrame
<1>8. Custody'
  <2>1. Strays' \subseteq MainMsg
    BY DEF Strays, MainMsg
  <2>2. \A j \in Inst : ~Has(mailbox[j], Strays') /\ Once(mailbox[j], MainMsg)
    BY <1>4, <2>1 DEF Has, Once
  <2> QED BY <1>3, <1>4, <2>2 DEF Custody, CustodyOf
<1>9. Ticking'
  BY <1>0, <1>3 DEF Ticking, TickOf
<1>10. Storm' <=> at + 1 \in {9, 15, 19}
  BY <1>2 DEF Storm
<1>11. Calm => Calm'
  BY <1>3 DEF Calm, CalmOf, Superseded, Current
<1>12. Virgin(Current("timer")) => Virgin(Current("timer"))'
  BY <1>3 DEF Virgin, Current
<1> QED BY <1>1, <1>2, <1>3, <1>4, <1>5, <1>6, <1>7, <1>8, <1>9, <1>10, <1>11, <1>12

\* main looks the ref of its next call up.
LEMMA LookupStep ==
  ASSUME IInv, Lookup
  PROVE  IInv'
<1>0. TypeOK /\ Life /\ Fill /\ Custody /\ Weather /\ Ticking /\ MainInv
  BY DEF IInv
<1>1. /\ Running /\ Script[at].op \in Calls /\ step = "ready" /\ step' = "held" /\ ref' = Current(CallOf)
      /\ at' = at /\ noted' = noted /\ failed' = failed
  BY DEF Lookup, Doing, CallOf
<1>2. /\ gen' = gen /\ state' = state /\ mailbox' = mailbox /\ job' = job /\ started' = started
      /\ sleepers' = sleepers /\ ticks' = ticks /\ signals' = signals /\ todo' = todo
      /\ journal' = journal /\ copy' = copy /\ reply' = reply
  BY DEF Lookup, appVars
<1>3. reply[Main] = "none" /\ ~InMail /\ \A j \in Inst : ~Has(mailbox[j], MainMsg) /\ job[j].from # Main
  <2>1. reply[Main] = "none"
    BY <1>0, <1>1 DEF MainInv
  <2> QED BY <2>1, IdleFacts
<1>4. at \in 1 .. 25 /\ at \notin {9, 15, 19}
  <2>1. at \in 1 .. 25
    BY <1>0, <1>1, LineFacts DEF TypeOK
  <2> QED BY <1>0, <1>1, <2>1, LineFacts DEF TypeOK
<1>5. ~Storm /\ ~Storm'
  BY <1>1, <1>4 DEF Storm
<1>6. Current(CallOf) \in Inst
  BY <1>0, CurrentFacts DEF TypeOK, CallOf, Child
<1>7. TypeOK'
  BY <1>0, <1>1, <1>2, <1>6 DEF TypeOK
<1>8. Life'
  BY <1>0, <1>2 DEF Life, LifeOf, JobOf
<1>9. Fill'
  BY <1>0, <1>2, FillFrame
<1>10. Custody'
  <2>1. Strays' = Strays
    BY <1>1 DEF Strays
  <2> QED BY <1>0, <1>2, <1>3, <2>1 DEF Custody, CustodyOf
<1>11. Weather'
  <2>1. Calm => Calm'
    BY <1>2 DEF Calm, CalmOf, Superseded, Current
  <2> QED BY <1>0, <1>5, <2>1 DEF Weather
<1>12. Ticking'
  BY <1>0, <1>2 DEF Ticking, TickOf
<1>13. MainInv'
  <2>1. Virgin(Current("timer")) => Virgin(Current("timer"))'
    BY <1>2 DEF Virgin, Current
  <2>2. at <= Len(Script)
    BY <1>1 DEF Running
  <2> QED BY <1>0, <1>1, <1>2, <1>3, <1>5, <2>1, <2>2 DEF MainInv, CallOf, Current
<1> QED BY <1>7, <1>8, <1>9, <1>10, <1>11, <1>12, <1>13 DEF IInv

\* Whatever main looked up is still there when it sends.
LEMMA HeldFacts ==
  ASSUME IInv, SendCall
  PROVE  /\ at \in 1 .. 25 /\ Script[at].op \in Calls /\ at \notin {9, 15, 19} /\ Running /\ step = "held"
         /\ ~Storm /\ Calm /\ reply[Main] = "none" /\ ref = Current(CallOf) /\ ref \in Inst /\ ref[1] = CallOf
         /\ state[ref] = "run" /\ Accepts(ref) /\ failed' = FALSE
<1>0. TypeOK /\ Weather /\ MainInv
  BY DEF IInv
<1>1. Running /\ Script[at].op \in Calls /\ step = "held" /\ failed' = ~Accepts(ref)
  BY DEF SendCall, Doing
<1>2. at \in 1 .. 25 /\ at \notin {9, 15, 19}
  <2>1. at \in 1 .. 25
    BY <1>0, <1>1, LineFacts DEF TypeOK
  <2> QED BY <1>0, <1>1, <2>1, LineFacts DEF TypeOK
<1>3. ~Storm /\ Calm
  BY <1>0, <1>1, <1>2 DEF Storm, Weather
<1>4. ref = Current(CallOf) /\ reply[Main] = "none"
  BY <1>0, <1>1 DEF MainInv
<1>5. ref \in Inst /\ ref[1] = CallOf
  BY <1>0, <1>4, CurrentFacts DEF TypeOK, CallOf, Child
<1>6. state[ref] = "run"
  BY <1>3, <1>4, <1>5 DEF Calm, CalmOf
<1> QED BY <1>1, <1>2, <1>3, <1>4, <1>5, <1>6 DEF Accepts

\* TimerStart, which main does not wait for.
LEMMA SendStartStep ==
  ASSUME IInv, SendCall, Script[at].op = "start"
  PROVE  IInv'
<1> DEFINE m == Message("start", Nobody)
<1>0. TypeOK /\ Life /\ Fill /\ Custody /\ Weather /\ Ticking /\ MainInv
  BY DEF IInv
<1>1. /\ at \in 1 .. 25 /\ ~Storm /\ Calm /\ reply[Main] = "none" /\ step = "held"
      /\ ref \in Inst /\ ref[1] = "timer" /\ ref = Current("timer")
      /\ state[ref] = "run" /\ Accepts(ref) /\ failed' = FALSE
  BY HeldFacts DEF CallOf
<1>2. /\ mailbox' = [mailbox EXCEPT ![ref] = Append(@, m)]
      /\ at' = at + 1 /\ step' = "ready" /\ ref' = Nobody /\ reply' = reply
  BY <1>1 DEF SendCall, Advance
<1>3. /\ gen' = gen /\ state' = state /\ job' = job /\ started' = started
      /\ sleepers' = sleepers /\ ticks' = ticks /\ signals' = signals /\ todo' = todo
      /\ journal' = journal /\ copy' = copy /\ noted' = noted
  BY DEF SendCall
<1>4. m \in Msg /\ m \notin Ticks /\ m \notin MainMsg /\ m \in Letters(ref)
  BY <1>1, MessageFacts, InstFacts, ZenonT(30) DEF Letters
<1> HIDE DEF m
<1>5. /\ mailbox' \in [Inst -> Seq(Msg)]
      /\ \A j \in Inst : j # ref => mailbox'[j] = mailbox[j]
      /\ \A S : /\ Has(mailbox'[ref], S) <=> Has(mailbox[ref], S) \/ m \in S
                /\ Only(mailbox[ref], S) /\ m \in S => Only(mailbox'[ref], S)
                /\ Once(mailbox[ref], S) /\ m \notin S => Once(mailbox'[ref], S)
                /\ ~Has(mailbox[ref], S) => Once(mailbox'[ref], S)
  <2>1. mailbox \in [Inst -> Seq(Msg)]
    BY <1>0 DEF TypeOK
  <2>2. mailbox' = [mailbox EXCEPT ![ref] = Append(@, m)] /\ ref \in Inst /\ m \in Msg
    BY <1>1, <1>2, <1>4
  <2> QED BY <2>1, <2>2, SentFacts, ZenonT(30)
<1>6. at \in {4, 12, 17, 22}
  BY <1>1, ScriptFacts
<1>7. Virgin(ref)
  BY <1>0, <1>1, <1>6 DEF MainInv
<1>8. \A j \in Inst : ~Has(mailbox'[j], MainMsg) /\ job[j].from # Main
  BY <1>1, <1>4, <1>5, IdleFacts
<1>9. ~Storm'
  BY <1>2, <1>6 DEF Storm
<1>10. TypeOK'
  <2>1. at' \in 1 .. Len(Script) + 1
    <3>1. Len(Script) = 25
      BY ScriptFacts
    <3>2. at \in 1 .. 25 /\ at' = at + 1
      BY <1>1, <1>2
    <3> QED BY <3>1, <3>2
  <2> QED BY <1>0, <1>1, <1>2, <1>3, <1>5, <2>1 DEF TypeOK
<1>11. Life'
  <2> SUFFICES ASSUME NEW j \in Inst PROVE LifeOf(j)'
    BY DEF Life
  <2>1. LifeOf(j)
    BY <1>0 DEF Life
  <2>2. state[j] \in {"unborn", "dead"} => mailbox'[j] = <<>>
    BY <1>1, <1>5, <2>1 DEF LifeOf
  <2>3. JobOf(j)' /\ Only(mailbox'[j], Letters(j))
    BY <1>2, <1>3, <1>4, <1>5, <2>1 DEF LifeOf, JobOf
  <2> QED BY <1>3, <2>1, <2>2, <2>3 DEF LifeOf
<1>12. Fill'
  BY <1>0, <1>3, FillFrame
<1>13. Custody'
  <2>1. Strays' \subseteq MainMsg
    BY DEF Strays, MainMsg
  <2>2. \A j \in Inst : ~Has(mailbox'[j], Strays') /\ Once(mailbox'[j], MainMsg)
    BY <1>8, <2>1 DEF Has, Once
  <2> QED BY <1>3, <1>8, <2>2 DEF Custody, CustodyOf
<1>14. Weather'
  <2>1. Calm'
    BY <1>1, <1>3, <1>5 DEF Calm, CalmOf, Superseded, Current
  <2> QED BY <1>9, <2>1 DEF Weather
<1>15. Ticking'
  <2> SUFFICES ASSUME NEW j \in Inst, j[1] = "timer" PROVE TickOf(j)'
    BY DEF Ticking, TickOf
  <2>1. TickOf(j)
    BY <1>0 DEF Ticking
  <2>2. CASE j = ref
    BY <1>3, <1>4, <1>5, <1>7, <2>1, <2>2 DEF TickOf, Virgin
  <2>3. CASE j # ref
    BY <1>3, <1>5, <2>1, <2>3 DEF TickOf
  <2> QED BY <2>2, <2>3
<1>16. MainInv'
  <2>2. at' \in {5, 13, 18, 23}
    BY <1>2, <1>6
  <2>3. at' = 10 \/ at' \in 16 .. 21 => gen'["calculator"] > noted'
    BY <1>0, <1>2, <1>3, <1>6 DEF MainInv
  <2>4. ~(at' \in 1 .. 4 \/ at' \in 10 .. 12 \/ at' \in 16 .. 17 \/ at' \in 20 .. 22)
    BY <2>2
  <2> QED BY <1>0, <1>1, <1>2, <1>3, <2>3, <2>4 DEF MainInv
<1> QED BY <1>10, <1>11, <1>12, <1>13, <1>14, <1>15, <1>16 DEF IInv

\* A call of main that waits for its reply.
LEMMA SendWaitStep ==
  ASSUME IInv, SendCall, Script[at].op # "start"
  PROVE  IInv'
<1> DEFINE m == Message(Script[at].op, Main)
<1>0. TypeOK /\ Life /\ Fill /\ Custody /\ Weather /\ Ticking /\ MainInv
  BY DEF IInv
<1>1. /\ at \in 1 .. 25 /\ at \notin {9, 15, 19} /\ ~Storm /\ Calm /\ reply[Main] = "none" /\ step = "held"
      /\ ref \in Inst /\ ref[1] = "calculator" /\ Script[at].op \in Calls \ {"start"}
      /\ state[ref] = "run" /\ Accepts(ref) /\ failed' = FALSE /\ Running
  BY HeldFacts DEF CallOf
<1>2. /\ mailbox' = [mailbox EXCEPT ![ref] = Append(@, m)]
      /\ at' = at /\ step' = "wait" /\ ref' = ref /\ reply' = [reply EXCEPT ![Main] = "wait"]
  BY <1>1 DEF SendCall
<1>3. /\ gen' = gen /\ state' = state /\ job' = job /\ started' = started
      /\ sleepers' = sleepers /\ ticks' = ticks /\ signals' = signals /\ todo' = todo
      /\ journal' = journal /\ copy' = copy /\ noted' = noted
  BY DEF SendCall
<1>4. m \in Msg /\ m \notin Ticks /\ m \notin Starts /\ m \in MainMsg /\ m \in Letters(ref) /\ m.op = Script[at].op
  <2>1. Script[at].op \in Probe \cup Quick /\ Script[at].op # "tick" /\ Script[at].op # "start"
    BY <1>1 DEF Calls, Probe, Quick
  <2>2. m.op = Script[at].op /\ m.from = Main /\ m \in Msg /\ m \in MainMsg /\ m \notin Ticks /\ m \notin Starts
    BY <2>1, MessageFacts
  <2> QED BY <1>1, <2>2 DEF Letters
<1> HIDE DEF m
<1>5. /\ mailbox' \in [Inst -> Seq(Msg)]
      /\ \A j \in Inst : j # ref => mailbox'[j] = mailbox[j]
      /\ \A S : /\ Has(mailbox'[ref], S) <=> Has(mailbox[ref], S) \/ m \in S
                /\ Only(mailbox[ref], S) /\ m \in S => Only(mailbox'[ref], S)
                /\ Once(mailbox[ref], S) /\ m \notin S => Once(mailbox'[ref], S)
                /\ ~Has(mailbox[ref], S) => Once(mailbox'[ref], S)
  <2>1. mailbox \in [Inst -> Seq(Msg)]
    BY <1>0 DEF TypeOK
  <2>2. mailbox' = [mailbox EXCEPT ![ref] = Append(@, m)] /\ ref \in Inst /\ m \in Msg
    BY <1>1, <1>2, <1>4
  <2> QED BY <2>1, <2>2, SentFacts, ZenonT(30)
<1>6. /\ reply' \in [Inst \cup {Main} -> {"none", "wait", "ok", "dropped"}]
      /\ reply'[Main] = "wait" /\ \A j \in Inst : reply'[j] = reply[j]
  BY <1>0, <1>2, InstFacts DEF TypeOK
<1>7. \A j \in Inst : ~Has(mailbox[j], MainMsg) /\ job[j].from # Main
  BY <1>1, IdleFacts
<1>8. InMail' /\ ~Storm'
  BY <1>1, <1>2, <1>4, <1>5 DEF Storm, InMail
<1>9. TypeOK'
  BY <1>0, <1>1, <1>2, <1>3, <1>5, <1>6 DEF TypeOK
<1>10. Life'
  <2> SUFFICES ASSUME NEW j \in Inst PROVE LifeOf(j)'
    BY DEF Life
  <2>1. LifeOf(j)
    BY <1>0 DEF Life
  <2>2. state[j] \in {"unborn", "dead"} => mailbox'[j] = <<>>
    BY <1>1, <1>5, <2>1 DEF LifeOf
  <2>3. JobOf(j)' /\ Only(mailbox'[j], Letters(j))
    BY <1>3, <1>4, <1>5, <1>6, <2>1 DEF LifeOf, JobOf
  <2> QED BY <1>3, <2>1, <2>2, <2>3 DEF LifeOf
<1>11. Fill'
  BY <1>0, <1>3, FillFrame
<1>12. Custody'
  <2> SUFFICES ASSUME NEW j \in Inst PROVE CustodyOf(j)'
    BY DEF Custody
  <2>1. CustodyOf(j) /\ ~Has(mailbox[j], MainMsg) /\ job[j].from # Main
    BY <1>0, <1>7 DEF Custody
  <2>2. Strays' = Strays /\ m \notin Strays
    BY <1>2, <1>4 DEF Strays
  <2>3. Once(mailbox'[j], MainMsg) /\ ~Has(mailbox'[j], Strays)
    BY <1>5, <2>1, <2>2 DEF CustodyOf
  <2>4. Has(mailbox'[j], MainMsg) => j = ref
    BY <1>5, <2>1
  <2> QED BY <1>2, <1>3, <1>6, <2>1, <2>2, <2>3, <2>4 DEF CustodyOf
<1>13. Weather'
  <2>1. Calm'
    BY <1>1, <1>3, <1>5 DEF Calm, CalmOf, Superseded, Current
  <2> QED BY <1>8, <2>1 DEF Weather
<1>14. Ticking'
  <2> SUFFICES ASSUME NEW j \in Inst, j[1] = "timer" PROVE TickOf(j)'
    BY DEF Ticking, TickOf
  <2>1. TickOf(j) /\ mailbox'[j] = mailbox[j]
    BY <1>0, <1>1, <1>5 DEF Ticking
  <2> QED BY <1>3, <2>1 DEF TickOf
<1>15. MainInv'
  <2>1. Virgin(Current("timer")) => Virgin(Current("timer"))'
    BY <1>0, <1>3, <1>4, <1>5, CurrentFacts DEF Virgin, Current, TypeOK, Child
  <2>2. at <= Len(Script)
    BY <1>1 DEF Running
  <2> QED BY <1>0, <1>1, <1>2, <1>3, <1>6, <1>8, <2>1, <2>2 DEF MainInv
<1> QED BY <1>9, <1>10, <1>11, <1>12, <1>13, <1>14, <1>15 DEF IInv

\* main gets its reply, or learns that it was dropped.
LEMMA ReceiveStep ==
  ASSUME IInv, Receive
  PROVE  IInv'
<1>0. TypeOK /\ Weather /\ MainInv
  BY DEF IInv
<1>1. /\ Running /\ Script[at].op \in Calls /\ step = "wait" /\ reply[Main] \in {"ok", "dropped"} /\ Advance
      /\ reply' = [reply EXCEPT ![Main] = "none"] /\ noted' = noted
      /\ UNCHANGED <<gen, state, mailbox, job, started, sleepers, ticks, signals, todo, journal, copy>>
  BY DEF Receive, Doing
<1>2. failed' = FALSE
  <2>1. ~(/\ Script[at].op \notin Probe
          /\ \/ reply[Main] = "dropped"
             \/ Script[at].op = "journal" /\ Script[at].finds \notin Range(copy))
    BY <1>0, <1>1 DEF MainInv
  <2> QED BY <2>1 DEF Receive
<1>3. /\ reply' \in [Inst \cup {Main} -> {"none", "wait", "ok", "dropped"}]
      /\ reply'[Main] = "none" /\ \A j \in Inst : reply'[j] = reply[j]
  BY <1>0, <1>1, InstFacts DEF TypeOK
<1>4. /\ TypeOK' /\ Life' /\ Fill' /\ Custody' /\ Ticking' /\ (Storm' <=> at + 1 \in {9, 15, 19})
      /\ (Calm => Calm') /\ (Virgin(Current("timer")) => Virgin(Current("timer"))')
      /\ at \in 1 .. 25 /\ at' = at + 1 /\ step' = "ready" /\ gen' = gen
  <2>1. noted' \in 0 .. MaxGen /\ failed' \in BOOLEAN /\ reply[Main] # "wait"
    BY <1>0, <1>1, <1>2 DEF TypeOK
  <2> QED BY <1>1, <1>3, <2>1, MoveFacts
<1>5. at \notin {6, 7, 9, 10, 13, 15, 19, 21, 25}
  BY <1>0, <1>1, <1>4, LineFacts DEF TypeOK
<1>6. Storm <=> at \in {8, 14, 18}
  <2>1. ~InMail
    BY <1>1, IdleFacts
  <2> QED BY <1>1, <1>5, <2>1 DEF Storm
<1>7. Storm' <=> Storm
  BY <1>4, <1>5, <1>6
<1>8. Weather'
  <2>1. Healing => Healing'
    BY <1>1 DEF Healing, Caused, Virgin, Current
  <2> QED BY <1>0, <1>4, <1>7, <2>1 DEF Weather
<1>9. MainInv'
  <2>3. at' = 10 \/ at' \in 16 .. 21 => at \in 16 .. 21
    BY <1>4, <1>5
  <2>4. at' \in 1 .. 4 \/ at' \in 10 .. 12 \/ at' \in 16 .. 17 \/ at' \in 20 .. 22 =>
          (at \in 1 .. 4 \/ at \in 10 .. 12 \/ at \in 16 .. 17 \/ at \in 20 .. 22)
    BY <1>4, <1>5
  <2> QED BY <1>0, <1>1, <1>2, <1>3, <1>4, <1>7, <2>3, <2>4 DEF MainInv
<1> QED BY <1>4, <1>8, <1>9 DEF IInv

\* Where main only moves on, it is between calls.
LEMMA ReadyFacts ==
  ASSUME IInv, Running, Script[at].op \notin Calls
  PROVE  step = "ready" /\ reply[Main] = "none"
BY DEF IInv, MainInv

\* The end of a sleep: the storm is over.
LEMMA SleepStep ==
  ASSUME IInv, Sleep
  PROVE  IInv'
<1>0. TypeOK /\ Life /\ Fill /\ Weather /\ MainInv
  BY DEF IInv
<1>1. /\ Running /\ Script[at].op = "sleep" /\ Advance /\ Quiet /\ reply' = reply
      /\ noted' = noted /\ failed' = failed
      /\ UNCHANGED <<gen, state, mailbox, job, started, sleepers, ticks, signals, todo, journal, copy>>
  BY DEF Sleep, Doing, appVars
<1>2. step = "ready" /\ reply[Main] = "none"
  <2>1. "sleep" \notin Calls
    BY DEF Calls, Probe
  <2> QED BY <1>1, <2>1, ReadyFacts
<1>3. /\ TypeOK' /\ Life' /\ Fill' /\ Custody' /\ Ticking' /\ (Storm' <=> at + 1 \in {9, 15, 19})
      /\ (Calm => Calm') /\ (Virgin(Current("timer")) => Virgin(Current("timer"))')
      /\ at \in 1 .. 25 /\ at' = at + 1 /\ step' = "ready" /\ gen' = gen
  <2>1. noted' \in 0 .. MaxGen /\ failed' \in BOOLEAN /\ reply[Main] # "wait"
        /\ reply' \in [Inst \cup {Main} -> {"none", "wait", "ok", "dropped"}]
        /\ reply'[Main] = "none" /\ \A j \in Inst : reply'[j] = reply[j]
    BY <1>0, <1>1, <1>2 DEF TypeOK
  <2> QED BY <1>1, <2>1, MoveFacts
<1>4. at \in {6, 9, 15, 19, 25}
  BY <1>1, <1>3, ScriptFacts
<1>5. ~Storm'
  BY <1>3, <1>4
<1>6. signals = <<>> /\ todo = {} /\ \A j \in Inst : Settles(j)
  BY <1>1 DEF Quiet
<1>7. Calm
  <2> SUFFICES ASSUME NEW j \in Inst PROVE CalmOf(j)
    BY <1>6 DEF Calm
  <2>1. LifeOf(j) /\ Settles(j) /\ j[1] \in Child
    BY <1>0, <1>6, InstFacts DEF Life
  <2>2. j[1] = "ledger" => mailbox[j] = <<>>
    <3> SUFFICES ASSUME j[1] = "ledger", mailbox[j] # <<>> PROVE FALSE
      OBVIOUS
    <3>1. 1 \in DOMAIN mailbox[j]
      BY <1>0, Pop DEF TypeOK
    <3>2. mailbox[j][1] \in Letters(j) /\ mailbox[j][1].op = "tick"
      BY <2>1, <3>1 DEF LifeOf, Only, Settles
    <3> QED BY <3>2 DEF Letters
  <2>3. j = Current(j[1]) => state[j] = "run"
    <3>1. Filled(j[1])
      BY <1>0, <2>1 DEF Fill
    <3> QED BY <1>6, <2>1, <3>1 DEF Filled, Settles
  <2>4. j[1] # "timer" /\ Superseded(j) => state[j] = "dead"
    BY <2>1 DEF LifeOf, Settles
  <2> QED BY <2>1, <2>2, <2>3, <2>4 DEF CalmOf, Settles
<1>8. Weather'
  BY <1>3, <1>5, <1>7 DEF Weather
<1>9. at \in {9, 15, 19} => Virgin(Current("timer")) /\ gen["calculator"] > noted
  <2>1. ~Caused
    BY <1>6, <1>7 DEF Caused, Calm, CalmOf
  <2>2. at \in {9, 15, 19} => Healing
    BY <1>0 DEF Weather, Storm
  <2> QED BY <1>6, <2>1, <2>2 DEF Healing
<1>10. MainInv'
  <2>3. at' = 10 \/ at' \in 16 .. 21 => at \in {9, 15, 19}
    BY <1>3, <1>4
  <2>4. at' \in 1 .. 4 \/ at' \in 10 .. 12 \/ at' \in 16 .. 17 \/ at' \in 20 .. 22 => at \in {9, 15, 19}
    BY <1>3, <1>4
  <2> QED BY <1>0, <1>1, <1>2, <1>3, <1>9, <2>3, <2>4 DEF MainInv
<1> QED BY <1>3, <1>8, <1>10 DEF IInv

\* main notes the calculator's generation.
LEMMA NoteStep ==
  ASSUME IInv, Note
  PROVE  IInv'
<1>0. TypeOK /\ Weather /\ MainInv
  BY DEF IInv
<1>1. /\ Running /\ Script[at].op = "note" /\ Advance /\ reply' = reply
      /\ noted' = gen["calculator"] /\ failed' = failed
      /\ UNCHANGED <<gen, state, mailbox, job, started, sleepers, ticks, signals, todo, journal, copy>>
  BY DEF Note, Doing, appVars
<1>2. step = "ready" /\ reply[Main] = "none"
  <2>1. "note" \notin Calls
    BY DEF Calls, Probe
  <2> QED BY <1>1, <2>1, ReadyFacts
<1>3. /\ TypeOK' /\ Life' /\ Fill' /\ Custody' /\ Ticking' /\ (Storm' <=> at + 1 \in {9, 15, 19})
      /\ (Calm => Calm') /\ (Virgin(Current("timer")) => Virgin(Current("timer"))')
      /\ at \in 1 .. 25 /\ at' = at + 1 /\ step' = "ready" /\ gen' = gen
  <2>1. gen["calculator"] \in 1 .. MaxGen
    BY <1>0 DEF TypeOK, Child
  <2>2. noted' \in 0 .. MaxGen /\ failed' \in BOOLEAN /\ reply[Main] # "wait"
        /\ reply' \in [Inst \cup {Main} -> {"none", "wait", "ok", "dropped"}]
        /\ reply'[Main] = "none" /\ \A j \in Inst : reply'[j] = reply[j]
    BY <1>0, <1>1, <1>2, <2>1 DEF TypeOK
  <2> QED BY <1>1, <2>2, MoveFacts
<1>4. at \in {7, 13}
  BY <1>1, <1>3, ScriptFacts
<1>5. ~Storm' /\ ~Storm
  BY <1>2, <1>3, <1>4 DEF Storm
<1>6. Weather'
  BY <1>0, <1>3, <1>5 DEF Weather
<1>7. MainInv'
  <2>3. ~(at' = 10 \/ at' \in 16 .. 21)
    BY <1>3, <1>4
  <2>4. ~(at' \in 1 .. 4 \/ at' \in 10 .. 12 \/ at' \in 16 .. 17 \/ at' \in 20 .. 22)
    BY <1>3, <1>4
  <2>5. noted' <= gen'["calculator"]
    BY <1>0, <1>1, <1>3 DEF TypeOK, Child
  <2> QED BY <1>0, <1>1, <1>2, <1>3, <2>3, <2>4, <2>5 DEF MainInv
<1> QED BY <1>3, <1>6, <1>7 DEF IInv

\* main's assertion about the generation holds.
LEMMA CheckStep ==
  ASSUME IInv, Check
  PROVE  IInv'
<1>0. TypeOK /\ Weather /\ MainInv
  BY DEF IInv
<1>1. /\ Running /\ Script[at].op = "check" /\ Advance /\ reply' = reply
      /\ noted' = noted /\ failed' = (gen["calculator"] <= noted)
      /\ UNCHANGED <<gen, state, mailbox, job, started, sleepers, ticks, signals, todo, journal, copy>>
  BY DEF Check, Doing, appVars
<1>2. step = "ready" /\ reply[Main] = "none"
  <2>1. "check" \notin Calls
    BY DEF Calls, Probe
  <2> QED BY <1>1, <2>1, ReadyFacts
<1>3. /\ TypeOK' /\ Life' /\ Fill' /\ Custody' /\ Ticking' /\ (Storm' <=> at + 1 \in {9, 15, 19})
      /\ (Calm => Calm') /\ (Virgin(Current("timer")) => Virgin(Current("timer"))')
      /\ at \in 1 .. 25 /\ at' = at + 1 /\ step' = "ready" /\ gen' = gen
  <2>1. noted' \in 0 .. MaxGen /\ failed' \in BOOLEAN /\ reply[Main] # "wait"
        /\ reply' \in [Inst \cup {Main} -> {"none", "wait", "ok", "dropped"}]
        /\ reply'[Main] = "none" /\ \A j \in Inst : reply'[j] = reply[j]
    BY <1>0, <1>1, <1>2 DEF TypeOK
  <2> QED BY <1>1, <2>1, MoveFacts
<1>4. at \in {10, 21}
  BY <1>1, <1>3, ScriptFacts
<1>5. ~Storm' /\ ~Storm
  BY <1>2, <1>3, <1>4 DEF Storm
<1>6. Weather'
  BY <1>0, <1>3, <1>5 DEF Weather
<1>7. ~failed'
  <2>1. gen["calculator"] > noted /\ gen["calculator"] \in Nat /\ noted \in Nat
    BY <1>0, <1>4 DEF MainInv, TypeOK, Child
  <2>2. ~(gen["calculator"] <= noted)
    BY <2>1
  <2> QED BY <1>1, <2>2, Zenon
<1>8. MainInv'
  <2>3. ~(at' = 10 \/ at' \in 16 .. 21)
    BY <1>3, <1>4
  <2>4. at \in 10 .. 12 \/ at \in 20 .. 22
    BY <1>4
  <2> QED BY <1>0, <1>1, <1>2, <1>3, <1>5, <1>7, <2>3, <2>4 DEF MainInv
<1> QED BY <1>3, <1>6, <1>8 DEF IInv

\* Steps in which nothing moves.
LEMMA StutterStep ==
  ASSUME IInv, UNCHANGED vars
  PROVE  IInv'
<1>1. /\ gen' = gen /\ state' = state /\ mailbox' = mailbox /\ job' = job /\ started' = started
      /\ sleepers' = sleepers /\ ticks' = ticks /\ signals' = signals /\ todo' = todo
      /\ journal' = journal /\ copy' = copy /\ reply' = reply
      /\ at' = at /\ step' = step /\ ref' = ref /\ noted' = noted /\ failed' = failed
  BY DEF vars, appVars, mainVars
<1>2. TypeOK' /\ Life' /\ Fill' /\ Custody' /\ Ticking'
  <2>1. TypeOK'
    BY <1>1 DEF IInv, TypeOK
  <2>2. Life'
    BY <1>1 DEF IInv, Life, LifeOf, JobOf
  <2>3. Fill'
    BY <1>1, FillFrame DEF IInv
  <2>4. Custody'
    BY <1>1, CustodyFrame DEF IInv
  <2>5. Ticking'
    BY <1>1 DEF IInv, Ticking, TickOf
  <2> QED BY <2>1, <2>2, <2>3, <2>4, <2>5
<1>3. (Storm' <=> Storm) /\ (Virgin(Current("timer")) => Virgin(Current("timer"))')
  BY <1>1 DEF Storm, InMail, Virgin, Current
<1>4. Weather'
  <2>1. (Calm => Calm') /\ (Healing => Healing')
    BY <1>1 DEF Calm, CalmOf, Superseded, Current, Healing, Caused, Virgin
  <2> QED BY <1>3, <2>1 DEF IInv, Weather
<1>5. MainInv'
  BY <1>1, <1>3, MainFrame DEF IInv
<1> QED BY <1>2, <1>4, <1>5 DEF IInv

-----------------------------------------------------------------------------
(* The record of what was given up                                         *)

\* The record, when neither main nor on_handle_stuck moves.
LEMMA RecordFrame ==
  ASSUME Record, journal' = journal, at' = at, reply'[Main] = "dropped" <=> reply[Main] = "dropped",
         \A i \in Inst : /\ state'[i] = "stuck" => state[i] = "stuck"
                         /\ state[i] = "stuck" => state'[i] = "stuck" /\ job'[i] = job[i]
  PROVE  Record'
<1>1. \A p : Unjournaled(p)' <=> Unjournaled(p)
  BY DEF Unjournaled
<1>2. \A p : Told(p)' <=> Told(p)
  BY DEF Told
<1>3. \A i \in Inst : PendingOf(i)'
  BY DEF Record, PendingOf
<1> QED BY <1>1, <1>2, <1>3 DEF Record

\* The record, when main goes on: nothing is pending when it has slept.
LEMMA RecordMove ==
  ASSUME Record, at \in 1 .. 25, at' = at + 1, journal' = journal, state' = state, job' = job,
         reply'[Main] = "none", \A p \in Probe : at = Pos[p] => reply[Main] = "dropped",
         at \in {9, 15, 19} => \A i \in Inst : state[i] # "stuck"
  PROVE  Record'
<1>1. \A p : Unjournaled(p)' <=> Unjournaled(p)
  BY DEF Unjournaled
<1>2. \A p \in Probe : Pos[p] \in {8, 14, 18}
  BY DEF Pos, Probe
<1>3. \A p \in Probe : Told(p)' <=> Told(p)
  BY <1>2 DEF Told
<1>4. ASSUME NEW i \in Inst PROVE PendingOf(i)'
  <2> SUFFICES ASSUME i[1] = "calculator", state[i] = "stuck"
               PROVE  job[i].op \in Probe /\ at + 1 = Pos[job[i].op] + 1
    BY DEF PendingOf
  <2>1. /\ job[i].op \in Probe
        /\ at = Pos[job[i].op] \/ at = Pos[job[i].op] + 1
    BY DEF Record, PendingOf
  <2>2. at \notin {9, 15, 19}
    OBVIOUS
  <2>3. at # Pos[job[i].op] + 1
    BY <1>2, <2>1, <2>2
  <2> QED BY <2>1, <2>3
<1> QED BY <1>1, <1>3, <1>4 DEF Record

\* main's probe is given up and pending.
LEMMA RecordTimeout ==
  ASSUME IInv, Record, NEW i \in Inst, HandleTimeout(i)
  PROVE  Record'
<1>1. /\ state[i] = "run" /\ job[i] # NoJob
      /\ state'[i] = "stuck" /\ (\A j \in Inst : j # i => state'[j] = state[j])
      /\ \A j \in Inst : j # i => job'[j] = job[j]
      /\ i[1] = "calculator" => job'[i].op = job[i].op
      /\ reply'[Main] = IF i[1] = "calculator" THEN "dropped" ELSE reply[Main]
  BY TimeoutFacts
<1>2. journal' = journal /\ at' = at
  BY DEF HandleTimeout, mainVars
<1>3. CASE i[1] # "calculator"
  <2>1. \A p : Unjournaled(p)' <=> Unjournaled(p)
    BY <1>1, <1>3 DEF Unjournaled
  <2>2. \A p : Told(p)' <=> Told(p)
    BY <1>1, <1>2, <1>3 DEF Told
  <2>3. \A j \in Inst : PendingOf(j)'
    BY <1>1, <1>2, <1>3 DEF Record, PendingOf
  <2> QED BY <1>1, <1>2, <1>3, <2>1, <2>2, <2>3 DEF Record
<1>4. CASE i[1] = "calculator"
  <2> DEFINE op == job[i].op
  <2>1. op \in Probe /\ at = Pos[op] /\ at \in {8, 14, 18} /\ reply[Main] = "wait"
    BY <1>1, <1>4, StuckFacts
  <2> HIDE DEF op
  <2>2. \A p \in Probe : Pos[p] \in {8, 14, 18} /\ (at = Pos[p] <=> p = op)
    BY <2>1 DEF Pos, Probe
  <2>3. \A j \in Inst : j[1] = "calculator" => state[j] # "stuck"
    <3> SUFFICES ASSUME NEW j \in Inst, j[1] = "calculator", state[j] = "stuck" PROVE FALSE
      OBVIOUS
    <3>1. job[j].op \in Probe /\ at = Pos[job[j].op] + 1
      BY <2>1 DEF Record, PendingOf
    <3> QED BY <2>1, <2>2, <3>1
  <2>4. \A p : ~Unjournaled(p) /\ (Unjournaled(p)' <=> p = op)
    BY <1>1, <1>4, <2>3 DEF Unjournaled, op
  <2>5. \A p \in Probe : Told(p)' <=> Told(p) \/ p = op
    BY <1>1, <1>2, <1>4, <2>1, <2>2 DEF Told
  <2>6. ~Told(op)
    BY <2>1 DEF Told
  <2>7. \A j \in Inst : PendingOf(j)'
    BY <1>1, <1>2, <1>4, <2>1, <2>3 DEF PendingOf, op
  <2>8. \A j, k \in Inst :
          j[1] = "calculator" /\ k[1] = "calculator" /\ state'[j] = "stuck" /\ state'[k] = "stuck" => j = k
    BY <1>1, <2>3
  <2>9. \A p \in Probe : p \in Range(journal) <=> Told(p)
    BY <2>4 DEF Record
  <2> QED BY <1>2, <2>1, <2>4, <2>5, <2>6, <2>7, <2>8, <2>9 DEF Record
<1> QED BY <1>3, <1>4

\* What was pending is journaled.
LEMMA RecordJournal ==
  ASSUME IInv, Record, NEW i \in Inst, OnHandleStuck(i)
  PROVE  Record'
<1>0. TypeOK
  BY DEF IInv
<1>1. /\ state[i] = "stuck" /\ journal' = journal \o Journaled(i)
      /\ state'[i] = "notify" /\ (\A j \in Inst : j # i => state'[j] = state[j])
      /\ \A j \in Inst : j # i => job'[j] = job[j]
      /\ at' = at /\ reply' = reply
  BY <1>0, StuckEffect
<1>2. \A p : p \in Range(journal') <=>
        p \in Range(journal) \/ (i[1] = "calculator" /\ job[i].op \in Probe /\ p = job[i].op)
  BY <1>0, <1>1, JournalAfter
<1>3. i[1] = "calculator" => job[i].op \in Probe
  BY <1>1 DEF Record, PendingOf
<1>4. \A p : Unjournaled(p)' <=> Unjournaled(p) /\ ~(i[1] = "calculator" /\ p = job[i].op)
  <2>1. i[1] = "calculator" => \A j \in Inst : j[1] = "calculator" /\ state[j] = "stuck" => j = i
    BY <1>1 DEF Record
  <2> QED BY <1>1, <2>1 DEF Unjournaled
<1>5. i[1] = "calculator" => Unjournaled(job[i].op)
  BY <1>1 DEF Unjournaled
<1>6. \A p : Told(p)' <=> Told(p)
  BY <1>1 DEF Told
<1>7. \A j \in Inst : PendingOf(j)'
  BY <1>1 DEF Record, PendingOf
<1>8. ASSUME NEW p \in Probe
      PROVE  /\ p \in Range(journal') \/ Unjournaled(p)' <=> Told(p)'
             /\ ~(p \in Range(journal') /\ Unjournaled(p)')
  <2>1. /\ p \in Range(journal) \/ Unjournaled(p) <=> Told(p)
        /\ ~(p \in Range(journal) /\ Unjournaled(p))
    BY DEF Record
  <2> QED BY <1>2, <1>3, <1>4, <1>5, <1>6, <2>1
<1>9. \A j, k \in Inst :
        j[1] = "calculator" /\ k[1] = "calculator" /\ state'[j] = "stuck" /\ state'[k] = "stuck" => j = k
  BY <1>1 DEF Record
<1> QED BY <1>7, <1>8, <1>9 DEF Record

\* The other steps of an actor.
LEMMA RecordActor ==
  ASSUME IInv, Record, NEW i \in Inst, Actor(i), ~HandleTimeout(i), ~OnHandleStuck(i)
  PROVE  Record'
<1>0. TypeOK /\ Life /\ Custody
  BY DEF IInv
<1>1. journal' = journal /\ at' = at
  BY DEF Actor, HandleQuick, HandleSlow, HandleAsk, AskFails, Resume, HandleStart, Notify, Finish,
         MailboxClosed, Ends, mainVars
<1>2. \A j \in Inst : /\ state'[j] = "stuck" => state[j] = "stuck"
                      /\ state[j] = "stuck" => state'[j] = "stuck" /\ job'[j] = job[j]
  <2> USE <1>0 DEF TypeOK
  <2>1. CASE HandleQuick(i) \/ HandleSlow(i) \/ HandleAsk(i) \/ HandleStart(i) \/ Resume(i)
    BY <2>1 DEF HandleQuick, HandleSlow, HandleAsk, HandleStart, Resume, Await, Ready, Asks
  <2>2. CASE AskFails(i)
    BY <2>2 DEF AskFails, Asks, Ready
  <2>3. CASE Notify(i) \/ Finish(i) \/ MailboxClosed(i)
    BY <2>3 DEF Notify, Finish, MailboxClosed, Ends
  <2> QED BY <2>1, <2>2, <2>3 DEF Actor
<1>3. reply'[Main] = "dropped" <=> reply[Main] = "dropped"
  <2>0. /\ Main \in Inst \cup {Main} /\ Main # i /\ Nobody # Main
        /\ reply \in [Inst \cup {Main} -> {"none", "wait", "ok", "dropped"}]
    <3>1. Main \in Inst \cup {Main} /\ Main # i /\ Nobody # Main
      BY InstFacts
    <3>2. reply \in [Inst \cup {Main} -> {"none", "wait", "ok", "dropped"}]
      BY <1>0 DEF TypeOK
    <3> QED BY <3>1, <3>2
  <2>1. CASE HandleQuick(i)
    BY <2>0, <2>1 DEF HandleQuick, Settled
  <2>2. CASE HandleSlow(i) \/ HandleAsk(i)
    BY <2>0, <2>2 DEF HandleSlow, HandleAsk, Await
  <2>3. CASE AskFails(i)
    BY <2>3, AskFailsFacts
  <2>4. CASE Resume(i)
    BY <2>0, <2>4, SMTT(30) DEF Resume, Settled
  <2>5. CASE HandleStart(i) \/ Notify(i)
    BY <2>5 DEF HandleStart, Notify
  <2>6. CASE Finish(i) \/ MailboxClosed(i)
    <3>1. Ends(i) /\ ~Has(mailbox[i], MainMsg)
      BY <2>6, FinishFacts, EmptyFacts DEF MailboxClosed
    <3>2. \A k \in DOMAIN mailbox[i] : mailbox[i][k] \in Msg /\ mailbox[i][k] \notin MainMsg
      BY <1>0, <3>1 DEF Life, LifeOf, Only, Has, Letters
    <3>3. \A k \in DOMAIN mailbox[i] : mailbox[i][k].from # Main
      BY <3>2 DEF MainMsg
    <3> QED BY <2>0, <3>1, <3>3 DEF Ends
  <2> QED BY <2>1, <2>2, <2>3, <2>4, <2>5, <2>6 DEF Actor
<1> QED BY <1>1, <1>2, <1>3, RecordFrame

\* A step of the supervisor, of a sleeping tick, or none.
LEMMA RecordQuiet ==
  ASSUME IInv, Record, TakeSignal \/ RestartChild \/ (\E g \in 1 .. MaxGen : Tick(g)) \/ UNCHANGED vars
  PROVE  Record'
<1>0. TypeOK /\ Life
  BY DEF IInv
<1>1. journal' = journal /\ at' = at /\ reply' = reply /\ job' = job
  BY DEF TakeSignal, RestartChild, Tick, vars, appVars, mainVars
<1>2. \A j \in Inst : state'[j] = "stuck" <=> state[j] = "stuck"
  <2>1. CASE RestartChild
    <3>1. PICK c \in todo : /\ gen[c] < MaxGen
                            /\ state' = [state EXCEPT ![<<c, gen[c] + 1>>] = "run"]
      BY <2>1 DEF RestartChild
    <3>2. c \in Child /\ gen[c] \in 1 .. MaxGen /\ gen[c] + 1 \in 1 .. MaxGen
      BY <1>0, <3>1, BoundsAssumption, SMTT(30) DEF TypeOK
    <3> DEFINE n == <<c, gen[c] + 1>>
    <3>3. n \in Inst /\ n[1] = c /\ n[2] = gen[c] + 1
      BY <3>2, InstFacts
    <3>4. state' = [state EXCEPT ![n] = "run"]
      BY <3>1
    <3> HIDE DEF n
    <3>5. state[n] = "unborn"
      <4>1. LifeOf(n) /\ n[2] > gen[n[1]]
        BY <1>0, <3>2, <3>3 DEF Life
      <4> QED BY <4>1 DEF LifeOf
    <3>6. state'[n] = "run" /\ \A j \in Inst : j # n => state'[j] = state[j]
      BY <1>0, <3>3, <3>4 DEF TypeOK
    <3> QED BY <3>3, <3>5, <3>6
  <2>2. CASE TakeSignal \/ (\E g \in 1 .. MaxGen : Tick(g)) \/ UNCHANGED vars
    BY <2>2 DEF TakeSignal, Tick, vars, appVars
  <2> QED BY <2>1, <2>2
<1> QED BY <1>1, <1>2, RecordFrame

\* A step of main.
LEMMA RecordMain ==
  ASSUME IInv, Record, MainStep
  PROVE  Record'
<1>0. TypeOK /\ MainInv
  BY DEF IInv
<1>1. journal' = journal /\ state' = state /\ job' = job
  BY DEF MainStep, Lookup, SendCall, Receive, Sleep, Note, Check, appVars
<1>2. Running /\ at \in 1 .. 25
  <2>1. Running
    BY DEF MainStep, Lookup, SendCall, Receive, Sleep, Note, Check, Doing
  <2> QED BY <1>0, <2>1, LineFacts DEF TypeOK
<1>3. \A k \in 1 .. 25 : /\ Script[k].op \in Calls <=> k \notin {6, 7, 9, 10, 13, 15, 19, 21, 25}
                         /\ \A p \in Probe : Script[k].op = p <=> k = Pos[p]
  BY <1>0, LineFacts DEF TypeOK
<1>4. \A p \in Probe : at = Pos[p] => Script[at].op \in Probe
  BY <1>2, <1>3
<1>5. /\ Main \in Inst \cup {Main} /\ reply \in [Inst \cup {Main} -> {"none", "wait", "ok", "dropped"}]
      /\ \A v : [reply EXCEPT ![Main] = v][Main] = v
  BY <1>0 DEF TypeOK
<1>6. CASE Lookup
  BY <1>1, <1>6, RecordFrame DEF Lookup, appVars
<1>7. CASE SendCall
  <2>1. reply[Main] = "none" /\ Script[at].op \in Calls
    BY <1>7, HeldFacts
  <2>2. CASE Script[at].op = "start"
    <3>1. at' = at + 1 /\ reply' = reply
      BY <1>7, <2>2 DEF SendCall, Advance
    <3>2. at \notin {9, 15, 19}
      BY <1>2, <1>3, <2>1
    <3>3. \A p \in Probe : at # Pos[p]
      BY <1>4, <2>2 DEF Probe
    <3> QED BY <1>1, <1>2, <2>1, <3>1, <3>2, <3>3, RecordMove
  <2>3. CASE Script[at].op # "start"
    <3>1. at' = at /\ reply'[Main] = "wait"
      BY <1>5, <1>7, <2>3 DEF SendCall
    <3> QED BY <1>1, <2>1, <3>1, RecordFrame
  <2> QED BY <2>2, <2>3
<1>8. CASE Receive
  <2>1. /\ Script[at].op \in Calls /\ step = "wait" /\ reply[Main] \in {"ok", "dropped"}
        /\ at' = at + 1 /\ reply'[Main] = "none"
    BY <1>5, <1>8 DEF Receive, Doing, Advance
  <2>2. at \notin {9, 15, 19}
    BY <1>2, <1>3, <2>1
  <2>3. \A p \in Probe : at = Pos[p] => reply[Main] = "dropped"
    BY <1>0, <1>4, <2>1 DEF MainInv
  <2> QED BY <1>1, <1>2, <2>1, <2>2, <2>3, RecordMove
<1>9. CASE Sleep \/ Note \/ Check
  <2>1. /\ Script[at].op \in {"sleep", "note", "check"} /\ at' = at + 1 /\ reply' = reply
    BY <1>9 DEF Sleep, Note, Check, Doing, Advance, appVars
  <2>2. Script[at].op \notin Calls /\ Script[at].op \notin Probe
    BY <2>1 DEF Calls, Probe
  <2>3. reply[Main] = "none"
    BY <1>2, <2>2, ReadyFacts
  <2>4. at \in {9, 15, 19} => \A i \in Inst : state[i] # "stuck"
    <3>1. CASE Sleep
      BY <3>1 DEF Sleep, Quiet, Settles
    <3>2. CASE Note \/ Check
      <4>1. Script[at].op \in {"note", "check"}
        BY <3>2 DEF Note, Check, Doing
      <4> QED BY <1>2, <4>1, ScriptFacts
    <3> QED BY <1>9, <3>1, <3>2
  <2> QED BY <1>1, <1>2, <1>4, <2>1, <2>2, <2>3, <2>4, RecordMove
<1> QED BY <1>6, <1>7, <1>8, <1>9 DEF MainStep

\* The record is kept by every step.
LEMMA RecordStep ==
  ASSUME IInv, Record, [Next]_vars
  PROVE  Record'
BY RecordTimeout, RecordJournal, RecordActor, RecordQuiet, RecordMain DEF Next, Progress

-----------------------------------------------------------------------------
(* The theorems                                                            *)

\* The program starts with three fresh children and a calm sky.
LEMMA InitIInv ==
  ASSUME Init
  PROVE  IInv
<1>1. 1 \in 1 .. MaxGen /\ MaxGen \in Nat /\ MaxTicks \in Nat
  BY BoundsAssumption
<1>2. /\ \A c \in Child : gen[c] = 1
      /\ \A i \in Inst : /\ state[i] = IF i[2] = 1 THEN "run" ELSE "unborn"
                         /\ mailbox[i] = <<>> /\ job[i] = NoJob
      /\ reply = [w \in Inst \cup {Main} |-> "none"] /\ reply[Main] = "none"
      /\ started = {} /\ (\A g \in 1 .. MaxGen : sleepers[g] = 0) /\ ticks = 0
      /\ signals = <<>> /\ todo = {} /\ journal = <<>> /\ copy = <<>>
      /\ at = 1 /\ step = "ready" /\ ref = Nobody /\ noted = 0 /\ failed = FALSE
  BY DEF Init
<1>3. \A S : ~Has(<<>>, S) /\ Only(<<>>, S) /\ Once(<<>>, S)
  BY EmptyFacts
<1>4. NoJob.from # Main
  BY InstFacts DEF NoJob
<1>5. TypeOK
  <2>1. NoJob \in [op : {"none"} \cup Probe \cup {"fetch", "tick"}, from : Inst \cup {Main, Nobody},
                   on : Inst \cup {Nobody}]
    BY DEF NoJob
  <2>2. <<>> \in Seq(Msg) /\ <<>> \in Seq(Inst) /\ <<>> \in Seq(Probe)
    OBVIOUS
  <2>3. at \in 1 .. Len(Script) + 1
    BY <1>2, ScriptFacts
  <2>4. /\ gen \in [Child -> 1 .. MaxGen] /\ sleepers \in [1 .. MaxGen -> Nat]
        /\ state \in [Inst -> {"unborn", "run", "stuck", "notify", "finish", "dead"}]
    BY <1>1 DEF Init
  <2>5. /\ mailbox \in [Inst -> Seq(Msg)]
        /\ reply \in [Inst \cup {Main} -> {"none", "wait", "ok", "dropped"}]
    BY <2>2 DEF Init
  <2>6. job \in [Inst -> [op : {"none"} \cup Probe \cup {"fetch", "tick"}, from : Inst \cup {Main, Nobody},
                          on : Inst \cup {Nobody}]]
    BY <2>1 DEF Init
  <2>7. ticks \in 0 .. MaxTicks /\ noted \in 0 .. MaxGen
    BY <1>1, <1>2
  <2> QED BY <1>2, <2>2, <2>3, <2>4, <2>5, <2>6, <2>7 DEF TypeOK
<1>6. \A i \in Inst : i[1] \in Child /\ i[2] \in 1 .. MaxGen
  BY InstFacts
<1>7. Life
  BY <1>1, <1>2, <1>3, <1>6 DEF Life, LifeOf, JobOf
<1>8. \A c \in Child : Current(c) \in Inst /\ Current(c)[1] = c /\ Current(c)[2] = 1
  BY <1>2, <1>5, CurrentFacts DEF TypeOK
<1>9. Fill
  BY <1>2, <1>8 DEF Fill, Filled
<1>10. Custody
  BY <1>2, <1>3, <1>4 DEF Custody, CustodyOf
<1>11. ~Storm
  BY <1>2 DEF Storm
<1>12. Weather
  <2> SUFFICES ASSUME NEW i \in Inst PROVE CalmOf(i)
    BY <1>2, <1>11 DEF Weather, Calm
  <2>1. Superseded(i) => i[2] = 1 /\ i # Current(i[1])
    BY <1>2 DEF Superseded
  <2>2. i = Current(i[1]) <=> i[2] = gen[i[1]]
    BY <1>5, CurrentFacts DEF TypeOK
  <2> QED BY <1>2, <1>6, <2>1, <2>2 DEF CalmOf
<1>13. Ticking
  BY <1>2, <1>3, <1>6 DEF Ticking, TickOf
<1>14. MainInv
  <2>2. Virgin(Current("timer"))
    BY <1>2, <1>3, <1>8 DEF Virgin, Child
  <2>3. noted <= gen["calculator"]
    BY <1>2 DEF Child
  <2> QED BY <1>2, <2>2, <2>3 DEF MainInv
<1> QED BY <1>5, <1>7, <1>9, <1>10, <1>12, <1>13, <1>14 DEF IInv

\* Nothing is journaled and nothing is pending when the program starts.
LEMMA InitRecord ==
  ASSUME Init
  PROVE  Record
<1>1. /\ journal = <<>> /\ at = 1 /\ reply = [w \in Inst \cup {Main} |-> "none"]
      /\ \A i \in Inst : state[i] # "stuck"
  BY DEF Init
<1>2. reply[Main] = "none"
  BY <1>1
<1>3. \A p : p \notin Range(journal)
  <2>1. DOMAIN journal = {}
    BY <1>1
  <2> QED BY <2>1 DEF Range
<1>4. \A p \in Probe : ~Told(p)
  BY <1>1, <1>2 DEF Told, Probe, Pos
<1> QED BY <1>1, <1>3, <1>4 DEF Record, PendingOf, Unjournaled

\* The invariant is inductive: one lemma per action.
LEMMA Inductive ==
  ASSUME IInv, Record, [Next]_vars
  PROVE  IInv'
<1>1. ASSUME NEW i \in Inst, Actor(i) PROVE IInv'
  <2>1. CASE HandleTimeout(i) \/ OnHandleStuck(i)
    BY <2>1, TimeoutStep, JournalStep
  <2> QED BY <1>1, <2>1, QuickStep, SlowStep, AskStep, AskFailsStep, ResumeStep, StartStep, NotifyStep,
             FinishStep, ClosedStep DEF Actor
<1>2. ASSUME MainStep PROVE IInv'
  <2>1. CASE SendCall
    BY <2>1, SendStartStep, SendWaitStep
  <2> QED BY <1>2, <2>1, LookupStep, ReceiveStep, SleepStep, NoteStep, CheckStep DEF MainStep
<1>3. CASE TakeSignal
  BY <1>3, SignalStep
<1>4. CASE RestartChild
  BY <1>4, RestartStep
<1>5. ASSUME NEW g \in 1 .. MaxGen, Tick(g) PROVE IInv'
  BY <1>5, TickStep
<1>6. CASE UNCHANGED vars
  BY <1>6, StutterStep
<1> QED BY <1>1, <1>2, <1>3, <1>4, <1>5, <1>6 DEF Next, Progress

\* The invariant holds throughout every run of main and the three actors.
THEOREM AppInvariant == Spec => [](IInv /\ Record)
<1>1. Init => IInv /\ Record
  BY InitIInv, InitRecord
<1>2. IInv /\ Record /\ [Next]_vars => (IInv /\ Record)'
  BY Inductive, RecordStep
<1> QED BY <1>1, <1>2, PTL DEF Spec

\* No call of main returns an error and every assertion of phase1_slow_handle
\* and phase2_deadlock_prevention holds, for any number of ticks and restarts.
THEOREM MainSucceeds == Spec => []MainNeverFails
<1>1. IInv => MainNeverFails
  BY DEF IInv, MainInv, MainNeverFails
<1> QED BY <1>1, AppInvariant, PTL

\* Calculator::on_handle_stuck: a probe whose caller was told is in the journal
\* or on its way there, and the journal has no other.
THEOREM ProbesJournaled == Spec => []DroppedIsJournaled
<1>1. IInv /\ Record => DroppedIsJournaled
  <2> SUFFICES ASSUME IInv, Record, NEW k \in 1 .. Len(Script), Script[k].op \in Probe
               PROVE  /\ Script[k].op \in Range(journal) \/ Unjournaled(Script[k].op) <=>
                           k < at \/ (k = at /\ step = "wait" /\ reply[Main] = "dropped")
                      /\ ~(Script[k].op \in Range(journal) /\ Unjournaled(Script[k].op))
                      /\ ~(k = at /\ step = "wait" /\ reply[Main] = "ok")
    BY DEF DroppedIsJournaled
  <2>1. at \in 1 .. Len(Script) + 1 /\ MainInv
    BY DEF IInv, TypeOK
  <2>2. k \in 1 .. 25
    BY ScriptFacts
  <2>3. k = Pos[Script[k].op]
    <3>1. \A m \in 1 .. 25 : \A p \in Probe : Script[m].op = p <=> m = Pos[p]
      <4>1. at \in 1 .. Len(Script) + 1
        BY <2>1
      <4> QED BY <4>1, LineFacts, ZenonT(30)
    <3> QED BY <2>2, <3>1
  <2>4. Told(Script[k].op) <=> k < at \/ (k = at /\ step = "wait" /\ reply[Main] = "dropped")
    <3>1. reply[Main] = "dropped" => step = "wait"
      BY <2>1 DEF MainInv
    <3> QED BY <2>1, <2>2, <2>3, <3>1, ScriptFacts DEF Told
  <2> QED BY <2>1, <2>4 DEF MainInv, Record
<1> QED BY <1>1, AppInvariant, PTL

\* ResultTimer: every timer that was started and still runs has exactly one
\* tick, in the task of schedule_next, in its mailbox or in handle().
THEOREM OneTick == Spec => []OneTickUnderWay
<1>1. IInv => OneTickUnderWay
  <2> SUFFICES ASSUME IInv, NEW i \in started, state[i] = "run"
               PROVE  sleepers[i[2]] + Cardinality({k \in DOMAIN mailbox[i] : mailbox[i][k].op = "tick"})
                        + Cardinality({i} \cap {j \in Inst : job[j] # NoJob}) = 1
    BY DEF OneTickUnderWay
  <2> DEFINE K == {k \in DOMAIN mailbox[i] : mailbox[i][k].op = "tick"}
             J == {i} \cap {j \in Inst : job[j] # NoJob}
  <2>1. i \in Inst /\ i[1] = "timer" /\ mailbox[i] \in Seq(Msg) /\ TickOf(i)
    BY DEF IInv, TypeOK, Life, LifeOf, Ticking
  <2>2. \A k \in DOMAIN mailbox[i] : mailbox[i][k] \in Ticks <=> mailbox[i][k].op = "tick"
    BY <2>1 DEF Ticks
  <2>3. ~Has(mailbox[i], Ticks) => Cardinality(K) = 0
    <3>1. ~Has(mailbox[i], Ticks) => K = {}
      BY <2>2 DEF Has
    <3> QED BY <3>1, FS_EmptySet
  <2>4. Has(mailbox[i], Ticks) /\ Once(mailbox[i], Ticks) => Cardinality(K) = 1
    <3> SUFFICES ASSUME Has(mailbox[i], Ticks), Once(mailbox[i], Ticks) PROVE Cardinality(K) = 1
      OBVIOUS
    <3>1. PICK k \in DOMAIN mailbox[i] : mailbox[i][k] \in Ticks
      BY DEF Has
    <3>2. K = {k}
      BY <2>2, <3>1 DEF Once
    <3> QED BY <3>2, FS_Singleton
  <2>5. job[i] = NoJob => Cardinality(J) = 0
    <3>1. job[i] = NoJob => J = {}
      OBVIOUS
    <3> QED BY <3>1, FS_EmptySet
  <2>6. job[i] # NoJob => Cardinality(J) = 1
    <3>1. job[i] # NoJob => J = {i}
      BY <2>1
    <3> QED BY <3>1, FS_Singleton
  <2> HIDE DEF K, J
  <2>7. sleepers[i[2]] + Cardinality(K) + Cardinality(J) = 1
    BY <2>1, <2>3, <2>4, <2>5, <2>6 DEF TickOf
  <2> QED BY <2>7 DEF K, J
<1> QED BY <1>1, AppInvariant, PTL

=============================================================================
