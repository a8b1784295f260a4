----------------------------- MODULE MeshProofs -----------------------------
(***************************************************************************)
(* A client reads its own reply and a current list, and a registration     *)
(* that was acknowledged keeps its lease: for every number of clients,     *)
(* instances, connections and requests, and every TTL.                     *)
(***************************************************************************)
EXTENDS MeshRegistry, ChannelLemmas, SequenceTheorems, TLAPS

Current(c) == conn[c][stream[c]]

\* The requests a connection still has to answer.
Held(cn) == ToSet(cn.in) \cup ({cn.job} \ {NoJob})

\* A call has a stream; connections are opened one after another; a handler
\* has a job exactly when it waits for the lock; requests are numbered.
Shape ==
  /\ stream \in [Client -> Nat] /\ opened \in [Client -> Nat] /\ asked \in [Client -> Nat]
  /\ conn = [c \in Client |-> conn[c]]
  /\ evicting # Never => evicting <= now
  /\ \A c \in Client :
       /\ call[c] # Idle =>
            /\ stream[c] # 0
            /\ call[c].id = asked[c]
            /\ call[c].at <= now
            /\ <<call[c].op, call[c].inst>> \in Uses[c]
       /\ \A k \in Slot(c) :
            /\ k > opened[c] => conn[c][k] = Unused
            /\ conn[c][k].srv = "apply" <=> conn[c][k].job # NoJob

\* No two answers of a connection are to the same request: replies are older
\* than the requests held, which come in the order they were made.
Numbered(cn, top) ==
  /\ \A r \in Held(cn) : r.id <= top
  /\ \A n \in DOMAIN cn.out : cn.out[n].id <= top
  /\ \A n \in DOMAIN cn.out : \A r \in Held(cn) : cn.out[n].id < r.id
  /\ cn.job # NoJob => \A n \in DOMAIN cn.in : cn.job.id < cn.in[n].id
  /\ \A m, n \in DOMAIN cn.in : m < n => cn.in[m].id < cn.in[n].id

Top(c) == IF InPhase(c, "write") THEN asked[c] - 1 ELSE asked[c]

Numbers == \A c \in Client : \A k \in Slot(c) : Numbered(conn[c][k], Top(c))

\* The job of the call under way was stamped after the call was made.
TimelyOf(c) ==
  \A k \in Slot(c) :
    conn[c][k].job # NoJob /\ call[c] # Idle /\ conn[c][k].job.id = call[c].id =>
      conn[c][k].stamp >= call[c].at

Timely == \A c \in Client : TimelyOf(c)

\* A reply to the call of c, with a list as of a moment after it was made.
Answers(c, reply) ==
  /\ reply.id = call[c].id
  /\ \A i \in DOMAIN reply.recs : ~Expired(reply.recs[i], call[c].at)

Quiet(cn) == cn.out = <<>> /\ cn.job = NoJob /\ cn.in = <<>>

\* The call of c is on its way, at work or answered, and nothing else is in
\* the connection.
Awaited(c, cn) ==
  \/ cn.out = <<>> /\ cn.job = NoJob /\ cn.in = <<Frame(c, call[c].op)>>
  \/ cn.out = <<>> /\ cn.job = Frame(c, call[c].op) /\ cn.in = <<>>
  \/ cn.job = NoJob /\ cn.in = <<>> /\ Len(cn.out) = 1 /\ Answers(c, cn.out[1])

ExchangeOf(c) ==
  stream[c] # 0 /\ ~dropped[c] =>
    Quiet(Current(c)) \/ (InPhase(c, "read") /\ Awaited(c, Current(c)))

Exchange == \A c \in Client : ExchangeOf(c)

\* What is left of a torn request is never executed.
Whole == \A c \in Client : \A k \in Slot(c) : conn[c][k].job.op # "torn"

\* A request with the number of the call under way is that call.
MatchingOf(c) ==
  \A k \in Slot(c) : \A r \in Held(conn[c][k]) :
    call[c] # Idle /\ r.id = call[c].id => r = Frame(c, call[c].op)

Matching == \A c \in Client : MatchingOf(c)

\* A registration of a settled instance that is still to be executed is the
\* one its client waits for.
PendingOf(c) ==
  \A k \in Slot(c) : \A r \in Held(conn[c][k]) :
    r.op \in {"register", "join"} /\ r.inst \notin unsettled =>
      k = stream[c] /\ InPhase(c, "read") /\ r = Frame(c, call[c].op)

Pending == \A c \in Client : PendingOf(c)

\* The lease of i from time t on is in the registry, or it has ended.
Kept(i, t) == (i \in DOMAIN records /\ records[i] >= t) \/ t + TTL < now

Settled(i) == i \in Instance \ unsettled /\ OneOwner(i)

\* The reply to a registration is in the stream only after the lease is kept.
AckedOf(c) ==
  InPhase(c, "read") /\ call[c].op # "list" /\ Settled(call[c].inst) =>
    \A n \in DOMAIN Current(c).out :
      Current(c).out[n].id = call[c].id => Kept(call[c].inst, call[c].at)

Acked == \A c \in Client : AckedOf(c)

\* A call is later than the leases of its instance, which are kept.
Leased ==
  \A i \in Instance : granted[i] # Never =>
    /\ granted[i] <= now
    /\ Settled(i) => Kept(i, granted[i])
    /\ OneOwner(i) => \A c \in Client :
         ~InPhase(c, "idle") /\ call[c].op # "list" /\ call[c].inst = i => granted[i] <= call[c].at

-----------------------------------------------------------------------------
(* What is done to a connection                                            *)

Opened == [Unused EXCEPT !.open = TRUE, !.srv = "read"]

Sent(cn, req) == [cn EXCEPT !.in = Append(@, req)]

Taken(cn) == [cn EXCEPT !.srv = "apply", !.job = Head(cn.in), !.stamp = now, !.in = Tail(@)]

Consumed(cn) == [cn EXCEPT !.out = Tail(@)]

LEMMA ConstantFacts ==
    /\ TTL \in Nat /\ MaxReply \in Nat /\ MaxTime \in Nat
    /\ \A c \in Client : MaxConns[c] \in Nat \ {0} /\ MaxCalls[c] \in Nat \ {0}
    /\ Time \subseteq Nat /\ 0 \in Time /\ Never \in Nat /\ Never \notin Time
    /\ \A c \in Client : \A k \in Slot(c) : k \in Nat /\ k # 0
BY RegistryAssumption DEF Time, Never, Slot

LEMMA EmptySnapshot == NoRecords \in Snapshot /\ DOMAIN NoRecords = {}
<1>1. NoRecords \in [{} -> Time] /\ DOMAIN NoRecords = {}
  BY DEF NoRecords
<1>2. {} \in SUBSET Instance
  OBVIOUS
<1> QED BY <1>1, <1>2, Zenon DEF Snapshot

\* A request is never the absence of one.
LEMMA JobFacts == NoJob \notin Requests /\ Idle \notin Call
BY DEF NoJob, Requests, Op, Idle, Call

LEMMA UnusedFacts ==
    /\ Unused \in Conns /\ Opened \in Conns /\ Quiet(Opened)
    /\ Opened.srv = "read" /\ Opened.open /\ Opened.job = NoJob
<1>1. Unused \in Conns /\ Unused.job = NoJob /\ Unused.in = <<>> /\ Unused.out = <<>>
  BY ConstantFacts DEF Unused, Conns
<1>2. ASSUME NEW u \in Conns, NEW v, v = [u EXCEPT !.open = TRUE, !.srv = "read"]
      PROVE  /\ v \in Conns /\ v.srv = "read" /\ v.open /\ v.job = u.job
             /\ v.in = u.in /\ v.out = u.out
  BY <1>2 DEF Conns
<1>3. Opened \in Conns /\ Opened.srv = "read" /\ Opened.open /\ Opened.job = NoJob
      /\ Opened.in = <<>> /\ Opened.out = <<>>
  BY <1>1, <1>2, Zenon DEF Opened
<1> QED BY <1>1, <1>3 DEF Quiet

LEMMA ConnFacts ==
    ASSUME NEW cn \in Conns
    PROVE  /\ cn.open \in BOOLEAN /\ cn.job \in Requests \cup {NoJob} /\ cn.stamp \in Time
           /\ cn.in \in Seq(Requests) /\ cn.out \in Seq(Replies)
BY DEF Conns

LEMMA SentFacts ==
    ASSUME NEW cn \in Conns, NEW req \in Requests, NEW x, x = Sent(cn, req)
    PROVE  /\ x \in Conns /\ x.open = cn.open /\ x.srv = cn.srv /\ x.job = cn.job
           /\ x.stamp = cn.stamp /\ x.in = Append(cn.in, req) /\ x.out = cn.out
<1>1. /\ x.open = cn.open /\ x.srv = cn.srv /\ x.job = cn.job
      /\ x.stamp = cn.stamp /\ x.in = Append(cn.in, req) /\ x.out = cn.out
  BY DEF Conns, Sent
<1>2. Append(cn.in, req) \in Seq(Requests)
  BY ConnFacts
<1>3. x \in Conns
  BY <1>2 DEF Conns, Sent
<1> QED BY <1>1, <1>3

LEMMA TakenFacts ==
    ASSUME NEW cn \in Conns, cn.in # <<>>, now \in Time, NEW x, x = Taken(cn)
    PROVE  /\ x \in Conns /\ x.open = cn.open /\ x.srv = "apply" /\ x.job = Head(cn.in)
           /\ x.stamp = now /\ x.in = Tail(cn.in) /\ x.out = cn.out
<1>1. /\ x.open = cn.open /\ x.srv = "apply" /\ x.job = Head(cn.in)
      /\ x.stamp = now /\ x.in = Tail(cn.in) /\ x.out = cn.out
  BY DEF Conns, Taken
<1>2. Head(cn.in) \in Requests /\ Tail(cn.in) \in Seq(Requests)
  BY ConnFacts
<1>3. x \in Conns
  BY <1>2 DEF Conns, Taken
<1> QED BY <1>1, <1>3

LEMMA ClosedFacts ==
    ASSUME NEW cn \in Conns, NEW x, x = Closed(cn)
    PROVE  /\ x \in Conns /\ x.open = cn.open /\ x.srv = "closed" /\ x.job = NoJob
           /\ x.in = <<>> /\ x.out = cn.out
<1>1. /\ x.open = cn.open /\ x.srv = "closed" /\ x.job = NoJob
      /\ x.in = <<>> /\ x.out = cn.out
  BY ConstantFacts DEF Conns, Closed
<1>2. <<>> \in Seq(Requests)
  BY ConnFacts
<1>3. x \in Conns
  BY <1>2, ConstantFacts DEF Conns, Closed
<1> QED BY <1>1, <1>3

LEMMA AbandonedFacts ==
    ASSUME NEW cn \in Conns, NEW x, x = Abandoned(cn)
    PROVE  /\ x \in Conns /\ ~x.open /\ x.srv = cn.srv /\ x.job = cn.job
           /\ x.stamp = cn.stamp /\ x.in = cn.in /\ x.out = <<>>
<1>1. /\ ~x.open /\ x.srv = cn.srv /\ x.job = cn.job
      /\ x.stamp = cn.stamp /\ x.in = cn.in /\ x.out = <<>>
  BY DEF Conns, Abandoned
<1>2. <<>> \in Seq(Replies)
  BY ConnFacts
<1>3. x \in Conns
  BY <1>2 DEF Conns, Abandoned
<1> QED BY <1>1, <1>3

LEMMA ConsumedFacts ==
    ASSUME NEW cn \in Conns, cn.out # <<>>, NEW x, x = Consumed(cn)
    PROVE  /\ x \in Conns /\ x.open = cn.open /\ x.srv = cn.srv /\ x.job = cn.job
           /\ x.stamp = cn.stamp /\ x.in = cn.in /\ x.out = Tail(cn.out)
<1>1. /\ x.open = cn.open /\ x.srv = cn.srv /\ x.job = cn.job
      /\ x.stamp = cn.stamp /\ x.in = cn.in /\ x.out = Tail(cn.out)
  BY DEF Conns, Consumed
<1>2. Tail(cn.out) \in Seq(Replies)
  BY ConnFacts
<1>3. x \in Conns
  BY <1>2 DEF Conns, Consumed
<1> QED BY <1>1, <1>3

\* The answer to a job, whose list holds what had not expired at its stamp.
LEMMA AnswerFacts ==
    ASSUME NEW cn \in Conns, cn.job \in Requests, records \in Snapshot
    PROVE  /\ Answer(cn) \in Replies /\ Answer(cn).id = cn.job.id
           /\ \A i \in DOMAIN Answer(cn).recs : ~Expired(Answer(cn).recs[i], cn.stamp)
<1>1. PICK S \in SUBSET Instance : records \in [S -> Time]
  BY DEF Snapshot
<1>2. CASE cn.job.op = "list"
  <2>1. Answer(cn) = [kind |-> "list", recs |-> Restrict(records, Unexpired(cn.stamp)), id |-> cn.job.id]
    BY <1>2 DEF Answer
  <2>2. Restrict(records, Unexpired(cn.stamp)) \in [Unexpired(cn.stamp) -> Time] /\ Unexpired(cn.stamp) \in SUBSET Instance
    BY <1>1 DEF Restrict, Unexpired
  <2>3. Restrict(records, Unexpired(cn.stamp)) \in Snapshot
    BY <2>2, Zenon DEF Snapshot
  <2>4. \A i \in Unexpired(cn.stamp) : ~Expired(Restrict(records, Unexpired(cn.stamp))[i], cn.stamp)
    BY <1>1 DEF Restrict, Unexpired
  <2> QED BY <2>1, <2>2, <2>3, <2>4 DEF Replies, Requests
<1>3. CASE cn.job.op # "list"
  <2>1. Answer(cn) = [kind |-> "pong", recs |-> NoRecords, id |-> cn.job.id]
    BY <1>3 DEF Answer
  <2> QED BY <2>1, EmptySnapshot DEF Replies, Requests
<1> QED BY <1>2, <1>3

LEMMA AnsweredFacts ==
    ASSUME NEW cn \in Conns, cn.job \in Requests, records \in Snapshot, NEW x, x = Answered(cn)
    PROVE  /\ x \in Conns /\ x.open = cn.open /\ x.srv = "read" /\ x.job = NoJob
           /\ x.in = cn.in /\ x.out = (IF cn.open THEN Append(cn.out, Answer(cn)) ELSE cn.out)
<1>1. PICK a \in Replies : a = Answer(cn)
  BY AnswerFacts
<1>2. PICK o \in Seq(Replies) : o = IF cn.open THEN Append(cn.out, a) ELSE cn.out
  <2>1. Append(cn.out, a) \in Seq(Replies) /\ cn.out \in Seq(Replies)
    BY <1>1, ConnFacts
  <2> QED BY <2>1
<1>3. x = [cn EXCEPT !.srv = "read", !.job = NoJob, !.stamp = 0, !.out = o]
  BY <1>1, <1>2 DEF Answered, Conns
<1>4. x \in Conns
  BY <1>3, ConstantFacts DEF Conns
<1>5. x.open = cn.open /\ x.srv = "read" /\ x.job = NoJob /\ x.in = cn.in /\ x.out = o
  BY <1>3 DEF Conns
<1> QED BY <1>1, <1>2, <1>4, <1>5

\* One connection changes.
LEMMA ConnAt ==
    ASSUME conn = [c \in Client |-> conn[c]], \A c \in Client : conn[c] \in [Slot(c) -> Conns],
           NEW c \in Client, NEW k \in Slot(c), NEW x \in Conns,
           conn' = [conn EXCEPT ![c][k] = x]
    PROVE  /\ conn' = [d \in Client |-> conn'[d]]
           /\ \A d \in Client : conn'[d] \in [Slot(d) -> Conns]
           /\ conn'[c][k] = x
           /\ \A d \in Client : \A j \in Slot(d) : d # c \/ j # k => conn'[d][j] = conn[d][j]
<1>1. conn' = [d \in Client |-> IF d = c THEN [conn[c] EXCEPT ![k] = x] ELSE conn[d]]
  OBVIOUS
<1>2. \A d \in Client : d # c => conn'[d] = conn[d]
  BY <1>1
<1>3. conn'[c] = [conn[c] EXCEPT ![k] = x]
  BY <1>1
<1>4. conn'[c] \in [Slot(c) -> Conns] /\ conn'[c][k] = x /\ \A j \in Slot(c) : j # k => conn'[c][j] = conn[c][j]
  BY <1>3
<1> QED BY <1>1, <1>2, <1>4

-----------------------------------------------------------------------------
(* Types                                                                   *)

\* Connection k of client c becomes x, and no other changes.
Sets(c, k, x) ==
  /\ x \in Conns /\ conn'[c][k] = x
  /\ conn' = [d \in Client |-> conn'[d]]
  /\ \A d \in Client : conn'[d] \in [Slot(d) -> Conns]
  /\ \A d \in Client : \A j \in Slot(d) : d # c \/ j # k => conn'[d][j] = conn[d][j]

LEMMA CallFacts ==
    ASSUME TypeOK, NEW c \in Client
    PROVE  /\ InPhase(c, "idle") <=> call[c] = Idle
           /\ call[c] # Idle =>
                /\ call[c] \in Call /\ call[c].op \in Op /\ call[c].inst \in Instance
                /\ call[c].id \in Nat \ {0} /\ call[c].at \in Time /\ call[c].at \in Nat
                /\ call[c].phase \in {"write", "read"}
           /\ InPhase(c, "write") \/ InPhase(c, "read") => call[c] # Idle
<1>1. call[c] \in Call \cup {Idle}
  BY DEF TypeOK
<1>2. CASE call[c] \in Call
  <2>1. /\ call[c].op \in Op /\ call[c].inst \in Instance /\ call[c].id \in Nat \ {0}
        /\ call[c].at \in Time /\ call[c].phase \in {"write", "read"}
    BY <1>2 DEF Call
  <2>2. call[c] # Idle
    BY <1>2, JobFacts
  <2> QED BY <1>2, <2>1, <2>2, ConstantFacts DEF InPhase
<1>3. CASE call[c] = Idle
  <2>1. call[c].phase = "idle"
    BY <1>3 DEF Idle
  <2> QED BY <1>3, <2>1 DEF InPhase
<1> QED BY <1>1, <1>2, <1>3

LEMMA SlotFacts ==
    ASSUME TypeOK, NEW c \in Client
    PROVE  /\ stream[c] # 0 => stream[c] \in Slot(c)
           /\ \A k \in Slot(c) : conn[c][k] \in Conns
           /\ opened[c] \in Nat /\ asked[c] \in Nat /\ stream[c] \in Nat /\ stream[c] <= opened[c]
BY ConstantFacts DEF TypeOK, Slot

LEMMA SetsAt ==
    ASSUME TypeOK, Shape, NEW c \in Client, NEW k \in Slot(c), NEW x \in Conns,
           conn' = [conn EXCEPT ![c][k] = x]
    PROVE  Sets(c, k, x)
<1>1. conn = [d \in Client |-> conn[d]] /\ \A d \in Client : conn[d] \in [Slot(d) -> Conns]
  BY DEF TypeOK, Shape
<1> QED BY <1>1, ConnAt, ZenonT(30) DEF Sets

LEMMA SetsClose ==
    ASSUME TypeOK, Shape, NEW c \in Client, stream[c] # 0, CloseStream(c)
    PROVE  Sets(c, stream[c], Abandoned(Current(c))) /\ stream' = [stream EXCEPT ![c] = 0]
<1>1. PICK x \in Conns : x = Abandoned(Current(c))
  BY SlotFacts, AbandonedFacts DEF Current
<1>2. conn' = [conn EXCEPT ![c][stream[c]] = x]
  BY <1>1 DEF CloseStream, Current
<1> QED BY <1>1, <1>2, SlotFacts, SetsAt DEF CloseStream

LEMMA SetsSent ==
    ASSUME TypeOK, Shape, NEW c \in Client, stream[c] # 0, NEW req \in Requests, ToServer(c, req)
    PROVE  Sets(c, stream[c], Sent(Current(c), req))
<1>1. PICK x \in Conns : x = Sent(Current(c), req)
  BY SlotFacts, SentFacts DEF Current
<1>2. conn' = [conn EXCEPT ![c][stream[c]] = x]
  BY <1>1 DEF ToServer, Current, Sent
<1> QED BY <1>1, <1>2, SlotFacts, SetsAt

LEMMA SetsConsumed ==
    ASSUME TypeOK, Shape, NEW c \in Client, stream[c] # 0, Current(c).out # <<>>,
           conn' = [conn EXCEPT ![c][stream[c]].out = Tail(@)]
    PROVE  Sets(c, stream[c], Consumed(Current(c)))
<1>1. PICK x \in Conns : x = Consumed(Current(c))
  BY SlotFacts, ConsumedFacts DEF Current
<1>2. conn' = [conn EXCEPT ![c][stream[c]] = x]
  BY <1>1 DEF Current, Consumed
<1> QED BY <1>1, <1>2, SlotFacts, SetsAt

LEMMA FrameFacts ==
    ASSUME TypeOK, NEW c \in Client, call[c] # Idle, NEW op \in Op \cup {"torn"}
    PROVE  Frame(c, op) \in Requests /\ Frame(c, op).op = op /\ Frame(c, op).inst = call[c].inst /\ Frame(c, op).id = call[c].id
BY CallFacts DEF Frame, Requests

\* The three ways a call may start: with the stream there is, with a new one
\* or not at all.
Begun(c, op, i) ==
  call' = [call EXCEPT ![c] = [op |-> op, inst |-> i, id |-> asked[c] + 1, at |-> now, phase |-> "write"]]

\* A call begins on the kept stream or on a fresh connection.
LEMMA StartCases ==
    ASSUME TypeOK, Shape, NEW c \in Client, NEW u \in Uses[c], StartCall(c, u[1], u[2])
    PROVE  /\ u[1] \in Op /\ u[2] \in Instance /\ call[c] = Idle
           /\ \/ /\ stream[c] # 0 /\ Begun(c, u[1], u[2]) /\ UNCHANGED <<stream, opened, conn, dropped>>
              \/ /\ stream[c] = 0 /\ Begun(c, u[1], u[2])
                 /\ opened[c] + 1 \in Slot(c) /\ Sets(c, opened[c] + 1, Opened)
                 /\ opened' = [opened EXCEPT ![c] = @ + 1]
                 /\ stream' = [stream EXCEPT ![c] = opened[c] + 1]
                 /\ dropped' = [dropped EXCEPT ![c] = FALSE]
              \/ stream[c] = 0 /\ UNCHANGED <<call, stream, opened, conn, dropped>>
           /\ asked' = [asked EXCEPT ![c] = @ + 1] /\ asked[c] < MaxCalls[c]
           /\ mesh' \in [Client -> SUBSET Instance]
           /\ UNCHANGED <<now, records, evicting, granted, unsettled>>
<1>1. u \in Op \X Instance
  BY RegistryAssumption DEF Op
<1>2. u[1] \in Op /\ u[2] \in Instance
  BY <1>1
<1>3. call[c] = Idle
  BY CallFacts DEF StartCall
<1>4. ASSUME stream[c] = 0, opened[c] < MaxConns[c], SetConn(c, opened[c] + 1, [Unused EXCEPT !.open = TRUE, !.srv = "read"])
      PROVE  opened[c] + 1 \in Slot(c) /\ Sets(c, opened[c] + 1, Opened)
  <2>1. opened[c] + 1 \in Slot(c)
    BY <1>4, SlotFacts, ConstantFacts DEF Slot
  <2>2. conn' = [conn EXCEPT ![c][opened[c] + 1] = Opened]
    BY <1>4 DEF SetConn, Opened
  <2> QED BY <2>1, <2>2, UnusedFacts, SetsAt
<1>5. mesh' \in [Client -> SUBSET Instance]
  BY <1>2 DEF StartCall, TypeOK
<1> QED BY <1>2, <1>3, <1>4, <1>5 DEF StartCall, Connect, Begun

\* The call ends with its stream closed, or with the stream as it is.
Ended(c) == call[c] # Idle /\ stream[c] # 0 /\ call' = [call EXCEPT ![c] = Idle]

Dropped(c) == Sets(c, stream[c], Abandoned(Current(c))) /\ stream' = [stream EXCEPT ![c] = 0]

LEMMA CallHasStream ==
    ASSUME TypeOK, Shape, NEW c \in Client, ~InPhase(c, "idle")
    PROVE  call[c] # Idle /\ call[c] \in Call /\ stream[c] # 0 /\ stream[c] \in Slot(c)
BY CallFacts, SlotFacts DEF Shape

\* A failed request gives its stream up.
LEMMA FailsCases ==
    ASSUME TypeOK, Shape, NEW c \in Client, Fails(c)
    PROVE  /\ Ended(c) /\ Dropped(c) /\ Unsettle(c)
           /\ UNCHANGED <<now, records, evicting, opened, mesh, asked, dropped, granted>>
<1>1. call[c] # Idle /\ stream[c] # 0
  BY CallHasStream DEF Fails
<1> QED BY <1>1, SetsClose DEF Fails, Ended, Dropped

\* A dropped request leaves the stream in use, half-written perhaps; join_mesh
\* drops its own client and stream with it.
LEMMA DropCases ==
    ASSUME TypeOK, Shape, NEW c \in Client, DropCall(c)
    PROVE  /\ Ended(c) /\ Unsettle(c) /\ dropped' = [dropped EXCEPT ![c] = TRUE]
           /\ \/ Dropped(c)
              \/ UNCHANGED <<stream, conn>>
              \/ InPhase(c, "write") /\ Sets(c, stream[c], Sent(Current(c), Frame(c, "torn"))) /\ UNCHANGED stream
           /\ UNCHANGED <<now, records, evicting, opened, mesh, asked, granted>>
<1>1. call[c] # Idle /\ stream[c] # 0
  BY CallHasStream DEF DropCall
<1>2. Frame(c, "torn") \in Requests
  BY <1>1, FrameFacts
<1>3. CloseStream(c) => Dropped(c)
  BY <1>1, SetsClose DEF Dropped
<1>4. ToServer(c, Frame(c, "torn")) => Sets(c, stream[c], Sent(Current(c), Frame(c, "torn")))
  BY <1>1, <1>2, SetsSent
<1> QED BY <1>1, <1>3, <1>4 DEF DropCall, Ended, InPhase

\* A written request is the last of its connection.
LEMMA WriteCases ==
    ASSUME TypeOK, Shape, NEW c \in Client, Write(c)
    PROVE  /\ call[c] # Idle /\ stream[c] # 0
           /\ Sets(c, stream[c], Sent(Current(c), Frame(c, call[c].op)))
           /\ call' = [call EXCEPT ![c].phase = "read"]
           /\ UNCHANGED <<now, records, evicting, stream, opened, mesh, asked, dropped, granted, unsettled>>
<1>1. call[c] # Idle /\ stream[c] # 0 /\ call[c].op \in Op
  BY CallHasStream, CallFacts DEF Write
<1>2. Frame(c, call[c].op) \in Requests
  BY <1>1, FrameFacts
<1> QED BY <1>1, <1>2, SetsSent DEF Write

\* A reply is taken from the head of the stream; join_mesh then closes it.
LEMMA ReturnCases ==
    ASSUME TypeOK, Shape, NEW c \in Client, Return(c)
    PROVE  /\ Ended(c) /\ InPhase(c, "read") /\ Current(c).out # <<>>
           /\ Dropped(c) \/ (Sets(c, stream[c], Consumed(Current(c))) /\ UNCHANGED stream)
           /\ LET reply == Head(Current(c).out) IN
              /\ mesh' = [mesh EXCEPT ![c] = IF Expected(c, reply) /\ reply.kind = "list" THEN DOMAIN reply.recs ELSE @]
              /\ granted' = IF reply.kind = "pong" /\ Expected(c, reply) /\ reply.id = call[c].id
                            THEN [granted EXCEPT ![call[c].inst] = call[c].at] ELSE granted
              /\ IF reply.id = call[c].id THEN UNCHANGED unsettled ELSE Unsettle(c)
           /\ UNCHANGED <<now, records, evicting, opened, asked, dropped>>
<1>1. call[c] # Idle /\ stream[c] # 0
  BY CallHasStream, CallFacts DEF Return
<1>2. CloseStream(c) => Dropped(c)
  BY <1>1, SetsClose DEF Dropped
<1>3. Current(c).out # <<>>
  BY DEF Return, Current
<1>4. conn' = [conn EXCEPT ![c][stream[c]].out = Tail(@)] => Sets(c, stream[c], Consumed(Current(c)))
  BY <1>1, <1>3, SetsConsumed
<1> QED BY <1>1, <1>2, <1>3, <1>4 DEF Return, Current, Ended

\* A handler takes a request, ends, or executes its job and then answers or
\* ends.
LEMMA ServerCases ==
    ASSUME TypeOK, Shape, NEW c \in Client, NEW k \in Slot(c), Server(c, k)
    PROVE  LET cn == conn[c][k] IN
           /\ \/ /\ cn.srv = "read" /\ cn.in # <<>> /\ Sets(c, k, Taken(cn))
                 /\ Head(cn.in).op # "torn" /\ UNCHANGED records
              \/ cn.srv = "read" /\ Sets(c, k, Closed(cn)) /\ UNCHANGED records
              \/ /\ cn.srv = "apply" /\ cn.job \in Requests
                 /\ Sets(c, k, Answered(cn)) \/ Sets(c, k, Closed(cn))
                 /\ records' = IF cn.job.op = "list" THEN records ELSE Stored(cn.job.inst, cn.stamp)
           /\ UNCHANGED <<now, evicting, clientVars>>
<1>1. conn[c][k] \in Conns
  BY SlotFacts
<1>2. ASSUME conn[c][k].in # <<>>, conn' = [conn EXCEPT ![c][k] = Taken(conn[c][k])] PROVE Sets(c, k, Taken(conn[c][k]))
  <2>1. PICK x \in Conns : x = Taken(conn[c][k])
    BY <1>1, <1>2, TakenFacts DEF TypeOK
  <2> QED BY <1>2, <2>1, SetsAt
<1>3. ASSUME conn' = [conn EXCEPT ![c][k] = Closed(conn[c][k])] PROVE Sets(c, k, Closed(conn[c][k]))
  <2>1. PICK x \in Conns : x = Closed(conn[c][k])
    BY <1>1, ClosedFacts
  <2> QED BY <1>3, <2>1, SetsAt
<1>4. conn[c][k].srv = "apply" => conn[c][k].job \in Requests
  BY <1>1, ConnFacts DEF Shape
<1>5. ASSUME conn[c][k].srv = "apply", conn' = [conn EXCEPT ![c][k] = Answered(conn[c][k])]
      PROVE  Sets(c, k, Answered(conn[c][k]))
  <2>1. PICK x \in Conns : x = Answered(conn[c][k])
    BY <1>1, <1>4, <1>5, AnsweredFacts DEF TypeOK
  <2> QED BY <1>5, <2>1, SetsAt
<1>6. CASE ReadRequest(c, k)
  BY <1>2, <1>3, <1>6 DEF ReadRequest, SetConn, Taken
<1>7. CASE Execute(c, k)
  BY <1>3, <1>4, <1>5, <1>7 DEF Execute, SetConn
<1>8. CASE HandlerEnds(c, k)
  BY <1>3, <1>8 DEF HandlerEnds, SetConn
<1> QED BY <1>6, <1>7, <1>8 DEF Server

\* The steps of the system, client by client.
LEMMA NextCases ==
    ASSUME [Next]_vars
    PROVE  \/ Tick \/ EvictStart \/ EvictApply \/ UNCHANGED vars
           \/ \E i \in Instance : Deregister(i)
           \/ \E c \in Client : (\E u \in Uses[c] : StartCall(c, u[1], u[2])) \/ DropCall(c) \/ Fails(c) \/ Write(c) \/ Return(c)
           \/ \E c \in Client : \E k \in Slot(c) : Server(c, k)
BY DEF Next, User, ClientStep

LEMMA TypeInit == Init => TypeOK /\ Shape
<1> SUFFICES ASSUME Init PROVE TypeOK /\ Shape
  OBVIOUS
<1>1. records \in Snapshot /\ evicting \in Time \cup {Never} /\ now \in Time
  BY EmptySnapshot, ConstantFacts DEF Init
<1>2. \A c \in Client : call[c] = Idle /\ stream[c] = 0 /\ opened[c] = 0 /\ asked[c] = 0
  BY DEF Init
<1>3. \A c \in Client : conn[c] = [k \in Slot(c) |-> Unused]
  BY DEF Init
<1>4. \A c \in Client : conn[c] \in [Slot(c) -> Conns] /\ \A k \in Slot(c) : conn[c][k] = Unused
  BY <1>3, UnusedFacts
<1>5. conn = [c \in Client |-> conn[c]]
  BY DEF Init
<1>6. Unused.srv # "apply" /\ Unused.job = NoJob
  BY DEF Unused
<1>7. TypeOK
  BY <1>1, <1>2, <1>4, ConstantFacts DEF Init, TypeOK
<1>8. Shape
  BY <1>2, <1>4, <1>5, <1>6 DEF Init, Shape
<1> QED BY <1>7, <1>8

\* What a change of one client leaves to be shown of the types.
LEMMA TypeOfConns ==
    ASSUME TypeOK, Shape, NEW c \in Client, NEW k \in Slot(c), NEW x, Sets(c, k, x),
           x.srv = "apply" <=> x.job # NoJob,
           \/ opened' = opened /\ k <= opened[c]
           \/ opened' = [opened EXCEPT ![c] = @ + 1] /\ k = opened[c] + 1
    PROVE  /\ \A d \in Client : conn'[d] \in [Slot(d) -> Conns]
           /\ conn' = [d \in Client |-> conn'[d]]
           /\ \A d \in Client : \A j \in Slot(d) :
                /\ j > opened'[d] => conn'[d][j] = Unused
                /\ conn'[d][j].srv = "apply" <=> conn'[d][j].job # NoJob
<1>1. \A d \in Client : opened[d] \in Nat /\ opened'[d] \in Nat /\ opened'[d] >= opened[d]
  BY SlotFacts DEF Shape
<1>2. k \in Nat /\ k <= opened'[c]
  BY <1>1, ConstantFacts DEF Shape
<1>3. ASSUME NEW d \in Client, NEW j \in Slot(d), d # c \/ j # k
      PROVE  /\ j > opened'[d] => conn'[d][j] = Unused
             /\ conn'[d][j].srv = "apply" <=> conn'[d][j].job # NoJob
  <2>1. conn'[d][j] = conn[d][j] /\ j \in Nat
    BY <1>3, ConstantFacts DEF Sets
  <2>2. (j > opened[d] => conn[d][j] = Unused) /\ (conn[d][j].srv = "apply" <=> conn[d][j].job # NoJob)
    BY DEF Shape
  <2>3. j > opened'[d] => j > opened[d]
    BY <1>1, <2>1
  <2> QED BY <2>1, <2>2, <2>3
<1>4. /\ k > opened'[c] => conn'[c][k] = Unused
      /\ conn'[c][k].srv = "apply" <=> conn'[c][k].job # NoJob
  <2>1. conn'[c][k] = x /\ ~(k > opened'[c])
    BY <1>1, <1>2 DEF Sets
  <2> QED BY <2>1
<1>5. conn' = [d \in Client |-> conn'[d]] /\ \A d \in Client : conn'[d] \in [Slot(d) -> Conns]
  BY DEF Sets
<1> QED BY <1>3, <1>4, <1>5

\* The part of the two that is about the clients.
Clients ==
  /\ call \in [Client -> Call \cup {Idle}]
  /\ stream \in [Client -> Nat] /\ opened \in [Client -> Nat] /\ asked \in [Client -> Nat]
  /\ \A d \in Client :
       /\ stream[d] \in 0 .. opened[d]
       /\ opened[d] \in 0 .. MaxConns[d]
       /\ asked[d] \in 0 .. MaxCalls[d]
       /\ call[d] # Idle =>
            /\ stream[d] # 0
            /\ call[d].id = asked[d]
            /\ call[d].at <= now
            /\ <<call[d].op, call[d].inst>> \in Uses[d]

LEMMA Within ==
    ASSUME NEW a \in Nat, NEW b \in Nat, a <= b
    PROVE  a \in 0 .. b
OBVIOUS

GoodCall(c, cl, st, nr) ==
  cl \in Call /\ st # 0 /\ cl.id = nr /\ cl.at <= now /\ <<cl.op, cl.inst>> \in Uses[c]

LEMMA ShapeOfClients ==
    ASSUME TypeOK, Shape, NEW c \in Client, now' = now,
           NEW st \in Nat, stream' = [stream EXCEPT ![c] = st],
           NEW op \in Nat, opened' = [opened EXCEPT ![c] = op], st <= op, op <= MaxConns[c],
           NEW nr \in Nat, asked' = [asked EXCEPT ![c] = nr], nr <= MaxCalls[c],
           NEW cl, call' = [call EXCEPT ![c] = cl],
           cl = Idle \/ GoodCall(c, cl, st, nr)
    PROVE  Clients'
<1>1. call' \in [Client -> Call \cup {Idle}]
  BY DEF TypeOK, GoodCall
<1>2. stream' \in [Client -> Nat] /\ opened' \in [Client -> Nat] /\ asked' \in [Client -> Nat]
  BY DEF Shape
<1>3. stream'[c] = st /\ opened'[c] = op /\ asked'[c] = nr /\ call'[c] = cl
  BY DEF TypeOK, Shape
<1>4. ASSUME NEW d \in Client, d # c
      PROVE  stream'[d] = stream[d] /\ opened'[d] = opened[d] /\ asked'[d] = asked[d] /\ call'[d] = call[d]
  BY <1>4 DEF TypeOK, Shape
<1>5. ASSUME NEW d \in Client, d # c
      PROVE  /\ stream'[d] \in 0 .. opened'[d]
             /\ opened'[d] \in 0 .. MaxConns[d]
             /\ asked'[d] \in 0 .. MaxCalls[d]
             /\ call'[d] # Idle =>
                     /\ stream'[d] # 0
                     /\ call'[d].id = asked'[d]
                     /\ call'[d].at <= now
                     /\ <<call'[d].op, call'[d].inst>> \in Uses[d]
  <2>1. stream[d] \in 0 .. opened[d] /\ opened[d] \in 0 .. MaxConns[d] /\ asked[d] \in 0 .. MaxCalls[d]
    BY DEF TypeOK
  <2>2. call[d] # Idle => stream[d] # 0 /\ call[d].id = asked[d] /\ call[d].at <= now /\ <<call[d].op, call[d].inst>> \in Uses[d]
    BY DEF Shape
  <2> QED BY <1>4, <1>5, <2>1, <2>2
<1>6. st \in 0 .. op /\ op \in 0 .. MaxConns[c] /\ nr \in 0 .. MaxCalls[c]
  <2>1. MaxConns[c] \in Nat /\ MaxCalls[c] \in Nat
    BY ConstantFacts
  <2> QED BY <2>1, Within, Zenon
<1> QED BY <1>1, <1>2, <1>3, <1>5, <1>6 DEF Clients, GoodCall

\* The same, of a step that leaves the clients alone.
LEMMA ShapeUnchanged ==
    ASSUME TypeOK, Shape, UNCHANGED <<call, stream, opened, asked>>, now' \in Nat, now' >= now
    PROVE  Clients'
<1>1. \A d \in Client : call[d] # Idle => call[d].at <= now'
  <2>1. \A d \in Client : call[d] # Idle => call[d].at \in Nat /\ call[d].at <= now
    BY CallFacts DEF Shape
  <2>2. now \in Nat
    BY ConstantFacts DEF TypeOK
  <2> QED BY <2>1, <2>2
<1> QED BY <1>1 DEF TypeOK, Shape, Clients

LEMMA StoredFacts ==
    ASSUME records \in Snapshot, NEW i \in Instance, NEW t \in Time
    PROVE  Stored(i, t) \in Snapshot
<1>1. PICK S \in SUBSET Instance : records \in [S -> Time]
  BY DEF Snapshot
<1>2. Stored(i, t) \in [S \cup {i} -> Time] /\ S \cup {i} \in SUBSET Instance
  BY <1>1 DEF Stored
<1> QED BY <1>2, Zenon DEF Snapshot

LEMMA RestrictFacts ==
    ASSUME records \in Snapshot, NEW T, T \subseteq DOMAIN records
    PROVE  Restrict(records, T) \in Snapshot
<1>1. PICK S \in SUBSET Instance : records \in [S -> Time]
  BY DEF Snapshot
<1>2. Restrict(records, T) \in [T -> Time] /\ T \in SUBSET Instance
  BY <1>1 DEF Restrict
<1> QED BY <1>2, Zenon DEF Snapshot

\* The other variables.
Rest ==
  /\ now \in Time /\ records \in Snapshot /\ evicting \in Time \cup {Never}
  /\ evicting # Never => evicting <= now
  /\ mesh \in [Client -> SUBSET Instance] /\ dropped \in [Client -> BOOLEAN]
  /\ granted \in [Instance -> Time \cup {Never}] /\ unsettled \subseteq Instance

Connections ==
  /\ \A d \in Client : conn[d] \in [Slot(d) -> Conns]
  /\ conn = [d \in Client |-> conn[d]]
  /\ \A d \in Client : \A j \in Slot(d) :
       /\ j > opened[d] => conn[d][j] = Unused
       /\ conn[d][j].srv = "apply" <=> conn[d][j].job # NoJob

LEMMA Parts == TypeOK /\ Shape <=> Clients /\ Rest /\ Connections
<1>1. TypeOK /\ Shape => Clients
  BY DEF TypeOK, Shape, Clients
<1>2. TypeOK /\ Shape => Rest
  BY DEF TypeOK, Shape, Rest
<1>3. TypeOK /\ Shape => Connections
  BY DEF TypeOK, Shape, Connections
<1>4. Clients /\ Rest /\ Connections => TypeOK
  BY DEF TypeOK, Clients, Rest, Connections
<1>5. Clients /\ Rest /\ Connections => Shape
  BY DEF Shape, Clients, Rest, Connections
<1> QED BY <1>1, <1>2, <1>3, <1>4, <1>5

LEMMA SnapshotDomain == records \in Snapshot => DOMAIN records \subseteq Instance
BY DEF Snapshot

LEMMA BackgroundType ==
    ASSUME TypeOK, Shape, Tick \/ EvictStart \/ EvictApply \/ (\E i \in Instance : Deregister(i)) \/ UNCHANGED vars
    PROVE  Clients' /\ Rest' /\ Connections'
<1>1. now \in Nat /\ now' \in Time /\ now' \in Nat /\ now' >= now /\ UNCHANGED <<call, stream, opened, asked, conn>>
  <2>1. now \in Time /\ Time \subseteq Nat
    BY ConstantFacts DEF TypeOK
  <2>2. CASE Tick
    BY <2>1, <2>2, ConstantFacts DEF Tick, Time, clientVars
  <2>3. CASE UNCHANGED now /\ UNCHANGED <<call, stream, opened, asked, conn>>
    BY <2>1, <2>3
  <2>4. EvictStart \/ EvictApply \/ (\E i \in Instance : Deregister(i)) \/ UNCHANGED vars
        => UNCHANGED now /\ UNCHANGED <<call, stream, opened, asked, conn>>
    BY DEF EvictStart, EvictApply, Deregister, clientVars, vars
  <2> QED BY <2>2, <2>3, <2>4
<1>2. Clients'
  BY <1>1, ShapeUnchanged
<1>3. Connections'
  BY <1>1 DEF TypeOK, Shape, Connections
<1>4. records' \in Snapshot
  <2>1. Unexpired(evicting) \subseteq DOMAIN records
    BY DEF Unexpired
  <2>2. CASE EvictApply
    BY <2>1, <2>2, RestrictFacts DEF EvictApply, TypeOK
  <2>3. CASE \E i \in Instance : Deregister(i)
    BY <2>3, RestrictFacts DEF Deregister, TypeOK
  <2> QED BY <2>2, <2>3 DEF TypeOK, Tick, EvictStart, vars
<1>5. evicting' \in Time \cup {Never} /\ (evicting' # Never => evicting' <= now')
  <2>1. evicting' \in {evicting, now, Never}
    BY DEF Tick, EvictStart, EvictApply, Deregister, vars
  <2>2. evicting # Never => evicting \in Nat /\ evicting <= now
    BY ConstantFacts DEF TypeOK, Shape
  <2> QED BY <1>1, <2>1, <2>2 DEF TypeOK
<1>6. UNCHANGED <<mesh, dropped, granted>> /\ unsettled' \subseteq Instance
  BY DEF Tick, EvictStart, EvictApply, Deregister, clientVars, vars, TypeOK
<1> QED BY <1>1, <1>2, <1>3, <1>4, <1>5, <1>6 DEF Rest, TypeOK

LEMMA ServerType ==
    ASSUME TypeOK, Shape, NEW c \in Client, NEW k \in Slot(c), Server(c, k)
    PROVE  Clients' /\ Rest' /\ Connections'
<1> DEFINE cn == conn[c][k]
<1>1. UNCHANGED <<now, evicting, call, stream, opened, mesh, asked, dropped, granted, unsettled>>
  BY ServerCases DEF clientVars
<1>2. Clients'
  BY <1>1, ShapeUnchanged, ConstantFacts DEF TypeOK
<1>3. cn \in Conns
  BY SlotFacts
<1>4. k <= opened[c]
  <2>1. k > opened[c] => cn = Unused
    BY DEF Shape
  <2>2. Unused.srv \notin {"read", "apply"}
    BY DEF Unused
  <2> QED BY <2>1, <2>2, ServerCases, SlotFacts, ConstantFacts
<1>5. PICK x : Sets(c, k, x) /\ (x.srv = "apply" <=> x.job # NoJob)
  <2>1. CASE Sets(c, k, Closed(cn))
    BY <1>3, <2>1, ClosedFacts
  <2>2. CASE cn.srv = "read" /\ cn.in # <<>> /\ Sets(c, k, Taken(cn))
    <3>1. Taken(cn).srv = "apply" /\ Taken(cn).job = Head(cn.in)
      BY <1>3, <2>2, TakenFacts DEF TypeOK
    <3>2. Head(cn.in) \in Requests
      BY <1>3, <2>2, ConnFacts
    <3> QED BY <2>2, <3>1, <3>2, JobFacts
  <2>3. CASE cn.job \in Requests /\ Sets(c, k, Answered(cn))
    <3>1. Answered(cn).srv = "read" /\ Answered(cn).job = NoJob
      BY <1>3, <2>3, AnsweredFacts DEF TypeOK
    <3> QED BY <2>3, <3>1
  <2> QED BY <2>1, <2>2, <2>3, ServerCases
<1>6. Connections'
  BY <1>1, <1>4, <1>5, TypeOfConns DEF Connections
<1>7. records' \in Snapshot
  <2>1. cn.job \in Requests => Stored(cn.job.inst, cn.stamp) \in Snapshot
    BY <1>3, ConnFacts, StoredFacts DEF TypeOK, Requests
  <2> QED BY <2>1, ServerCases DEF TypeOK
<1>8. Rest'
  BY <1>1, <1>7, Parts DEF Rest
<1> QED BY <1>2, <1>6, <1>8

LEMMA StartType ==
    ASSUME TypeOK, Shape, NEW c \in Client, NEW u \in Uses[c], StartCall(c, u[1], u[2])
    PROVE  Clients' /\ Rest' /\ Connections'
<1> DEFINE new == [op |-> u[1], inst |-> u[2], id |-> asked[c] + 1, at |-> now, phase |-> "write"]
<1>1. /\ asked[c] + 1 \in Nat \ {0} /\ asked[c] + 1 <= MaxCalls[c] /\ now \in Time /\ now \in Nat
      /\ opened[c] \in Nat /\ stream[c] \in Nat /\ stream[c] <= opened[c] /\ opened[c] <= MaxConns[c]
  BY StartCases, SlotFacts, ConstantFacts DEF TypeOK
<1>2. new \in Call /\ new.id = asked[c] + 1 /\ new.at = now /\ new.op = u[1] /\ new.inst = u[2]
  BY <1>1, StartCases DEF Call
<1>3. <<u[1], u[2]>> = u
  BY RegistryAssumption
<1>4. \A st \in Nat \ {0} : GoodCall(c, new, st, asked[c] + 1)
  <2>1. new.at <= now
    BY <1>1, <1>2
  <2>2. <<new.op, new.inst>> \in Uses[c]
    BY <1>2, <1>3
  <2> QED BY <1>2, <2>1, <2>2 DEF GoodCall
<1> HIDE DEF new
<1>5. stream = [stream EXCEPT ![c] = stream[c]] /\ opened = [opened EXCEPT ![c] = opened[c]]
      /\ call = [call EXCEPT ![c] = call[c]]
  BY DEF Shape, TypeOK
<1>6. Begun(c, u[1], u[2]) => call' = [call EXCEPT ![c] = new]
  BY DEF Begun, new
<1>7. Connections /\ (UNCHANGED <<opened, conn>> => Connections')
  BY Parts DEF Connections
<1>8. now' = now /\ asked' = [asked EXCEPT ![c] = asked[c] + 1] /\ call[c] = Idle
  BY StartCases
<1>9. dropped' \in [Client -> BOOLEAN]
  BY StartCases DEF TypeOK
<1>10. Rest'
  BY <1>9, StartCases, Parts DEF Rest
<1>11. ASSUME stream[c] # 0, Begun(c, u[1], u[2]), UNCHANGED <<stream, opened, conn, dropped>>
       PROVE  Clients' /\ Connections'
  <2>1. stream' = [stream EXCEPT ![c] = stream[c]] /\ opened' = [opened EXCEPT ![c] = opened[c]]
    BY <1>5, <1>11
  <2>2. GoodCall(c, new, stream[c], asked[c] + 1)
    BY <1>1, <1>4, <1>11
  <2> QED BY <1>1, <1>6, <1>7, <1>8, <1>11, <2>1, <2>2, ShapeOfClients
<1>12. ASSUME stream[c] = 0, Begun(c, u[1], u[2]), opened[c] + 1 \in Slot(c), Sets(c, opened[c] + 1, Opened),
              opened' = [opened EXCEPT ![c] = @ + 1], stream' = [stream EXCEPT ![c] = opened[c] + 1]
       PROVE  Clients' /\ Connections'
  <2>1. opened[c] + 1 \in Nat /\ opened[c] + 1 # 0 /\ opened[c] + 1 <= MaxConns[c]
    BY <1>1, <1>12, ConstantFacts DEF Slot
  <2>2. opened' = [opened EXCEPT ![c] = opened[c] + 1]
    BY <1>12
  <2>3. Clients'
    <3>1. GoodCall(c, new, opened[c] + 1, asked[c] + 1)
      BY <1>4, <2>1
    <3>2. PICK st \in Nat : st = opened[c] + 1 /\ st <= st /\ st <= MaxConns[c]
      BY <2>1
    <3>3. PICK nr \in Nat : nr = asked[c] + 1 /\ nr <= MaxCalls[c]
      BY <1>1
    <3>4. /\ opened' = [opened EXCEPT ![c] = st] /\ stream' = [stream EXCEPT ![c] = st]
          /\ asked' = [asked EXCEPT ![c] = nr] /\ call' = [call EXCEPT ![c] = new]
      BY <1>6, <1>8, <1>12, <2>2, <3>2, <3>3
    <3>5. GoodCall(c, new, st, nr)
      BY <3>1, <3>2, <3>3
    <3> QED BY <1>8, <3>2, <3>3, <3>4, <3>5, ShapeOfClients
  <2>4. Opened.srv = "apply" <=> Opened.job # NoJob
    BY UnusedFacts
  <2>5. Connections'
    BY <1>12, <2>4, TypeOfConns DEF Connections
  <2> QED BY <2>3, <2>5
<1>13. ASSUME stream[c] = 0, UNCHANGED <<call, stream, opened, conn, dropped>>
       PROVE  Clients' /\ Connections'
  <2>1. /\ stream' = [stream EXCEPT ![c] = stream[c]] /\ opened' = [opened EXCEPT ![c] = opened[c]]
        /\ call' = [call EXCEPT ![c] = call[c]]
    BY <1>5, <1>13
  <2> QED BY <1>1, <1>7, <1>8, <1>13, <2>1, ShapeOfClients
<1> QED BY <1>10, <1>11, <1>12, <1>13, StartCases

\* A call that ends, or goes on to read its reply.
LEMMA CallType ==
    ASSUME TypeOK, Shape, NEW c \in Client, UNCHANGED <<now, opened, asked>>, call[c] # Idle,
           \/ call' = [call EXCEPT ![c] = Idle] /\ (UNCHANGED stream \/ stream' = [stream EXCEPT ![c] = 0])
           \/ call' = [call EXCEPT ![c].phase = "read"] /\ UNCHANGED stream
    PROVE  Clients'
<1>1. /\ stream = [stream EXCEPT ![c] = stream[c]] /\ opened = [opened EXCEPT ![c] = opened[c]]
      /\ asked = [asked EXCEPT ![c] = asked[c]]
  BY DEF Shape
<1>2. /\ asked[c] \in Nat /\ asked[c] <= MaxCalls[c] /\ 0 \in Nat /\ 0 <= opened[c]
      /\ opened[c] \in Nat /\ stream[c] \in Nat /\ stream[c] <= opened[c] /\ opened[c] <= MaxConns[c]
  BY SlotFacts, ConstantFacts DEF TypeOK
<1>3. CASE call' = [call EXCEPT ![c] = Idle] /\ UNCHANGED stream
  BY <1>1, <1>2, <1>3, ShapeOfClients
<1>4. CASE call' = [call EXCEPT ![c] = Idle] /\ stream' = [stream EXCEPT ![c] = 0]
  BY <1>1, <1>2, <1>4, ShapeOfClients
<1>5. CASE call' = [call EXCEPT ![c].phase = "read"] /\ UNCHANGED stream
  <2>1. call[c] \in Call
    BY CallFacts
  <2>2. ASSUME NEW cl, cl = [call[c] EXCEPT !.phase = "read"]
        PROVE  /\ cl \in Call /\ cl.id = call[c].id /\ cl.at = call[c].at
               /\ cl.op = call[c].op /\ cl.inst = call[c].inst
    BY <2>1, <2>2 DEF Call
  <2>3. PICK cl : cl = [call[c] EXCEPT !.phase = "read"]
    OBVIOUS
  <2>4. call' = [call EXCEPT ![c] = cl]
    BY <1>5, <2>3
  <2>5. GoodCall(c, cl, stream[c], asked[c])
    BY <2>2, <2>3 DEF Shape, GoodCall
  <2> QED BY <1>1, <1>2, <1>5, <2>4, <2>5, ShapeOfClients
<1> QED BY <1>3, <1>4, <1>5

LEMMA EndType ==
    ASSUME TypeOK, Shape, NEW c \in Client, Fails(c) \/ DropCall(c) \/ Write(c) \/ Return(c)
    PROVE  Clients' /\ Rest' /\ Connections'
<1>1. call[c] # Idle /\ call[c] \in Call /\ stream[c] # 0 /\ stream[c] \in Slot(c) /\ Current(c) \in Conns
  BY CallHasStream, CallFacts, SlotFacts, FailsCases, DropCases, WriteCases, ReturnCases DEF Ended, Current
<1>2. UNCHANGED <<now, records, evicting, opened, asked>>
  BY FailsCases, DropCases, WriteCases, ReturnCases
<1>3. Clients'
  BY <1>1, <1>2, CallType, FailsCases, DropCases, WriteCases, ReturnCases DEF Ended, Dropped
<1>4. UNCHANGED conn \/ \E x : Sets(c, stream[c], x) /\ x.srv = Current(c).srv /\ x.job = Current(c).job
  <2>1. Abandoned(Current(c)).srv = Current(c).srv /\ Abandoned(Current(c)).job = Current(c).job
    BY <1>1, AbandonedFacts
  <2>2. Frame(c, "torn") \in Requests /\ Frame(c, call[c].op) \in Requests
    BY <1>1, FrameFacts, CallFacts
  <2>3. \A r \in Requests : Sent(Current(c), r).srv = Current(c).srv /\ Sent(Current(c), r).job = Current(c).job
    BY <1>1, SentFacts
  <2>4. Current(c).out # <<>> => Consumed(Current(c)).srv = Current(c).srv /\ Consumed(Current(c)).job = Current(c).job
    BY <1>1, ConsumedFacts
  <2>5. CASE Fails(c)
    BY <2>1, <2>5, FailsCases DEF Dropped
  <2>6. CASE DropCall(c)
    BY <2>1, <2>2, <2>3, <2>6, DropCases DEF Dropped
  <2>7. CASE Write(c)
    BY <2>2, <2>3, <2>7, WriteCases
  <2>8. CASE Return(c)
    BY <2>1, <2>4, <2>8, ReturnCases DEF Dropped
  <2> QED BY <2>5, <2>6, <2>7, <2>8
<1>5. Connections'
  <2>1. CASE UNCHANGED conn
    BY <1>2, <2>1, Parts DEF Connections
  <2>2. ASSUME NEW x, Sets(c, stream[c], x), x.srv = Current(c).srv, x.job = Current(c).job PROVE Connections'
    <3>1. x.srv = "apply" <=> x.job # NoJob
      BY <1>1, <2>2 DEF Shape, Current
    <3>2. stream[c] <= opened[c]
      BY SlotFacts
    <3> QED BY <1>1, <1>2, <2>2, <3>1, <3>2, TypeOfConns DEF Connections
  <2> QED BY <1>4, <2>1, <2>2
<1>6. unsettled' \subseteq Instance
  <2>1. Unsettle(c) => unsettled' \subseteq Instance
    BY <1>1, CallFacts DEF Unsettle, TypeOK
  <2> QED BY <2>1, FailsCases, DropCases, WriteCases, ReturnCases DEF TypeOK
<1>7. mesh' \in [Client -> SUBSET Instance] /\ granted' \in [Instance -> Time \cup {Never}]
  <2>1. CASE Return(c)
    <3>1. PICK reply \in Replies : reply = Head(Current(c).out)
      BY <1>1, <2>1, ReturnCases, ConnFacts
    <3>2. DOMAIN reply.recs \subseteq Instance
      BY <3>1 DEF Replies, Snapshot
    <3>3. mesh' \in [Client -> SUBSET Instance]
      BY <2>1, <3>1, <3>2, ReturnCases DEF TypeOK
    <3>4. granted' \in [Instance -> Time \cup {Never}]
      BY <1>1, <2>1, ReturnCases, CallFacts DEF TypeOK
    <3> QED BY <3>3, <3>4
  <2>2. CASE UNCHANGED <<mesh, granted>>
    BY <2>2 DEF TypeOK
  <2> QED BY <2>1, <2>2, FailsCases, DropCases, WriteCases
<1>8. dropped' \in [Client -> BOOLEAN]
  BY FailsCases, DropCases, WriteCases, ReturnCases DEF TypeOK
<1> QED BY <1>2, <1>3, <1>5, <1>6, <1>7, <1>8, Parts DEF Rest

\* Every action keeps the types and the shape of calls and connections.
LEMMA TypeStep == TypeOK /\ Shape /\ [Next]_vars => TypeOK' /\ Shape'
<1> SUFFICES ASSUME TypeOK, Shape, [Next]_vars PROVE TypeOK' /\ Shape'
  OBVIOUS
<1>1. Clients' /\ Rest' /\ Connections'
  BY NextCases, BackgroundType, ServerType, StartType, EndType
<1>2. TypeOK'
  BY <1>1 DEF TypeOK, Clients, Rest, Connections
<1>3. Shape'
  BY <1>1 DEF Shape, Clients, Rest, Connections
<1> QED BY <1>2, <1>3

\* The types, for every instance of the mesh: a call always has a stream,
\* connections are used in order, and a handler has a job exactly while it
\* waits for the lock (src/mesh.rs).
THEOREM MeshTypeCorrect == Spec => []TypeOK
<1>1. Init => TypeOK /\ Shape
  BY TypeInit
<1>2. TypeOK /\ Shape /\ [Next]_vars => (TypeOK /\ Shape)'
  BY TypeStep
<1> QED BY <1>1, <1>2, PTL DEF Spec

-----------------------------------------------------------------------------
(* The numbers of the requests in a connection                             *)

LEMMA HeldFacts ==
    ASSUME NEW cn \in Conns
    PROVE  /\ \A r \in Held(cn) : r \in Requests /\ r.id \in Nat
           /\ \A n \in DOMAIN cn.in : cn.in[n] \in Held(cn) /\ cn.in[n] \in Requests /\ cn.in[n].id \in Nat /\ n \in Nat
           /\ cn.job # NoJob => cn.job \in Held(cn) /\ cn.job \in Requests /\ cn.job.id \in Nat
           /\ \A n \in DOMAIN cn.out : cn.out[n] \in Replies /\ cn.out[n].id \in Nat
<1>1. cn.in \in Seq(Requests) /\ cn.out \in Seq(Replies) /\ cn.job \in Requests \cup {NoJob}
  BY ConnFacts
<1>2. \A r \in Requests : r.id \in Nat
  BY DEF Requests
<1>3. \A r \in Replies : r.id \in Nat
  BY DEF Replies
<1>4. \A n \in DOMAIN cn.in : cn.in[n] \in Requests /\ n \in Nat
  BY <1>1
<1>5. \A n \in DOMAIN cn.out : cn.out[n] \in Replies
  BY <1>1
<1> QED BY <1>1, <1>2, <1>3, <1>4, <1>5 DEF Held, ToSet

LEMMA HeldSent ==
    ASSUME NEW cn \in Conns, NEW req \in Requests
    PROVE  Held(Sent(cn, req)) = Held(cn) \cup {req}
<1>1. PICK x : x = Sent(cn, req)
  OBVIOUS
<1>2. x.in = Append(cn.in, req) /\ x.job = cn.job
  BY <1>1, SentFacts
<1>3. ToSet(Append(cn.in, req)) = ToSet(cn.in) \cup {req}
  BY Push, ConnFacts
<1> QED BY <1>1, <1>2, <1>3 DEF Held

LEMMA HeldTaken ==
    ASSUME NEW cn \in Conns, now \in Time, cn.in # <<>>, cn.job = NoJob
    PROVE  Held(Taken(cn)) \subseteq Held(cn)
<1>1. PICK x : x = Taken(cn)
  OBVIOUS
<1>2. x.in = Tail(cn.in) /\ x.job = Head(cn.in)
  BY <1>1, TakenFacts
<1>3. Head(cn.in) = cn.in[1] /\ 1 \in DOMAIN cn.in
  BY Pop, ConnFacts
<1>4. \A n \in DOMAIN Tail(cn.in) : n + 1 \in DOMAIN cn.in /\ Tail(cn.in)[n] = cn.in[n + 1]
  BY Pop, ConnFacts
<1>5. ToSet(Tail(cn.in)) \subseteq ToSet(cn.in) /\ Head(cn.in) \in ToSet(cn.in)
  BY <1>3, <1>4 DEF ToSet
<1> QED BY <1>1, <1>2, <1>5 DEF Held

LEMMA HeldClosed ==
    ASSUME NEW cn \in Conns
    PROVE  Held(Closed(cn)) = {}
<1>1. PICK x : x = Closed(cn)
  OBVIOUS
<1>2. x.in = <<>> /\ x.job = NoJob
  BY <1>1, ClosedFacts
<1>3. ToSet(<<>>) = {}
  BY DEF ToSet
<1> QED BY <1>1, <1>2, <1>3 DEF Held

LEMMA HeldQuiet ==
    ASSUME NEW cn, Quiet(cn)
    PROVE  Held(cn) = {} /\ DOMAIN cn.out = {} /\ DOMAIN cn.in = {}
<1>1. ToSet(<<>>) = {} /\ DOMAIN <<>> = {}
  BY DEF ToSet
<1> QED BY <1>1 DEF Held, Quiet

LEMMA NumberedTop ==
    ASSUME NEW cn \in Conns, NEW a \in Nat, NEW b \in Nat, a <= b, Numbered(cn, a)
    PROVE  Numbered(cn, b)
<1>1. \A r \in Held(cn) : r.id <= b
  BY HeldFacts DEF Numbered
<1>2. \A n \in DOMAIN cn.out : cn.out[n].id <= b
  BY HeldFacts DEF Numbered
<1> QED BY <1>1, <1>2 DEF Numbered

LEMMA NumberedQuiet ==
    ASSUME NEW cn, Quiet(cn), NEW a
    PROVE  Numbered(cn, a)
BY HeldQuiet DEF Numbered, Quiet

LEMMA NumberedSent ==
    ASSUME NEW cn \in Conns, NEW req \in Requests, NEW a \in Nat, Numbered(cn, a), req.id = a + 1
    PROVE  Numbered(Sent(cn, req), a + 1)
<1>1. PICK x : x = Sent(cn, req)
  OBVIOUS
<1>2. x.in = Append(cn.in, req) /\ x.job = cn.job /\ x.out = cn.out
  BY <1>1, SentFacts
<1>3. Held(x) = Held(cn) \cup {req}
  BY <1>1, HeldSent
<1>4. Numbered(cn, a + 1)
  BY NumberedTop
<1>5. (\A r \in Held(x) : r.id <= a + 1) /\ \A n \in DOMAIN x.out : x.out[n].id <= a + 1
  BY <1>2, <1>3, <1>4 DEF Numbered
<1>6. \A n \in DOMAIN x.out : \A r \in Held(x) : x.out[n].id < r.id
  BY <1>2, <1>3, HeldFacts DEF Numbered
<1>7. \A n \in DOMAIN x.in : (n \in DOMAIN cn.in /\ x.in[n] = cn.in[n]) \/ (n = Len(cn.in) + 1 /\ x.in[n] = req)
  BY <1>2, Push, ConnFacts
<1>8. \A n \in DOMAIN cn.in : n \in Nat /\ n <= Len(cn.in) /\ Len(cn.in) \in Nat /\ cn.in[n].id \in Nat /\ cn.in[n].id < a + 1
  <2>1. \A n \in DOMAIN cn.in : cn.in[n].id <= a /\ cn.in[n].id \in Nat
    BY HeldFacts DEF Numbered
  <2>2. Len(cn.in) \in Nat /\ DOMAIN cn.in = 1 .. Len(cn.in)
    BY Push, ConnFacts
  <2> QED BY <2>1, <2>2
<1>9. x.job # NoJob => \A n \in DOMAIN x.in : x.job.id < x.in[n].id
  <2>1. cn.job # NoJob => cn.job.id \in Nat /\ cn.job.id <= a
    BY HeldFacts DEF Numbered
  <2> QED BY <1>2, <1>7, <2>1 DEF Numbered
<1>10. ASSUME NEW m \in DOMAIN x.in, NEW n \in DOMAIN x.in, m < n PROVE x.in[m].id < x.in[n].id
  <2>1. CASE n \in DOMAIN cn.in /\ m \in DOMAIN cn.in /\ x.in[n] = cn.in[n] /\ x.in[m] = cn.in[m]
    BY <1>10, <2>1 DEF Numbered
  <2>2. CASE n = Len(cn.in) + 1 /\ x.in[n] = req /\ m \in DOMAIN cn.in /\ x.in[m] = cn.in[m]
    BY <1>8, <2>2
  <2>3. CASE m = Len(cn.in) + 1 /\ (n \in DOMAIN cn.in \/ n = Len(cn.in) + 1)
    <3>1. Len(cn.in) \in Nat
      BY Push, ConnFacts
    <3> QED BY <1>8, <1>10, <2>3, <3>1
  <2> QED BY <1>7, <2>1, <2>2, <2>3
<1> QED BY <1>1, <1>5, <1>6, <1>9, <1>10 DEF Numbered

LEMMA NumberedTaken ==
    ASSUME NEW cn \in Conns, now \in Time, cn.in # <<>>, cn.job = NoJob, NEW a, Numbered(cn, a)
    PROVE  Numbered(Taken(cn), a)
<1>1. PICK x : x = Taken(cn)
  OBVIOUS
<1>2. x.in = Tail(cn.in) /\ x.job = Head(cn.in) /\ x.out = cn.out
  BY <1>1, TakenFacts
<1>3. Held(x) \subseteq Held(cn)
  BY <1>1, HeldTaken
<1>4. Head(cn.in) = cn.in[1] /\ 1 \in DOMAIN cn.in
  BY Pop, ConnFacts
<1>5. \A n \in DOMAIN x.in : n \in Nat /\ 1 < n + 1 /\ n + 1 \in DOMAIN cn.in /\ x.in[n] = cn.in[n + 1]
  <2>1. Len(cn.in) \in Nat /\ DOMAIN Tail(cn.in) = 1 .. Len(cn.in) - 1
    BY Pop, ConnFacts
  <2>2. \A n \in DOMAIN Tail(cn.in) : n + 1 \in DOMAIN cn.in /\ Tail(cn.in)[n] = cn.in[n + 1]
    BY Pop, ConnFacts
  <2> QED BY <1>2, <2>1, <2>2
<1>6. \A n \in DOMAIN x.in : x.job.id < x.in[n].id
  BY <1>2, <1>4, <1>5 DEF Numbered
<1>7. \A m, n \in DOMAIN x.in : m < n => x.in[m].id < x.in[n].id
  <2>1. \A m, n \in DOMAIN x.in : m < n => m + 1 < n + 1
    BY <1>5
  <2> QED BY <1>5, <2>1 DEF Numbered
<1> QED BY <1>1, <1>2, <1>3, <1>6, <1>7 DEF Numbered

LEMMA NumberedClosed ==
    ASSUME NEW cn \in Conns, NEW a, Numbered(cn, a)
    PROVE  Numbered(Closed(cn), a)
<1>1. PICK x : x = Closed(cn)
  OBVIOUS
<1>2. x.in = <<>> /\ x.job = NoJob /\ x.out = cn.out /\ Held(x) = {}
  BY <1>1, ClosedFacts, HeldClosed
<1>3. DOMAIN <<>> = {}
  OBVIOUS
<1> QED BY <1>1, <1>2, <1>3 DEF Numbered

LEMMA NumberedAbandoned ==
    ASSUME NEW cn \in Conns, NEW a, Numbered(cn, a)
    PROVE  Numbered(Abandoned(cn), a) /\ Held(Abandoned(cn)) = Held(cn)
<1>1. PICK x : x = Abandoned(cn)
  OBVIOUS
<1>2. x.in = cn.in /\ x.job = cn.job /\ x.out = <<>>
  BY <1>1, AbandonedFacts
<1>3. Held(x) = Held(cn)
  BY <1>2 DEF Held
<1>4. DOMAIN <<>> = {}
  OBVIOUS
<1> QED BY <1>1, <1>2, <1>3, <1>4 DEF Numbered

LEMMA NumberedConsumed ==
    ASSUME NEW cn \in Conns, cn.out # <<>>, NEW a, Numbered(cn, a)
    PROVE  Numbered(Consumed(cn), a) /\ Held(Consumed(cn)) = Held(cn)
<1>1. PICK x : x = Consumed(cn)
  OBVIOUS
<1>2. x.in = cn.in /\ x.job = cn.job /\ x.out = Tail(cn.out)
  BY <1>1, ConsumedFacts
<1>3. Held(x) = Held(cn)
  BY <1>2 DEF Held
<1>4. \A n \in DOMAIN x.out : n + 1 \in DOMAIN cn.out /\ x.out[n] = cn.out[n + 1]
  BY <1>2, Pop, ConnFacts
<1> QED BY <1>1, <1>2, <1>3, <1>4 DEF Numbered

LEMMA NumberedAnswered ==
    ASSUME NEW cn \in Conns, cn.job \in Requests, records \in Snapshot, NEW a, Numbered(cn, a)
    PROVE  Numbered(Answered(cn), a) /\ Held(Answered(cn)) \subseteq Held(cn)
<1>1. PICK x : x = Answered(cn)
  OBVIOUS
<1>2. x.in = cn.in /\ x.job = NoJob /\ x.out = (IF cn.open THEN Append(cn.out, Answer(cn)) ELSE cn.out)
  BY <1>1, AnsweredFacts
<1>3. Held(x) = ToSet(cn.in) /\ Held(x) \subseteq Held(cn)
  BY <1>2 DEF Held
<1>4. cn.job # NoJob /\ cn.job \in Held(cn)
  BY JobFacts, HeldFacts
<1>5. \A n \in DOMAIN x.out : (n \in DOMAIN cn.out /\ x.out[n] = cn.out[n]) \/ x.out[n].id = cn.job.id
  <2>1. Answer(cn) \in Replies /\ Answer(cn).id = cn.job.id
    BY AnswerFacts
  <2>2. \A n \in DOMAIN Append(cn.out, Answer(cn)) :
           (n \in DOMAIN cn.out /\ Append(cn.out, Answer(cn))[n] = cn.out[n]) \/ Append(cn.out, Answer(cn))[n] = Answer(cn)
    BY <2>1, Push, ConnFacts
  <2> QED BY <1>2, <2>1, <2>2
<1>6. \A r \in Held(x) : cn.job.id < r.id
  BY <1>3, <1>4 DEF Numbered, ToSet
<1> QED BY <1>1, <1>2, <1>3, <1>4, <1>5, <1>6 DEF Numbered

LEMMA TopFacts ==
    ASSUME TypeOK, Shape, NEW c \in Client
    PROVE  /\ Top(c) \in Nat /\ Top(c) <= asked[c] /\ asked[c] \in Nat
           /\ InPhase(c, "write") => call[c].id = Top(c) + 1 /\ asked[c] = Top(c) + 1
           /\ ~InPhase(c, "write") => Top(c) = asked[c]
<1>1. asked[c] \in Nat
  BY SlotFacts
<1>2. InPhase(c, "write") => call[c].id = asked[c] /\ call[c].id \in Nat \ {0}
  BY CallFacts DEF Shape
<1> QED BY <1>1, <1>2 DEF Top

\* Numbers after a step of client c: what became of its number and of the one
\* connection that changed, if any.
LEMMA NumbersAt ==
    ASSUME TypeOK, Shape, Numbers, NEW c \in Client, NEW t \in Nat, Top(c)' = t, Top(c) <= t,
           \A d \in Client : d # c => Top(d)' = Top(d),
           \/ UNCHANGED conn
           \/ \E k \in Slot(c) : \E x : Sets(c, k, x) /\ Numbered(x, t)
    PROVE  Numbers'
<1> SUFFICES ASSUME NEW d \in Client, NEW j \in Slot(d) PROVE Numbered(conn'[d][j], Top(d)')
  <2>1. \A d \in Client : \A j \in Slot(d) : Numbered(conn'[d][j], Top(d)')
    OBVIOUS
  <2> QED BY <2>1 DEF Numbers, Numbered
<1>1. Top(c) \in Nat /\ conn[d][j] \in Conns
  BY TopFacts, SlotFacts
<1>2. Numbered(conn[d][j], Top(d)) /\ Numbered(conn[d][j], Top(d)')
  BY <1>1, NumberedTop DEF Numbers
<1>3. CASE UNCHANGED conn
  BY <1>2, <1>3
<1>4. ASSUME NEW k \in Slot(c), NEW x, Sets(c, k, x), Numbered(x, t) PROVE Numbered(conn'[d][j], Top(d)')
  <2>1. CASE d = c /\ j = k
    BY <1>4, <2>1 DEF Sets
  <2>2. CASE d # c \/ j # k
    BY <1>2, <1>4, <2>2 DEF Sets
  <2> QED BY <2>1, <2>2
<1> QED BY <1>3, <1>4

\* Request numbers grow, are unique and were all handed out.
LEMMA NumbersStep == TypeOK /\ Shape /\ Numbers /\ [Next]_vars => Numbers'
<1> SUFFICES ASSUME TypeOK, Shape, Numbers, [Next]_vars PROVE Numbers'
  OBVIOUS
<1>0. now \in Time /\ records \in Snapshot
  BY DEF TypeOK
<1>1. ASSUME UNCHANGED <<call, asked, conn>> PROVE Numbers'
  BY <1>1 DEF Numbers, Top, InPhase
<1>2. ASSUME NEW c \in Client, NEW k \in Slot(c), Server(c, k) PROVE Numbers'
  <2> DEFINE cn == conn[c][k]
  <2>1. cn \in Conns /\ Numbered(cn, Top(c)) /\ Top(c) \in Nat
    BY SlotFacts, TopFacts DEF Numbers
  <2>2. \A d \in Client : Top(d)' = Top(d)
    BY <1>2, ServerCases DEF Top, InPhase, clientVars
  <2>3. cn.srv = "apply" <=> cn.job # NoJob
    BY DEF Shape
  <2>4. \E x : Sets(c, k, x) /\ Numbered(x, Top(c))
    <3>1. CASE Sets(c, k, Closed(cn))
      BY <2>1, <3>1, NumberedClosed
    <3>2. CASE cn.srv = "read" /\ cn.in # <<>> /\ Sets(c, k, Taken(cn))
      BY <1>0, <2>1, <2>3, <3>2, NumberedTaken
    <3>3. CASE cn.job \in Requests /\ Sets(c, k, Answered(cn))
      BY <1>0, <2>1, <3>3, NumberedAnswered
    <3> QED BY <1>2, <3>1, <3>2, <3>3, ServerCases
  <2> QED BY <2>1, <2>2, <2>4, NumbersAt
<1>3. ASSUME NEW c \in Client, NEW u \in Uses[c], StartCall(c, u[1], u[2]) PROVE Numbers'
  <2>1. call[c] = Idle /\ asked[c] \in Nat /\ Top(c) = asked[c]
    BY <1>3, StartCases, TopFacts, CallFacts
  <2>2. asked'[c] = asked[c] + 1 /\ \A d \in Client : d # c => asked'[d] = asked[d]
    BY <1>3, StartCases DEF Shape
  <2>3. ASSUME Begun(c, u[1], u[2])
        PROVE  call'[c].phase = "write" /\ \A d \in Client : d # c => call'[d] = call[d]
    BY <2>3 DEF Begun, TypeOK
  <2>4. (\A d \in Client : d # c => Top(d)' = Top(d)) /\ (Begun(c, u[1], u[2]) => Top(c)' = asked[c])
    <3>1. Begun(c, u[1], u[2]) \/ UNCHANGED call
      BY <1>3, StartCases
    <3> QED BY <2>1, <2>2, <2>3, <3>1 DEF Top, InPhase
  <2>5. UNCHANGED call => Top(c)' = asked[c] + 1
    BY <2>1, <2>2, CallFacts DEF Top, InPhase
  <2>6. Numbered(Opened, asked[c])
    BY UnusedFacts, NumberedQuiet
  <2>7. CASE Begun(c, u[1], u[2]) /\ UNCHANGED conn
    BY <2>1, <2>4, <2>7, NumbersAt
  <2>8. CASE Begun(c, u[1], u[2]) /\ opened[c] + 1 \in Slot(c) /\ Sets(c, opened[c] + 1, Opened)
    BY <2>1, <2>4, <2>6, <2>8, NumbersAt
  <2>9. CASE UNCHANGED <<call, conn>>
    BY <2>1, <2>4, <2>5, <2>9, NumbersAt
  <2> QED BY <1>3, <2>7, <2>8, <2>9, StartCases
<1>4. ASSUME NEW c \in Client, Write(c) \/ DropCall(c) \/ Fails(c) \/ Return(c) PROVE Numbers'
  <2>1. call[c] # Idle /\ stream[c] \in Slot(c) /\ Current(c) \in Conns /\ Numbered(Current(c), Top(c))
    BY <1>4, CallHasStream, SlotFacts, CallFacts, WriteCases, DropCases, FailsCases, ReturnCases DEF Ended, Current, Numbers
  <2>2. UNCHANGED asked /\ call'[c].phase # "write" /\ \A d \in Client : d # c => call'[d] = call[d]
    <3>1. Idle.phase # "write"
      BY DEF Idle
    <3>2. call' = [call EXCEPT ![c] = Idle] => call'[c].phase # "write" /\ \A d \in Client : d # c => call'[d] = call[d]
      BY <3>1 DEF TypeOK
    <3>3. ASSUME call' = [call EXCEPT ![c].phase = "read"] PROVE call'[c].phase # "write" /\ \A d \in Client : d # c => call'[d] = call[d]
      <4>1. call[c] \in Call
        BY <2>1, CallFacts
      <4>2. call'[c] = [call[c] EXCEPT !.phase = "read"] /\ \A d \in Client : d # c => call'[d] = call[d]
        BY <3>3 DEF TypeOK
      <4> QED BY <4>1, <4>2 DEF Call
    <3> QED BY <1>4, <3>2, <3>3, WriteCases, DropCases, FailsCases, ReturnCases DEF Ended
  <2>3. Top(c)' = asked[c] /\ \A d \in Client : d # c => Top(d)' = Top(d)
    BY <2>2 DEF Top, InPhase
  <2>4. Top(c) \in Nat /\ asked[c] \in Nat /\ Top(c) <= asked[c]
    BY TopFacts
  <2>5. Numbered(Current(c), asked[c])
    BY <2>1, <2>4, NumberedTop
  <2>6. Numbered(Abandoned(Current(c)), asked[c]) /\ (Current(c).out # <<>> => Numbered(Consumed(Current(c)), asked[c]))
    BY <2>1, <2>5, NumberedAbandoned, NumberedConsumed
  <2>7. ASSUME NEW op \in Op \cup {"torn"}, InPhase(c, "write") PROVE Numbered(Sent(Current(c), Frame(c, op)), asked[c])
    <3>1. Frame(c, op) \in Requests /\ Frame(c, op).id = Top(c) + 1 /\ asked[c] = Top(c) + 1
      BY <2>1, <2>7, FrameFacts, TopFacts
    <3> QED BY <2>1, <2>4, <3>1, NumberedSent
  <2>8. UNCHANGED conn \/ \E x : Sets(c, stream[c], x) /\ Numbered(x, asked[c])
    <3>1. CASE Fails(c)
      BY <2>6, <3>1, FailsCases DEF Dropped
    <3>2. CASE DropCall(c)
      BY <2>6, <2>7, <3>2, DropCases DEF Dropped
    <3>3. CASE Write(c)
      <4>1. call[c].op \in Op /\ InPhase(c, "write")
        BY <2>1, <3>3, CallFacts DEF Write
      <4> QED BY <2>7, <3>3, <4>1, WriteCases
    <3>4. CASE Return(c)
      BY <2>6, <3>4, ReturnCases DEF Dropped
    <3> QED BY <1>4, <3>1, <3>2, <3>3, <3>4
  <2> QED BY <2>1, <2>3, <2>4, <2>8, NumbersAt
<1>5. Tick \/ EvictStart \/ EvictApply \/ (\E i \in Instance : Deregister(i)) \/ UNCHANGED vars => UNCHANGED <<call, asked, conn>>
  BY DEF Tick, EvictStart, EvictApply, Deregister, clientVars, vars
<1> QED BY <1>1, <1>2, <1>3, <1>4, <1>5, NextCases

-----------------------------------------------------------------------------
(* The exchange between a client and its handler                           *)

\* Nothing of client d changes.
Same(d) ==
  /\ call'[d] = call[d] /\ stream'[d] = stream[d] /\ dropped'[d] = dropped[d]
  /\ \A j \in Slot(d) : conn'[d][j] = conn[d][j]

LEMMA SetsSame ==
    ASSUME NEW c \in Client, NEW k, NEW x, Sets(c, k, x), NEW d \in Client, d # c
    PROVE  \A j \in Slot(d) : conn'[d][j] = conn[d][j]
BY DEF Sets

LEMMA OthersSame ==
    ASSUME TypeOK, Shape, NEW c \in Client, NEW d \in Client, d # c,
           \/ \E u \in Uses[c] : StartCall(c, u[1], u[2])
           \/ DropCall(c) \/ Fails(c) \/ Write(c) \/ Return(c)
           \/ \E k \in Slot(c) : Server(c, k)
    PROVE  Same(d)
<1>1. call \in [Client -> Call \cup {Idle}] /\ stream \in [Client -> Nat] /\ dropped \in [Client -> BOOLEAN]
  BY DEF TypeOK, Shape
<1>2. ASSUME NEW u \in Uses[c], StartCall(c, u[1], u[2]) PROVE Same(d)
  BY <1>1, <1>2, StartCases, SetsSame DEF Same, Begun
<1>3. CASE DropCall(c)
  BY <1>1, <1>3, DropCases, SetsSame DEF Same, Ended, Dropped
<1>4. CASE Fails(c)
  BY <1>1, <1>4, FailsCases, SetsSame DEF Same, Ended, Dropped
<1>5. CASE Write(c)
  BY <1>1, <1>5, WriteCases, SetsSame DEF Same
<1>6. CASE Return(c)
  BY <1>1, <1>6, ReturnCases, SetsSame DEF Same, Ended, Dropped
<1>7. ASSUME NEW k \in Slot(c), Server(c, k) PROVE Same(d)
  BY <1>1, <1>7, ServerCases, SetsSame DEF Same, clientVars
<1> QED BY <1>2, <1>3, <1>4, <1>5, <1>6, <1>7

\* A step that belongs to no client.
Background == Tick \/ EvictStart \/ EvictApply \/ (\E i \in Instance : Deregister(i)) \/ UNCHANGED vars

LEMMA BackgroundSame ==
    ASSUME Background
    PROVE  UNCHANGED <<call, stream, dropped, conn, opened, asked, granted>> /\ \A d \in Client : Same(d)
BY DEF Background, Tick, EvictStart, EvictApply, Deregister, clientVars, vars, Same

\* The new call, seen from the client.
LEMMA BegunFacts ==
    ASSUME TypeOK, NEW c \in Client, NEW op, NEW i, Begun(c, op, i)
    PROVE  /\ call'[c].id = asked[c] + 1 /\ call'[c].at = now /\ call'[c].phase = "write"
           /\ call'[c].op = op /\ call'[c].inst = i /\ call'[c] # Idle
<1>1. call'[c] = [op |-> op, inst |-> i, id |-> asked[c] + 1, at |-> now, phase |-> "write"]
  BY DEF Begun, TypeOK
<1>2. Idle.phase = "idle"
  BY DEF Idle
<1> QED BY <1>1, <1>2

\* A written call differs from the call in its phase only.
LEMMA WrittenFacts ==
    ASSUME TypeOK, Shape, NEW c \in Client, Write(c)
    PROVE  /\ call'[c].id = call[c].id /\ call'[c].at = call[c].at /\ call'[c].op = call[c].op
           /\ call'[c].inst = call[c].inst /\ call'[c].phase = "read" /\ call[c].phase = "write"
           /\ call[c] # Idle
<1>1. call[c] \in Call /\ call[c] # Idle
  BY CallHasStream, CallFacts, WriteCases
<1>2. call'[c] = [call[c] EXCEPT !.phase = "read"]
  BY WriteCases DEF TypeOK
<1>3. call[c].phase = "write"
  BY DEF Write, InPhase
<1> QED BY <1>1, <1>2, <1>3 DEF Call

LEMMA EndedFacts ==
    ASSUME TypeOK, NEW c \in Client, Ended(c)
    PROVE  call'[c] = Idle /\ call'[c].phase = "idle"
BY DEF Ended, TypeOK, Idle

\* A handler reads the clock for a request after the call was made.
LEMMA TimelyStep == TypeOK /\ Shape /\ Numbers /\ Timely /\ [Next]_vars => Timely'
<1> SUFFICES ASSUME TypeOK, Shape, Numbers, Timely, [Next]_vars PROVE Timely'
  OBVIOUS
<1>1. ASSUME NEW d \in Client, Same(d) PROVE TimelyOf(d)'
  BY <1>1 DEF Timely, TimelyOf, Same
<1>2. ASSUME NEW c \in Client, NEW u \in Uses[c], StartCall(c, u[1], u[2]) PROVE TimelyOf(c)'
  <2>1. CASE UNCHANGED <<call, conn>>
    BY <2>1 DEF Timely, TimelyOf
  <2>2. ASSUME Begun(c, u[1], u[2]), NEW k \in Slot(c), conn'[c][k].job # NoJob PROVE conn'[c][k].job.id # call'[c].id
    <3>1. conn'[c][k] = conn[c][k]
      <4>1. Opened.job = NoJob
        BY UnusedFacts
      <4>2. CASE Sets(c, opened[c] + 1, Opened)
        BY <2>2, <4>1, <4>2 DEF Sets
      <4> QED BY <1>2, <4>2, StartCases
    <3>2. Numbered(conn[c][k], Top(c)) /\ conn[c][k] \in Conns /\ Top(c) \in Nat /\ asked[c] \in Nat /\ Top(c) <= asked[c]
      BY SlotFacts, TopFacts DEF Numbers
    <3>3. conn[c][k].job.id \in Nat /\ conn[c][k].job.id <= Top(c)
      BY <2>2, <3>1, <3>2, HeldFacts DEF Numbered
    <3> QED BY <2>2, <3>1, <3>2, <3>3, BegunFacts
  <2>3. CASE Begun(c, u[1], u[2])
    BY <2>2, <2>3 DEF TimelyOf
  <2> QED BY <1>2, <2>1, <2>3, StartCases
<1>3. ASSUME NEW c \in Client, DropCall(c) \/ Fails(c) \/ Return(c) PROVE TimelyOf(c)'
  BY <1>3, DropCases, FailsCases, ReturnCases, EndedFacts DEF TimelyOf
<1>4. ASSUME NEW c \in Client, Write(c) PROVE TimelyOf(c)'
  <2>1. stream[c] \in Slot(c) /\ Current(c) \in Conns /\ Frame(c, call[c].op) \in Requests
    BY <1>4, WriteCases, SlotFacts, CallFacts, FrameFacts DEF Current
  <2>2. ASSUME NEW k \in Slot(c) PROVE conn'[c][k].job = conn[c][k].job /\ conn'[c][k].stamp = conn[c][k].stamp
    <3>1. PICK x : x = Sent(Current(c), Frame(c, call[c].op))
      OBVIOUS
    <3>2. x.job = Current(c).job /\ x.stamp = Current(c).stamp
      BY <2>1, <3>1, SentFacts
    <3>3. Sets(c, stream[c], x)
      BY <1>4, <3>1, WriteCases
    <3> QED BY <3>2, <3>3 DEF Sets, Current
  <2> QED BY <1>4, <2>2, WrittenFacts DEF Timely, TimelyOf
<1>5. ASSUME NEW c \in Client, NEW k \in Slot(c), Server(c, k) PROVE TimelyOf(c)'
  <2> DEFINE cn == conn[c][k]
  <2>1. cn \in Conns /\ now \in Time /\ records \in Snapshot /\ UNCHANGED call
    BY <1>5, SlotFacts, ServerCases DEF TypeOK, clientVars
  <2>2. PICK x : Sets(c, k, x) /\ (x.job = NoJob \/ x.stamp = now)
    <3>1. CASE Sets(c, k, Closed(cn))
      BY <2>1, <3>1, ClosedFacts
    <3>2. CASE cn.in # <<>> /\ Sets(c, k, Taken(cn))
      BY <2>1, <3>2, TakenFacts
    <3>3. CASE cn.job \in Requests /\ Sets(c, k, Answered(cn))
      BY <2>1, <3>3, AnsweredFacts
    <3> QED BY <1>5, <3>1, <3>2, <3>3, ServerCases
  <2>3. call[c] # Idle => now >= call[c].at
    BY <2>1, CallFacts, ConstantFacts DEF Shape
  <2>4. ASSUME NEW j \in Slot(c) PROVE conn'[c][j] = conn[c][j] \/ conn'[c][j].job = NoJob \/ conn'[c][j].stamp = now
    BY <2>2 DEF Sets
  <2> QED BY <2>1, <2>3, <2>4 DEF Timely, TimelyOf
<1>6. Background => Timely'
  BY <1>1, BackgroundSame DEF Timely
<1> QED BY <1>1, <1>2, <1>3, <1>4, <1>5, <1>6, OthersSame, NextCases DEF Timely, Background

LEMMA Single ==
    ASSUME NEW x
    PROVE  Head(<<x>>) = x /\ Tail(<<x>>) = <<>> /\ <<x>> # <<>> /\ Append(<<>>, x) = <<x>>
OBVIOUS

\* What the handler makes of a call's exchange.
LEMMA ExchangeServer ==
    ASSUME TypeOK, Shape, Timely, NEW c \in Client, ExchangeOf(c), NEW k \in Slot(c), Server(c, k)
    PROVE  ExchangeOf(c)'
<1> SUFFICES ASSUME stream[c] # 0, ~dropped[c], k = stream[c] PROVE (Quiet(Current(c)) \/ (InPhase(c, "read") /\ Awaited(c, Current(c))))'
  <2>1. UNCHANGED <<call, stream, dropped>>
    BY ServerCases DEF clientVars
  <2>2. k # stream[c] /\ stream[c] # 0 => Current(c)' = Current(c)
    <3>1. stream[c] # 0 => stream[c] \in Slot(c)
      BY SlotFacts
    <3>2. k # stream[c] /\ stream[c] # 0 => conn'[c][stream[c]] = conn[c][stream[c]]
      BY <3>1, ServerCases DEF Sets
    <3> QED BY <2>1, <3>2 DEF Current
  <2>3. k # stream[c] /\ stream[c] # 0 => (Awaited(c, Current(c))' <=> Awaited(c, Current(c))) /\ (InPhase(c, "read")' <=> InPhase(c, "read"))
    BY <2>1, <2>2 DEF Awaited, Answers, Frame, InPhase
  <2>4. k # stream[c] /\ stream[c] # 0 => (Quiet(Current(c))' <=> Quiet(Current(c)))
    BY <2>2 DEF Quiet
  <2> QED BY <2>1, <2>3, <2>4 DEF ExchangeOf
<1> DEFINE cn == conn[c][k]
           F == Frame(c, call[c].op)
<1>1. /\ cn \in Conns /\ now \in Time /\ records \in Snapshot /\ UNCHANGED <<call, stream>>
      /\ (cn.srv = "apply" <=> cn.job # NoJob)
  BY SlotFacts, ServerCases DEF TypeOK, Shape, clientVars
<1>2. Current(c) = cn /\ Current(c)' = conn'[c][k]
  BY <1>1 DEF Current
<1>3. Quiet(cn) \/ (InPhase(c, "read") /\ Awaited(c, cn))
  BY <1>2 DEF ExchangeOf
<1>4. InPhase(c, "read") => F \in Requests /\ F.id = call[c].id
  BY CallFacts, FrameFacts
<1>5. SUFFICES Quiet(conn'[c][k]) \/ (InPhase(c, "read") /\ Awaited(c, conn'[c][k]))
  <2>1. (Quiet(Current(c)))' <=> Quiet(conn'[c][k])
    BY <1>2 DEF Quiet
  <2>2. InPhase(c, "read")' <=> InPhase(c, "read")
    BY <1>1 DEF InPhase
  <2>3. (Awaited(c, Current(c)))' <=> Awaited(c, conn'[c][k])
    BY <1>1, <1>2 DEF Awaited, Answers, Frame
  <2> QED BY <1>5, <2>1, <2>2, <2>3
<1>6. CASE Sets(c, k, Closed(cn))
  <2>1. conn'[c][k].in = <<>> /\ conn'[c][k].job = NoJob /\ conn'[c][k].out = cn.out
    BY <1>1, <1>6, ClosedFacts DEF Sets
  <2> QED BY <1>3, <2>1 DEF Quiet, Awaited
<1>7. CASE cn.srv = "read" /\ cn.in # <<>> /\ Sets(c, k, Taken(cn))
  <2>1. conn'[c][k].in = Tail(cn.in) /\ conn'[c][k].job = Head(cn.in) /\ conn'[c][k].out = cn.out
    BY <1>1, <1>7, TakenFacts DEF Sets
  <2>2. InPhase(c, "read") /\ cn.out = <<>> /\ cn.in = <<F>>
    BY <1>1, <1>3, <1>7 DEF Quiet, Awaited
  <2>3. Head(cn.in) = F /\ Tail(cn.in) = <<>>
    BY <2>2, Single, Zenon
  <2> QED BY <2>1, <2>2, <2>3 DEF Awaited
<1>8. CASE cn.srv = "apply" /\ cn.job \in Requests /\ Sets(c, k, Answered(cn))
  <2>1. conn'[c][k].in = cn.in /\ conn'[c][k].job = NoJob /\ conn'[c][k].out = (IF cn.open THEN Append(cn.out, Answer(cn)) ELSE cn.out)
    BY <1>1, <1>8, AnsweredFacts DEF Sets
  <2>2. InPhase(c, "read") /\ cn.out = <<>> /\ cn.in = <<>> /\ cn.job = F
    BY <1>1, <1>3, <1>8, JobFacts DEF Quiet, Awaited
  <2>3. CASE ~cn.open
    BY <2>1, <2>2, <2>3 DEF Quiet
  <2>4. CASE cn.open
    <3>1. PICK a \in Replies : a = Answer(cn)
      BY <1>1, <1>8, AnswerFacts
    <3>2. conn'[c][k].out = <<a>>
      BY <2>1, <2>2, <2>4, <3>1, Single
    <3>3. Len(<<a>>) = 1 /\ <<a>>[1] = a
      OBVIOUS
    <3>4. a.id = call[c].id /\ \A i \in DOMAIN a.recs : ~Expired(a.recs[i], cn.stamp)
      BY <1>1, <1>4, <1>8, <2>2, <3>1, AnswerFacts
    <3>5. cn.stamp \in Nat /\ call[c].at \in Nat /\ cn.stamp >= call[c].at
      <4>1. call[c] # Idle /\ call[c].at \in Nat
        BY <2>2, CallFacts
      <4>2. cn.job # NoJob /\ cn.job.id = call[c].id
        BY <1>4, <1>8, <2>2, JobFacts
      <4>3. cn.stamp \in Nat
        BY <1>1, ConnFacts, ConstantFacts
      <4> QED BY <4>1, <4>2, <4>3 DEF Timely, TimelyOf
    <3>6. \A i \in DOMAIN a.recs : a.recs[i] \in Nat
      <4>1. PICK S \in SUBSET Instance : a.recs \in [S -> Time]
        BY DEF Replies, Snapshot
      <4> QED BY <4>1, ConstantFacts
    <3>7. \A i \in DOMAIN a.recs : ~Expired(a.recs[i], call[c].at)
      BY <3>4, <3>5, <3>6, ConstantFacts DEF Expired
    <3> QED BY <2>1, <2>2, <3>2, <3>3, <3>4, <3>7 DEF Awaited, Answers
  <2> QED BY <2>3, <2>4
<1> QED BY <1>6, <1>7, <1>8, ServerCases

\* A stream on which nothing was dropped owes at most the reply awaited.
LEMMA ExchangeStep == TypeOK /\ Shape /\ Timely /\ Exchange /\ [Next]_vars => Exchange'
<1> SUFFICES ASSUME TypeOK, Shape, Timely, Exchange, [Next]_vars PROVE Exchange'
  OBVIOUS
<1>1. ASSUME NEW d \in Client, Same(d) PROVE ExchangeOf(d)'
  <2>1. stream[d] # 0 => Current(d)' = Current(d)
    BY <1>1, SlotFacts DEF Same, Current
  <2>2. InPhase(d, "read")' <=> InPhase(d, "read")
    BY <1>1 DEF InPhase, Same
  <2>3. stream[d] # 0 => (Awaited(d, Current(d))' <=> Awaited(d, Current(d))) /\ (Quiet(Current(d))' <=> Quiet(Current(d)))
    BY <1>1, <2>1 DEF Awaited, Answers, Frame, Quiet, Same
  <2> QED BY <1>1, <2>2, <2>3 DEF Exchange, ExchangeOf, Same
<1>2. ASSUME NEW c \in Client, NEW u \in Uses[c], StartCall(c, u[1], u[2]) PROVE ExchangeOf(c)'
  <2>1. ~InPhase(c, "read")
    BY <1>2, StartCases, CallFacts
  <2>2. CASE stream[c] # 0 /\ UNCHANGED <<stream, conn, dropped>>
    BY <2>1, <2>2 DEF Exchange, ExchangeOf, Quiet, Current
  <2>3. CASE Sets(c, opened[c] + 1, Opened) /\ stream' = [stream EXCEPT ![c] = opened[c] + 1]
    <3>1. conn'[c][stream'[c]] = Opened
      BY <2>3 DEF Sets, Shape
    <3> QED BY <3>1, UnusedFacts DEF ExchangeOf, Quiet, Current
  <2>4. CASE stream[c] = 0 /\ UNCHANGED stream
    BY <2>4 DEF ExchangeOf
  <2> QED BY <1>2, <2>2, <2>3, <2>4, StartCases
<1>3. ASSUME NEW c \in Client, Dropped(c) PROVE ExchangeOf(c)'
  BY <1>3 DEF Dropped, ExchangeOf, Shape
<1>4. ASSUME NEW c \in Client, DropCall(c) PROVE ExchangeOf(c)'
  BY <1>4, DropCases DEF ExchangeOf, TypeOK
<1>5. ASSUME NEW c \in Client, Return(c) PROVE ExchangeOf(c)'
  <2>1. CASE Sets(c, stream[c], Consumed(Current(c))) /\ UNCHANGED stream /\ ~dropped[c]
    <3>1. stream[c] # 0 /\ Current(c) \in Conns /\ Current(c).out # <<>>
      BY <1>5, ReturnCases, SlotFacts DEF Ended, Current
    <3>2. Current(c).job = NoJob /\ Current(c).in = <<>> /\ Len(Current(c).out) = 1
      BY <2>1, <3>1 DEF Exchange, ExchangeOf, Quiet, Awaited
    <3>3. Tail(Current(c).out) = <<>>
      <4>1. Tail(Current(c).out) \in Seq(Replies) /\ Len(Tail(Current(c).out)) = 0
        BY <3>1, <3>2, Pop, ConnFacts
      <4> QED BY <4>1, EmptySeq
    <3>4. Current(c)' = Consumed(Current(c))
      BY <2>1 DEF Sets, Current
    <3>5. PICK x : x = Consumed(Current(c))
      OBVIOUS
    <3>6. x.job = NoJob /\ x.in = <<>> /\ x.out = <<>>
      BY <3>1, <3>2, <3>3, <3>5, ConsumedFacts
    <3> QED BY <3>4, <3>5, <3>6 DEF ExchangeOf, Quiet
  <2>2. UNCHANGED dropped
    BY <1>5, ReturnCases
  <2>3. CASE dropped[c]
    BY <2>2, <2>3 DEF ExchangeOf
  <2> QED BY <1>3, <1>5, <2>1, <2>3, ReturnCases
<1>6. ASSUME NEW c \in Client, Write(c) PROVE ExchangeOf(c)'
  <2>1. /\ stream[c] # 0 /\ Current(c) \in Conns /\ Frame(c, call[c].op) \in Requests
        /\ UNCHANGED <<stream, dropped>> /\ ~InPhase(c, "read")
    BY <1>6, WriteCases, SlotFacts, CallFacts, FrameFacts, WrittenFacts DEF Current, InPhase
  <2>2. CASE ~dropped[c]
    <3>1. Quiet(Current(c))
      BY <2>1, <2>2 DEF Exchange, ExchangeOf
    <3>2. PICK x : x = Sent(Current(c), Frame(c, call[c].op))
      OBVIOUS
    <3>3. x.job = NoJob /\ x.out = <<>> /\ x.in = Append(Current(c).in, Frame(c, call[c].op))
      BY <2>1, <3>1, <3>2, SentFacts DEF Quiet
    <3>4. x.in = <<Frame(c, call[c].op)>>
      BY <3>1, <3>3, Single DEF Quiet
    <3>5. Current(c)' = x
      BY <1>6, <2>1, <3>2, WriteCases DEF Sets, Current
    <3>6. Frame(c, call[c].op)' = Frame(c, call[c].op)
      BY <1>6, WrittenFacts DEF Frame
    <3>7. InPhase(c, "read")'
      BY <1>6, WrittenFacts DEF InPhase
    <3>8. Awaited(c, Current(c))'
      BY <3>3, <3>4, <3>5, <3>6 DEF Awaited
    <3> QED BY <3>7, <3>8 DEF ExchangeOf
  <2> QED BY <2>1, <2>2 DEF ExchangeOf
<1>7. ASSUME NEW c \in Client, NEW k \in Slot(c), Server(c, k) PROVE ExchangeOf(c)'
  BY <1>7, ExchangeServer DEF Exchange
<1>8. ASSUME NEW c \in Client, Fails(c) PROVE ExchangeOf(c)'
  BY <1>3, <1>8, FailsCases
<1>9. Background => Exchange'
  BY <1>1, BackgroundSame DEF Exchange
<1> QED BY <1>1, <1>2, <1>4, <1>5, <1>6, <1>7, <1>8, <1>9, OthersSame, NextCases DEF Exchange, Background

-----------------------------------------------------------------------------
(* Whose reply a client reads, and how old a list it applies                *)

Ids(q) == [n \in DOMAIN q |-> q[n].id]

LEMMA IdsFacts ==
    ASSUME NEW S, \A r \in S : r.id \in Nat, NEW q \in Seq(S)
    PROVE  /\ Ids(q) \in Seq(Nat) /\ Len(Ids(q)) = Len(q)
           /\ \A n \in DOMAIN q : Ids(q)[n] = q[n].id
           /\ q = <<>> => Ids(q) = <<>>
           /\ Len(q) = 1 => Ids(q) = <<q[1].id>>
<1>1. Len(q) \in Nat /\ DOMAIN q = 1 .. Len(q) /\ \A n \in DOMAIN q : q[n] \in S
  BY LenProperties
<1>2. Ids(q) \in [1 .. Len(q) -> Nat] /\ DOMAIN Ids(q) = 1 .. Len(q) /\ \A n \in DOMAIN q : Ids(q)[n] = q[n].id
  BY <1>1 DEF Ids
<1>3. Ids(q) \in Seq(Nat)
  <2>1. Seq(Nat) = UNION {[1 .. n -> Nat] : n \in Nat}
    BY SeqDef
  <2>2. \E n \in Nat : Ids(q) \in [1 .. n -> Nat]
    BY <1>1, <1>2
  <2> QED BY <2>1, <2>2
<1>4. Len(Ids(q)) = Len(q)
  <2>1. Len(Ids(q)) \in Nat /\ DOMAIN Ids(q) = 1 .. Len(Ids(q))
    BY <1>3, LenProperties
  <2> QED BY <1>1, <1>2, <2>1
<1>5. q = <<>> => Ids(q) = <<>>
  <2>1. q = <<>> => Len(Ids(q)) = 0
    BY <1>4, EmptySeq
  <2> QED BY <1>3, <2>1, EmptySeq
<1>6. Len(q) = 1 => Ids(q) = <<q[1].id>>
  <2>1. Len(q) = 1 => 1 \in DOMAIN q /\ q[1].id \in Nat /\ Ids(q)[1] = q[1].id
    BY <1>1, <1>2
  <2>2. ASSUME NEW x \in Nat PROVE <<x>> \in Seq(Nat) /\ Len(<<x>>) = 1 /\ <<x>>[1] = x
    OBVIOUS
  <2>3. ASSUME Len(q) = 1 PROVE Ids(q) = <<q[1].id>>
    <3>1. PICK t \in Seq(Nat) : t = <<q[1].id>> /\ Len(t) = 1 /\ t[1] = q[1].id
      BY <2>1, <2>2, <2>3
    <3>2. \A n \in 1 .. Len(Ids(q)) : Ids(q)[n] = t[n]
      BY <1>4, <2>1, <2>3, <3>1
    <3> QED BY <1>3, <1>4, <2>3, <3>1, <3>2, SeqEqual
  <2> QED BY <2>3
<1> QED BY <1>2, <1>3, <1>4, <1>5, <1>6

\* That is OwnReply.
LEMMA ExchangeOwn == TypeOK /\ Exchange => OwnReply
<1> SUFFICES ASSUME TypeOK, Exchange, NEW c \in Client, stream[c] # 0, ~dropped[c],
                    Owed(conn[c][stream[c]]) # <<>>
             PROVE  InPhase(c, "read") /\ Owed(conn[c][stream[c]]) = <<call[c].id>>
  BY DEF OwnReply
<1>1. PICK cn \in Conns : cn = conn[c][stream[c]]
  BY SlotFacts
<1>2. Owed(cn) = Ids(cn.out) \o Pick(cn) \o Ids(cn.in)
  BY DEF Owed, Ids
<1>3. cn.in \in Seq(Requests) /\ cn.out \in Seq(Replies)
  BY ConnFacts
<1>4. (\A r \in Requests : r.id \in Nat) /\ \A r \in Replies : r.id \in Nat
  BY DEF Requests, Replies
<1>5. Quiet(cn) \/ (InPhase(c, "read") /\ Awaited(c, cn))
  BY <1>1 DEF Exchange, ExchangeOf, Current
<1>6. cn.out = <<>> => Ids(cn.out) = <<>>
  BY <1>3, <1>4, IdsFacts
<1>7. cn.in = <<>> => Ids(cn.in) = <<>>
  BY <1>3, <1>4, IdsFacts
<1>8. cn.job = NoJob => Pick(cn) = <<>>
  BY DEF Pick
<1>9. <<>> \o <<>> \o <<>> = <<>>
  OBVIOUS
<1>10. ~Quiet(cn)
  BY <1>1, <1>2, <1>6, <1>7, <1>8, <1>9 DEF Quiet
<1>11. call[c].id \in Nat /\ Frame(c, call[c].op) \in Requests /\ Frame(c, call[c].op).id = call[c].id
  BY <1>5, <1>10, CallFacts, FrameFacts
<1>12. \A x \in Nat : <<x>> \o <<>> \o <<>> = <<x>> /\ <<>> \o <<x>> \o <<>> = <<x>> /\ <<>> \o <<>> \o <<x>> = <<x>>
  OBVIOUS
<1>13. CASE cn.out = <<>> /\ cn.job = NoJob /\ cn.in = <<Frame(c, call[c].op)>>
  <2>1. \A x : Len(<<x>>) = 1 /\ <<x>>[1] = x
    OBVIOUS
  <2>2. Len(cn.in) = 1 /\ cn.in[1] = Frame(c, call[c].op)
    BY <1>13, <2>1
  <2>3. Ids(cn.in) = <<call[c].id>>
    BY <1>3, <1>4, <1>11, <2>2, IdsFacts
  <2> QED BY <1>1, <1>2, <1>5, <1>6, <1>8, <1>10, <1>11, <1>12, <1>13, <2>3
<1>14. CASE cn.out = <<>> /\ cn.job = Frame(c, call[c].op) /\ cn.in = <<>>
  <2>1. Pick(cn) = <<call[c].id>>
    BY <1>11, <1>14, JobFacts DEF Pick
  <2> QED BY <1>1, <1>2, <1>5, <1>6, <1>7, <1>10, <1>11, <1>12, <1>14, <2>1
<1>15. CASE cn.job = NoJob /\ cn.in = <<>> /\ Len(cn.out) = 1 /\ Answers(c, cn.out[1])
  <2>1. Ids(cn.out) = <<call[c].id>>
    BY <1>3, <1>4, <1>15, IdsFacts DEF Answers
  <2> QED BY <1>1, <1>2, <1>5, <1>7, <1>8, <1>10, <1>11, <1>12, <1>15, <2>1
<1> QED BY <1>5, <1>10, <1>13, <1>14, <1>15 DEF Awaited

\* A reply awaited was computed after its call, so its list is current.
LEMMA ExchangeList == TypeOK /\ Shape /\ Exchange => ListIsCurrent
<1> SUFFICES ASSUME TypeOK, Shape, Exchange, NEW c \in Client, InPhase(c, "read"), ~dropped[c],
                    conn[c][stream[c]].out # <<>>
             PROVE  \A i \in DOMAIN Head(conn[c][stream[c]].out).recs :
                      ~Expired(Head(conn[c][stream[c]].out).recs[i], call[c].at)
  BY DEF ListIsCurrent
<1>1. stream[c] # 0 /\ Current(c) \in Conns
  BY CallFacts, SlotFacts DEF Shape, Current
<1>2. Answers(c, Current(c).out[1])
  BY <1>1 DEF Exchange, ExchangeOf, Quiet, Awaited, Current
<1>3. Head(Current(c).out) = Current(c).out[1]
  BY <1>1, ConnFacts, Pop DEF Current
<1> QED BY <1>2, <1>3 DEF Answers, Current

ExchangeInv == TypeOK /\ Shape /\ Numbers /\ Timely /\ Exchange

LEMMA ExchangeInit == Init => ExchangeInv
<1> SUFFICES ASSUME Init PROVE ExchangeInv
  OBVIOUS
<1>1. TypeOK /\ Shape
  BY TypeInit
<1>2. \A c \in Client : \A k \in Slot(c) : conn[c][k] = Unused
  BY DEF Init
<1>3. Quiet(Unused)
  BY DEF Unused, Quiet
<1>4. Numbers
  BY <1>2, <1>3, NumberedQuiet DEF Numbers
<1>5. Timely
  BY DEF Init, Timely, TimelyOf
<1>6. Exchange
  BY DEF Init, Exchange, ExchangeOf
<1> QED BY <1>1, <1>4, <1>5, <1>6 DEF ExchangeInv

LEMMA ExchangeHolds == Spec => []ExchangeInv
<1>1. ExchangeInv /\ [Next]_vars => ExchangeInv'
  BY TypeStep, NumbersStep, TimelyStep, ExchangeStep DEF ExchangeInv
<1> QED BY <1>1, ExchangeInit, PTL DEF Spec

\* A client that dropped no request on its stream reads its own reply: the
\* stream owes it at most the one it waits for, since every failure of
\* request() invalidates the stream (src/mesh.rs).
THEOREM RepliesAreOwn == Spec => []OwnReply
<1>1. ExchangeInv => OwnReply
  BY ExchangeOwn DEF ExchangeInv
<1> QED BY <1>1, ExchangeHolds, PTL

\* The list such a client applies to its mesh holds no instance whose lease
\* had ended when the sync began, however long the handler waited for the
\* lock after it read the clock (MeshRegistry::list).
THEOREM ListsAreCurrent == Spec => []ListIsCurrent
<1>1. ExchangeInv => ListIsCurrent
  BY ExchangeList DEF ExchangeInv
<1> QED BY <1>1, ExchangeHolds, PTL

-----------------------------------------------------------------------------
(* Which request is executed, and when                                     *)

\* The requests held after a step of the handler were held before.
LEMMA ServerHeld ==
    ASSUME TypeOK, Shape, NEW c \in Client, NEW k \in Slot(c), Server(c, k), NEW j \in Slot(c)
    PROVE  Held(conn'[c][j]) \subseteq Held(conn[c][j])
<1> DEFINE cn == conn[c][k]
<1>1. cn \in Conns /\ now \in Time /\ records \in Snapshot /\ (cn.srv = "apply" <=> cn.job # NoJob)
  BY SlotFacts DEF TypeOK, Shape
<1>2. PICK x : Sets(c, k, x) /\ Held(x) \subseteq Held(cn)
  <2>1. CASE Sets(c, k, Closed(cn))
    BY <1>1, <2>1, HeldClosed
  <2>2. CASE cn.srv = "read" /\ cn.in # <<>> /\ Sets(c, k, Taken(cn))
    BY <1>1, <2>2, HeldTaken
  <2>3. CASE cn.job \in Requests /\ Sets(c, k, Answered(cn))
    <3>1. PICK x : x = Answered(cn)
      OBVIOUS
    <3>2. x.in = cn.in /\ x.job = NoJob
      BY <1>1, <2>3, <3>1, AnsweredFacts
    <3>3. Held(x) \subseteq Held(cn)
      BY <3>2 DEF Held
    <3> QED BY <2>3, <3>1, <3>3
  <2> QED BY <2>1, <2>2, <2>3, ServerCases
<1> QED BY <1>2 DEF Sets

\* Those held after a step of the client, too, but for the one it writes.
LEMMA ClientHeld ==
    ASSUME TypeOK, Shape, NEW c \in Client, DropCall(c) \/ Fails(c) \/ Return(c) \/ Write(c), NEW j \in Slot(c),
           NEW r \in Held(conn'[c][j])
    PROVE  \/ r \in Held(conn[c][j])
           \/ DropCall(c) /\ r = Frame(c, "torn")
           \/ Write(c) /\ r = Frame(c, call[c].op) /\ j = stream[c]
<1>1. stream[c] \in Slot(c) /\ Current(c) \in Conns /\ call[c] # Idle
  BY CallHasStream, CallFacts, SlotFacts, WriteCases, DropCases, FailsCases, ReturnCases DEF Ended, Current
<1>2. Frame(c, "torn") \in Requests /\ Frame(c, call[c].op) \in Requests
  BY <1>1, FrameFacts, CallFacts
<1>3. j # stream[c] => conn'[c][j] = conn[c][j]
  BY DropCases, FailsCases, ReturnCases, WriteCases DEF Dropped, Sets
<1>4. Held(Abandoned(Current(c))) = Held(Current(c))
  <2>1. PICK x : x = Abandoned(Current(c))
    OBVIOUS
  <2>2. x.in = Current(c).in /\ x.job = Current(c).job
    BY <1>1, <2>1, AbandonedFacts
  <2> QED BY <2>1, <2>2 DEF Held
<1>5. Current(c).out # <<>> => Held(Consumed(Current(c))) = Held(Current(c))
  <2>1. PICK x : x = Consumed(Current(c))
    OBVIOUS
  <2>2. Current(c).out # <<>> => x.in = Current(c).in /\ x.job = Current(c).job
    BY <1>1, <2>1, ConsumedFacts
  <2> QED BY <2>1, <2>2 DEF Held
<1>6. CASE j = stream[c]
  <2>1. \A x : Sets(c, stream[c], x) => conn'[c][j] = x
    BY <1>6 DEF Sets
  <2>2. CASE Fails(c)
    BY <1>4, <1>6, <2>1, <2>2, FailsCases DEF Dropped, Current
  <2>3. CASE DropCall(c)
    BY <1>1, <1>2, <1>4, <1>6, <2>1, <2>3, DropCases, HeldSent DEF Dropped, Current
  <2>4. CASE Return(c)
    BY <1>4, <1>5, <1>6, <2>1, <2>4, ReturnCases DEF Dropped, Current
  <2>5. CASE Write(c)
    BY <1>1, <1>2, <1>6, <2>1, <2>5, WriteCases, HeldSent DEF Current
  <2> QED BY <2>2, <2>3, <2>4, <2>5
<1> QED BY <1>3, <1>6

LEMMA StartHeld ==
    ASSUME TypeOK, Shape, NEW c \in Client, NEW u \in Uses[c], StartCall(c, u[1], u[2]), NEW j \in Slot(c),
           NEW r \in Held(conn'[c][j])
    PROVE  r \in Held(conn[c][j])
<1>1. Held(Opened) = {}
  BY UnusedFacts, HeldQuiet
<1>2. CASE Sets(c, opened[c] + 1, Opened)
  BY <1>1, <1>2 DEF Sets
<1> QED BY <1>2, StartCases

\* No handler takes up a torn request.
LEMMA WholeStep == TypeOK /\ Shape /\ Whole /\ [Next]_vars => Whole'
<1> SUFFICES ASSUME TypeOK, Shape, Whole, [Next]_vars PROVE Whole'
  OBVIOUS
<1>1. ASSUME NEW d \in Client, Same(d), NEW j \in Slot(d) PROVE conn'[d][j].job.op # "torn"
  BY <1>1 DEF Same, Whole
<1>2. NoJob.op # "torn" /\ Opened.job = NoJob
  BY UnusedFacts DEF NoJob
<1>3. ASSUME NEW c \in Client, NEW u \in Uses[c], StartCall(c, u[1], u[2]), NEW j \in Slot(c) PROVE conn'[c][j].job.op # "torn"
  BY <1>2, <1>3, StartCases DEF Whole, Sets
<1>4. ASSUME NEW c \in Client, DropCall(c) \/ Fails(c) \/ Return(c) \/ Write(c), NEW j \in Slot(c) PROVE conn'[c][j].job.op # "torn"
  <2>1. stream[c] \in Slot(c) /\ Current(c) \in Conns /\ call[c] # Idle
    BY <1>4, CallHasStream, CallFacts, SlotFacts, WriteCases, DropCases, FailsCases, ReturnCases DEF Ended, Current
  <2>2. Frame(c, "torn") \in Requests /\ Frame(c, call[c].op) \in Requests
    BY <2>1, FrameFacts, CallFacts
  <2>3. \A r \in Requests : Sent(Current(c), r).job = Current(c).job
    BY <2>1, SentFacts
  <2>4. Abandoned(Current(c)).job = Current(c).job /\ (Current(c).out # <<>> => Consumed(Current(c)).job = Current(c).job)
    BY <2>1, AbandonedFacts, ConsumedFacts
  <2>5. UNCHANGED conn \/ \E x : Sets(c, stream[c], x) /\ x.job = Current(c).job
    <3>1. CASE Fails(c)
      BY <2>4, <3>1, FailsCases DEF Dropped
    <3>2. CASE DropCall(c)
      BY <2>2, <2>3, <2>4, <3>2, DropCases DEF Dropped
    <3>3. CASE Write(c)
      BY <2>2, <2>3, <3>3, WriteCases
    <3>4. CASE Return(c)
      BY <2>4, <3>4, ReturnCases DEF Dropped
    <3> QED BY <1>4, <3>1, <3>2, <3>3, <3>4
  <2> QED BY <2>1, <2>5 DEF Whole, Sets, Current
<1>5. ASSUME NEW c \in Client, NEW k \in Slot(c), Server(c, k), NEW j \in Slot(c) PROVE conn'[c][j].job.op # "torn"
  <2> DEFINE cn == conn[c][k]
  <2>1. cn \in Conns /\ now \in Time /\ records \in Snapshot
    BY SlotFacts DEF TypeOK
  <2>2. PICK x : Sets(c, k, x) /\ x.job.op # "torn"
    <3>1. CASE Sets(c, k, Closed(cn))
      BY <1>2, <2>1, <3>1, ClosedFacts
    <3>2. CASE cn.in # <<>> /\ Sets(c, k, Taken(cn)) /\ Head(cn.in).op # "torn"
      BY <2>1, <3>2, TakenFacts
    <3>3. CASE cn.job \in Requests /\ Sets(c, k, Answered(cn))
      BY <1>2, <2>1, <3>3, AnsweredFacts
    <3> QED BY <1>5, <3>1, <3>2, <3>3, ServerCases
  <2> QED BY <2>2 DEF Sets, Whole
<1>6. Background => Whole'
  BY <1>1, BackgroundSame DEF Whole
<1> QED BY <1>1, <1>3, <1>4, <1>5, <1>6, OthersSame, NextCases DEF Whole, Background

\* A request numbered as the call under way is that call.
LEMMA MatchingStep == TypeOK /\ Shape /\ Numbers /\ Matching /\ [Next]_vars => Matching'
<1> SUFFICES ASSUME TypeOK, Shape, Numbers, Matching, [Next]_vars PROVE Matching'
  OBVIOUS
<1>1. ASSUME NEW d \in Client, Same(d) PROVE MatchingOf(d)'
  BY <1>1 DEF Same, Matching, MatchingOf, Held, Frame
<1>2. ASSUME NEW c \in Client, NEW u \in Uses[c], StartCall(c, u[1], u[2]) PROVE MatchingOf(c)'
  <2>1. call[c] = Idle
    BY <1>2, StartCases
  <2>2. CASE UNCHANGED call
    BY <2>1, <2>2 DEF MatchingOf
  <2>3. CASE Begun(c, u[1], u[2])
    <3>1. ASSUME NEW k \in Slot(c), NEW r \in Held(conn'[c][k]) PROVE r.id # call'[c].id
      <4>1. r \in Held(conn[c][k]) /\ conn[c][k] \in Conns /\ Numbered(conn[c][k], Top(c))
        BY <1>2, <3>1, StartHeld, SlotFacts DEF Numbers
      <4>2. r.id \in Nat /\ r.id <= Top(c) /\ Top(c) \in Nat /\ Top(c) <= asked[c] /\ asked[c] \in Nat
        BY <4>1, HeldFacts, TopFacts DEF Numbered
      <4> QED BY <2>3, <4>2, BegunFacts
    <3> QED BY <3>1 DEF MatchingOf, Held
  <2> QED BY <1>2, <2>2, <2>3, StartCases
<1>3. ASSUME NEW c \in Client, DropCall(c) \/ Fails(c) \/ Return(c) PROVE MatchingOf(c)'
  BY <1>3, DropCases, FailsCases, ReturnCases, EndedFacts DEF MatchingOf
<1>4. ASSUME NEW c \in Client, Write(c) PROVE MatchingOf(c)'
  <2>1. Frame(c, call[c].op)' = Frame(c, call[c].op) /\ call'[c].id = call[c].id /\ call[c] # Idle
    BY <1>4, WrittenFacts DEF Frame
  <2>2. ASSUME NEW k \in Slot(c), NEW r \in Held(conn'[c][k]), r.id = call[c].id PROVE r = Frame(c, call[c].op)
    <3>1. \/ r \in Held(conn[c][k])
          \/ DropCall(c) /\ r = Frame(c, "torn")
          \/ Write(c) /\ r = Frame(c, call[c].op) /\ k = stream[c]
      BY <1>4, <2>2, ClientHeld
    <3>2. ~DropCall(c)
      BY <1>4, DropCases, WriteCases, EndedFacts, WrittenFacts
    <3> QED BY <2>1, <2>2, <3>1, <3>2 DEF Matching, MatchingOf
  <2>3. \A k \in Slot(c) : \A r \in Held(conn'[c][k]) : r.id = call'[c].id => r = Frame(c, call[c].op)'
    BY <2>1, <2>2
  <2> QED BY <2>3 DEF MatchingOf, Held
<1>5. ASSUME NEW c \in Client, NEW k \in Slot(c), Server(c, k) PROVE MatchingOf(c)'
  <2>1. UNCHANGED call
    BY <1>5, ServerCases DEF clientVars
  <2>2. \A j \in Slot(c) : Held(conn'[c][j]) \subseteq Held(conn[c][j])
    BY <1>5, ServerHeld
  <2>3. \A j \in Slot(c) : \A r \in Held(conn'[c][j]) : call[c] # Idle /\ r.id = call[c].id => r = Frame(c, call[c].op)
    BY <2>2 DEF Matching, MatchingOf
  <2> QED BY <2>1, <2>3 DEF MatchingOf, Held, Frame
<1>6. Background => Matching'
  BY <1>1, BackgroundSame DEF Matching
<1> QED BY <1>1, <1>2, <1>3, <1>4, <1>5, <1>6, OthersSame, NextCases DEF Matching, Background

LEMMA UnsettledGrows ==
    ASSUME TypeOK, Shape, [Next]_vars
    PROVE  unsettled \subseteq unsettled'
<1>1. ASSUME Background PROVE unsettled \subseteq unsettled'
  BY <1>1 DEF Background, Tick, EvictStart, EvictApply, Deregister, clientVars, vars
<1>2. ASSUME NEW c \in Client, Unsettle(c) PROVE unsettled \subseteq unsettled'
  BY <1>2 DEF Unsettle
<1>3. ASSUME NEW c \in Client, DropCall(c) \/ Fails(c) \/ Return(c) \/ Write(c) PROVE unsettled \subseteq unsettled'
  BY <1>2, <1>3, DropCases, FailsCases, ReturnCases, WriteCases
<1>4. ASSUME NEW c \in Client, NEW u \in Uses[c], StartCall(c, u[1], u[2]) PROVE unsettled \subseteq unsettled'
  BY <1>4, StartCases
<1>5. ASSUME NEW c \in Client, NEW k \in Slot(c), Server(c, k) PROVE unsettled \subseteq unsettled'
  BY <1>5, ServerCases DEF clientVars
<1> QED BY <1>1, <1>3, <1>4, <1>5, NextCases DEF Background

\* A client that waits for no reply has no registration of a settled instance
\* pending.
LEMMA NoPending ==
    ASSUME NEW c \in Client, PendingOf(c), ~InPhase(c, "read"), NEW k \in Slot(c), NEW r \in Held(conn[c][k])
    PROVE  ~(r.op \in {"register", "join"} /\ r.inst \notin unsettled)
BY DEF PendingOf

LEMMA PendingEnd ==
    ASSUME TypeOK, Shape, Numbers, NEW c \in Client, PendingOf(c), DropCall(c) \/ Fails(c) \/ Return(c),
           unsettled \subseteq unsettled', NEW k \in Slot(c), NEW r \in Held(conn'[c][k]),
           r.op \in {"register", "join"}
    PROVE  r.inst \in unsettled'
<1> SUFFICES ASSUME r.inst \notin unsettled' PROVE FALSE
  OBVIOUS
<1>1. call[c] # Idle
  BY DropCases, FailsCases, ReturnCases DEF Ended
<1>2. ~Write(c)
  BY DropCases, FailsCases, ReturnCases, EndedFacts, WrittenFacts
<1>3. Frame(c, "torn").op = "torn"
  BY <1>1, FrameFacts
<1>4. r \in Held(conn[c][k])
  BY <1>2, <1>3, ClientHeld
<1>5. k = stream[c] /\ InPhase(c, "read") /\ r = Frame(c, call[c].op)
  BY <1>4 DEF PendingOf
<1>6. r.op = call[c].op /\ r.inst = call[c].inst /\ r.id = call[c].id
  BY <1>1, <1>5, CallFacts, FrameFacts
<1>7. Unsettle(c) => call[c].inst \in unsettled'
  BY <1>6 DEF Unsettle
<1>8. CASE Return(c) /\ Head(Current(c).out).id = call[c].id
  <2>1. Current(c) \in Conns /\ Numbered(Current(c), Top(c)) /\ Current(c).out # <<>>
    BY <1>5, <1>8, SlotFacts, ReturnCases DEF Current, Numbers
  <2>2. Head(Current(c).out) = Current(c).out[1] /\ 1 \in DOMAIN Current(c).out
    BY <2>1, ConnFacts, Pop
  <2>3. Current(c).out[1].id < r.id
    BY <1>4, <1>5, <2>1, <2>2 DEF Numbered, Current
  <2>4. r.id \in Nat
    BY <1>4, <1>5, <2>1, HeldFacts DEF Current
  <2> QED BY <1>6, <1>8, <2>2, <2>3, <2>4
<1>9. Unsettle(c) \/ (Return(c) /\ Head(Current(c).out).id = call[c].id)
  BY DropCases, FailsCases, ReturnCases
<1> QED BY <1>6, <1>7, <1>8, <1>9

\* A settled instance has no registration to be executed but the one its client
\* awaits.
LEMMA PendingStep == TypeOK /\ Shape /\ Numbers /\ Pending /\ [Next]_vars => Pending'
<1> SUFFICES ASSUME TypeOK, Shape, Numbers, Pending, [Next]_vars PROVE Pending'
  OBVIOUS
<1>0. unsettled \subseteq unsettled'
  BY UnsettledGrows
<1>1. ASSUME NEW d \in Client, Same(d) PROVE PendingOf(d)'
  <2>1. \A k \in Slot(d) : Held(conn'[d][k]) = Held(conn[d][k])
    BY <1>1 DEF Same
  <2>2. (\A op : Frame(d, op)' = Frame(d, op)) /\ (InPhase(d, "read")' <=> InPhase(d, "read"))
    BY <1>1 DEF Same, Frame, InPhase
  <2>3. \A k \in Slot(d) : \A r \in Held(conn'[d][k]) :
          r.op \in {"register", "join"} /\ r.inst \notin unsettled' =>
            k = stream[d] /\ InPhase(d, "read") /\ r = Frame(d, call[d].op)
    BY <1>0, <2>1 DEF Pending, PendingOf
  <2>4. Frame(d, call[d].op)' = Frame(d, call[d].op) /\ stream'[d] = stream[d]
    BY <1>1 DEF Same, Frame
  <2> QED BY <2>2, <2>3, <2>4 DEF PendingOf, Held
<1>2. ASSUME NEW c \in Client,
             \A k \in Slot(c) : \A r \in Held(conn'[c][k]) : ~(r.op \in {"register", "join"} /\ r.inst \notin unsettled')
      PROVE  PendingOf(c)'
  BY <1>2 DEF PendingOf, Held
<1>3. ASSUME NEW c \in Client, NEW u \in Uses[c], StartCall(c, u[1], u[2]) PROVE PendingOf(c)'
  <2>1. ~InPhase(c, "read") /\ PendingOf(c)
    BY <1>3, StartCases, CallFacts DEF Pending
  <2>2. ASSUME NEW k \in Slot(c), NEW r \in Held(conn'[c][k]) PROVE ~(r.op \in {"register", "join"} /\ r.inst \notin unsettled')
    BY <1>0, <1>3, <2>1, <2>2, StartHeld, NoPending
  <2> QED BY <1>2, <2>2
<1>4. ASSUME NEW c \in Client, DropCall(c) \/ Fails(c) \/ Return(c) PROVE PendingOf(c)'
  <2>1. PendingOf(c)
    BY DEF Pending
  <2>2. ASSUME NEW k \in Slot(c), NEW r \in Held(conn'[c][k]) PROVE ~(r.op \in {"register", "join"} /\ r.inst \notin unsettled')
    BY <1>0, <1>4, <2>1, <2>2, PendingEnd
  <2> QED BY <1>2, <2>2
<1>5. ASSUME NEW c \in Client, Write(c) PROVE PendingOf(c)'
  <2>1. /\ Frame(c, call[c].op)' = Frame(c, call[c].op) /\ InPhase(c, "read")' /\ ~InPhase(c, "read")
        /\ stream' = stream /\ PendingOf(c)
    BY <1>5, WrittenFacts, WriteCases DEF Frame, InPhase, Pending
  <2>2. ~DropCall(c)
    BY <1>5, DropCases, EndedFacts, WrittenFacts
  <2>3. ASSUME NEW k \in Slot(c), NEW r \in Held(conn'[c][k]), r.op \in {"register", "join"}, r.inst \notin unsettled'
        PROVE  k = stream[c] /\ r = Frame(c, call[c].op)
    <3>1. r \notin Held(conn[c][k])
      BY <1>0, <2>1, <2>3, NoPending
    <3> QED BY <1>5, <2>2, <2>3, <3>1, ClientHeld
  <2>4. \A k \in Slot(c) : \A r \in Held(conn'[c][k]) :
          r.op \in {"register", "join"} /\ r.inst \notin unsettled' => k = stream'[c] /\ r = Frame(c, call[c].op)'
    BY <2>1, <2>3
  <2> QED BY <2>1, <2>4 DEF PendingOf, Held
<1>6. ASSUME NEW c \in Client, NEW k \in Slot(c), Server(c, k) PROVE PendingOf(c)'
  <2>1. UNCHANGED <<call, stream>>
    BY <1>6, ServerCases DEF clientVars
  <2>2. \A j \in Slot(c) : Held(conn'[c][j]) \subseteq Held(conn[c][j])
    BY <1>6, ServerHeld
  <2>3. \A j \in Slot(c) : \A r \in Held(conn'[c][j]) :
          r.op \in {"register", "join"} /\ r.inst \notin unsettled' =>
            j = stream[c] /\ InPhase(c, "read") /\ r = Frame(c, call[c].op)
    BY <1>0, <2>2 DEF Pending, PendingOf
  <2> QED BY <2>1, <2>3 DEF PendingOf, Held, Frame, InPhase
<1>7. Background => Pending'
  BY <1>1, BackgroundSame DEF Pending
<1> QED BY <1>1, <1>3, <1>4, <1>5, <1>6, <1>7, OthersSame, NextCases DEF Pending, Background

-----------------------------------------------------------------------------
(* The lease of an acknowledged registration                               *)

\* A registration that the server executes for a settled instance is the one
\* its client waits for, stamped after the call was made.
LEMMA Executed ==
    ASSUME TypeOK, Shape, Timely, Whole, Pending, NEW c \in Client, NEW k \in Slot(c),
           conn[c][k].job \in Requests, conn[c][k].job.op # "list", conn[c][k].job.inst \notin unsettled
    PROVE  /\ k = stream[c] /\ InPhase(c, "read") /\ conn[c][k].job = Frame(c, call[c].op)
           /\ conn[c][k].job.id = call[c].id /\ conn[c][k].job.inst = call[c].inst
           /\ call[c].op # "list" /\ Registers(c, call[c].inst)
           /\ conn[c][k].stamp \in Nat /\ call[c].at \in Nat /\ conn[c][k].stamp >= call[c].at
<1> DEFINE job == conn[c][k].job
<1>1. conn[c][k] \in Conns /\ job # NoJob /\ job \in Held(conn[c][k])
  BY SlotFacts, JobFacts, HeldFacts
<1>2. job.op \in {"register", "join"}
  BY DEF Requests, Op, Whole
<1>3. k = stream[c] /\ InPhase(c, "read") /\ job = Frame(c, call[c].op)
  BY <1>1, <1>2 DEF Pending, PendingOf
<1>4. call[c] # Idle /\ call[c].op \in Op /\ call[c].at \in Nat
  BY <1>3, CallFacts
<1>5. job.op = call[c].op /\ job.inst = call[c].inst /\ job.id = call[c].id
  BY <1>3, <1>4, FrameFacts
<1>6. Registers(c, call[c].inst)
  BY <1>2, <1>4, <1>5 DEF Shape, Registers
<1>7. conn[c][k].stamp \in Nat
  BY <1>1, ConnFacts, ConstantFacts
<1> QED BY <1>1, <1>2, <1>3, <1>4, <1>5, <1>6, <1>7 DEF Timely, TimelyOf

LEMMA RecordFacts ==
    ASSUME records \in Snapshot
    PROVE  \A i \in DOMAIN records : records[i] \in Nat /\ i \in Instance
<1>1. PICK S \in SUBSET Instance : records \in [S -> Time]
  BY DEF Snapshot
<1> QED BY <1>1, ConstantFacts

\* Nothing but a registration can end a lease before its time.
LEMMA KeptBackground ==
    ASSUME TypeOK, Shape, Background, NEW i \in Instance, i \notin unsettled', NEW t \in Nat, Kept(i, t)
    PROVE  Kept(i, t)'
<1>1. now \in Nat /\ now' \in Nat /\ now <= now'
  <2>1. now \in Nat
    BY ConstantFacts DEF TypeOK
  <2>2. now' = now + 1 \/ now' = now
    BY DEF Background, Tick, EvictStart, EvictApply, Deregister, vars
  <2> QED BY <2>1, <2>2
<1>2. t + TTL < now => t + TTL < now'
  BY <1>1, ConstantFacts
<1>3. CASE UNCHANGED records
  BY <1>2, <1>3 DEF Kept
<1>4. ASSUME NEW j \in Instance, Deregister(j) PROVE Kept(i, t)'
  <2>1. i # j /\ UNCHANGED now
    BY <1>4 DEF Deregister
  <2>2. i \in DOMAIN records => i \in DOMAIN records' /\ records'[i] = records[i]
    BY <1>4, <2>1 DEF Deregister, Restrict
  <2> QED BY <2>1, <2>2 DEF Kept
<1>5. CASE EvictApply
  <2>1. UNCHANGED now /\ evicting # Never /\ records' = Restrict(records, Unexpired(evicting))
    BY <1>5 DEF EvictApply
  <2>2. evicting \in Nat /\ evicting <= now
    BY <2>1, ConstantFacts DEF TypeOK, Shape
  <2>3. CASE i \in Unexpired(evicting)
    BY <2>1, <2>3 DEF Kept, Restrict, Unexpired
  <2>4. CASE i \notin Unexpired(evicting) /\ i \in DOMAIN records /\ records[i] >= t
    <3>1. records[i] \in Nat /\ records[i] + TTL < evicting
      BY <2>4, RecordFacts DEF Unexpired, Expired, TypeOK
    <3>2. t + TTL < now
      BY <1>1, <2>2, <2>4, <3>1, ConstantFacts
    <3> QED BY <2>1, <3>2 DEF Kept
  <2> QED BY <2>1, <2>3, <2>4 DEF Kept
<1> QED BY <1>3, <1>4, <1>5 DEF Background, Tick, EvictStart, vars

\* A registration of another instance leaves it, and so does one that was
\* stamped later.
LEMMA KeptServer ==
    ASSUME TypeOK, Shape, NEW c \in Client, NEW k \in Slot(c), Server(c, k),
           NEW i \in Instance, NEW t \in Nat, Kept(i, t),
           /\ conn[c][k].job \in Requests /\ conn[c][k].job.op # "list" /\ conn[c][k].job.inst = i
           => conn[c][k].stamp >= t
    PROVE  Kept(i, t)'
<1>1. UNCHANGED now
  BY ServerCases
<1>2. CASE UNCHANGED records
  BY <1>1, <1>2 DEF Kept
<1>3. CASE conn[c][k].job \in Requests /\ conn[c][k].job.op # "list" /\ records' = Stored(conn[c][k].job.inst, conn[c][k].stamp)
  <2>1. PICK j : j = conn[c][k].job.inst
    OBVIOUS
  <2>2. PICK s : s = conn[c][k].stamp
    OBVIOUS
  <2>3. PICK f : f = Stored(j, s)
    OBVIOUS
  <2>4. records' = f /\ (j = i => s >= t) /\ records \in Snapshot
    BY <1>3, <2>1, <2>2, <2>3 DEF TypeOK
  <2>5. /\ DOMAIN f = DOMAIN records \cup {j} /\ f[j] = s
        /\ \A l \in DOMAIN records : l # j => f[l] = records[l]
    BY <2>3, <2>4 DEF Stored
  <2> QED BY <1>1, <2>4, <2>5 DEF Kept
<1> QED BY <1>2, <1>3, ServerCases

LEMMA Settles ==
    ASSUME TypeOK, Shape, [Next]_vars, NEW i, Settled(i)'
    PROVE  Settled(i) /\ i \in Instance /\ i \notin unsettled /\ i \notin unsettled' /\ OneOwner(i)
BY UnsettledGrows DEF Settled, OneOwner, Registers

\* Who calls to register an instance is its owner.
LEMMA CallerRegisters ==
    ASSUME TypeOK, Shape, NEW c \in Client, call[c] # Idle, call[c].op # "list"
    PROVE  Registers(c, call[c].inst)
BY CallFacts DEF Shape, Registers, Op

LEMMA AckedServer ==
    ASSUME TypeOK, Shape, Numbers, Timely, Whole, Matching, Pending, NEW c \in Client, AckedOf(c),
           NEW k \in Slot(c), Server(c, k), InPhase(c, "read"), call[c].op # "list",
           Settled(call[c].inst), NEW n \in DOMAIN Current(c)'.out, Current(c)'.out[n].id = call[c].id,
           NEW i, i = call[c].inst, NEW t, t = call[c].at
    PROVE  Kept(i, t)'
<1> DEFINE cn == conn[c][k]
<1>1. call[c] # Idle /\ t \in Nat /\ i \in Instance /\ stream[c] # 0 /\ stream[c] \in Slot(c) /\ i \notin unsettled
  BY CallFacts, SlotFacts DEF Shape, Settled
<1>2. cn \in Conns /\ records \in Snapshot /\ now \in Time /\ UNCHANGED <<call, stream>> /\ Current(c) \in Conns
  BY <1>1, SlotFacts, ServerCases DEF TypeOK, clientVars, Current
<1>3. \* A reply that was there: no job can be the registration itself.
      ASSUME NEW m \in DOMAIN Current(c).out, Current(c).out[m].id = call[c].id
      PROVE  Kept(i, t)'
  <2>1. Kept(i, t)
    BY <1>3 DEF AckedOf
  <2>2. ASSUME cn.job \in Requests, cn.job.op # "list", cn.job.inst = i PROVE cn.stamp >= t
    BY <1>1, <2>2, Executed
  <2> QED BY <1>1, <2>1, <2>2, KeptServer
<1>4. CASE k = stream[c] /\ cn.job \in Requests /\ Sets(c, k, Answered(cn))
           /\ records' = IF cn.job.op = "list" THEN records ELSE Stored(cn.job.inst, cn.stamp)
  <2>1. Current(c) = cn
    BY <1>4 DEF Current
  <2>2. Current(c)' = Answered(cn)
    BY <1>2, <1>4 DEF Current, Sets
  <2>3. Current(c)'.out = (IF cn.open THEN Append(cn.out, Answer(cn)) ELSE cn.out)
    BY <1>2, <1>4, <2>2, AnsweredFacts
  <2>4. CASE n \in DOMAIN cn.out /\ Current(c)'.out[n] = cn.out[n]
    BY <1>3, <2>1, <2>4
  <2>5. CASE Current(c)'.out[n] = Answer(cn)
    <3>1. cn.job.id = call[c].id
      BY <1>2, <1>4, <2>5, AnswerFacts
    <3>2. cn.job # NoJob /\ cn.job \in Held(cn)
      BY <1>2, <1>4, JobFacts, HeldFacts
    <3>3. cn.job = Frame(c, call[c].op)
      BY <1>1, <3>1, <3>2 DEF Matching, MatchingOf
    <3>4. cn.job.op = call[c].op /\ cn.job.inst = i
      BY <1>1, <3>3, CallFacts, FrameFacts
    <3>5. cn.stamp >= t
      BY <1>1, <3>1, <3>2 DEF Timely, TimelyOf
    <3>6. PICK f : f = Stored(i, cn.stamp)
      OBVIOUS
    <3>7. records' = f
      BY <1>4, <3>4, <3>6
    <3>8. DOMAIN f = DOMAIN records \cup {i} /\ f[i] = cn.stamp
      BY <3>6 DEF Stored
    <3> QED BY <1>2, <3>5, <3>7, <3>8 DEF Kept
  <2>6. ASSUME cn.open PROVE (n \in DOMAIN cn.out /\ Current(c)'.out[n] = cn.out[n]) \/ Current(c)'.out[n] = Answer(cn)
    <3>1. PICK a \in Replies : a = Answer(cn)
      BY <1>2, <1>4, AnswerFacts
    <3>2. Current(c)'.out = Append(cn.out, a) /\ cn.out \in Seq(Replies)
      BY <1>2, <2>3, <2>6, <3>1, ConnFacts
    <3>3. n \in DOMAIN Append(cn.out, a) /\ DOMAIN Append(cn.out, a) = 1 .. Len(cn.out) + 1 /\ DOMAIN cn.out = 1 .. Len(cn.out) /\ Len(cn.out) \in Nat
      BY <3>1, <3>2, Push
    <3>4. n \in DOMAIN cn.out \/ n = Len(cn.out) + 1
      BY <3>3
    <3>5. \A m \in DOMAIN cn.out : Append(cn.out, a)[m] = cn.out[m]
      BY <3>1, <3>2, Push
    <3>6. Append(cn.out, a)[Len(cn.out) + 1] = a
      BY <3>1, <3>2, Push
    <3> QED BY <3>1, <3>2, <3>4, <3>5, <3>6
  <2>7. ~cn.open => n \in DOMAIN cn.out /\ Current(c)'.out[n] = cn.out[n]
    BY <2>3
  <2> QED BY <2>4, <2>5, <2>6, <2>7
<1>5. CASE Current(c)'.out = Current(c).out
  BY <1>3, <1>5
<1>6. k # stream[c] => Current(c)' = Current(c)
  BY <1>1, <1>2, ServerCases DEF Sets, Current
<1>7. k = stream[c] /\ Sets(c, k, Closed(cn)) => Current(c)'.out = Current(c).out
  BY <1>2, ClosedFacts DEF Sets, Current
<1>8. k = stream[c] /\ cn.in # <<>> /\ Sets(c, k, Taken(cn)) => Current(c)'.out = Current(c).out
  BY <1>2, TakenFacts DEF Sets, Current
<1> QED BY <1>4, <1>5, <1>6, <1>7, <1>8, ServerCases

\* The invariant of the lease, and all it rests on.
LeaseInv == ExchangeInv /\ Whole /\ Matching /\ Pending /\ Acked /\ Leased

LEMMA AckedSame ==
    ASSUME LeaseInv, [Next]_vars, NEW d \in Client, Same(d),
           Background \/ UNCHANGED <<now, records>> \/ \E c \in Client \ {d} : \E k \in Slot(c) : Server(c, k)
    PROVE  AckedOf(d)'
<1> SUFFICES ASSUME InPhase(d, "read")', call'[d].op # "list", Settled(call[d].inst)',
                    NEW n \in DOMAIN Current(d)'.out, Current(d)'.out[n].id = call'[d].id
             PROVE  Kept(call[d].inst, call[d].at)'
  BY DEF AckedOf
<1> USE DEF LeaseInv, ExchangeInv
<1>1. call'[d] = call[d] /\ InPhase(d, "read") /\ call[d] # Idle /\ call[d].op # "list"
  BY CallFacts DEF Same, InPhase
<1>2. PICK i, t : i = call[d].inst /\ t = call[d].at
  OBVIOUS
<1>3. Settled(i)'
  BY <1>1, <1>2 DEF Settled, OneOwner, Registers
<1>4. i \in Instance /\ t \in Nat /\ i \notin unsettled /\ i \notin unsettled' /\ OneOwner(i) /\ Settled(i)
  BY <1>1, <1>2, <1>3, CallFacts, Settles
<1>5. Current(d)' = Current(d)
  BY <1>1, SlotFacts DEF Same, Current, Shape
<1>6. Kept(i, t)
  BY <1>1, <1>2, <1>4, <1>5 DEF Acked, AckedOf
<1>7. ASSUME Background PROVE Kept(i, t)'
  BY <1>4, <1>6, <1>7, KeptBackground
<1>8. ASSUME UNCHANGED <<now, records>> PROVE Kept(i, t)'
  BY <1>6, <1>8 DEF Kept
<1>9. ASSUME NEW c \in Client \ {d}, NEW k \in Slot(c), Server(c, k) PROVE Kept(i, t)'
  <2>1. ~(conn[c][k].job \in Requests /\ conn[c][k].job.op # "list" /\ conn[c][k].job.inst = i)
    <3>1. Registers(d, i)
      BY <1>1, <1>2, CallerRegisters
    <3>2. ASSUME conn[c][k].job \in Requests, conn[c][k].job.op # "list", conn[c][k].job.inst = i PROVE Registers(c, i)
      <4>1. Registers(c, call[c].inst) /\ conn[c][k].job.inst = call[c].inst
        BY <1>4, <3>2, Executed
      <4> QED BY <3>2, <4>1
    <3> QED BY <1>4, <3>1, <3>2 DEF OneOwner
  <2> QED BY <1>4, <1>6, <1>9, <2>1, KeptServer
<1>10. Kept(i, t)'
  BY <1>7, <1>8, <1>9
<1> QED BY <1>1, <1>2, <1>10 DEF Kept

\* A registration is answered after its record is stored, and no eviction takes
\* it within the TTL.
LEMMA AckedStep == LeaseInv /\ [Next]_vars => Acked'
<1> SUFFICES ASSUME LeaseInv, [Next]_vars PROVE Acked'
  OBVIOUS
<1> USE DEF LeaseInv, ExchangeInv
<1>1. ASSUME NEW c \in Client, call'[c].phase # "read" PROVE AckedOf(c)'
  BY <1>1 DEF AckedOf, InPhase
<1>2. ASSUME NEW c \in Client, DropCall(c) \/ Fails(c) \/ Return(c) PROVE AckedOf(c)' /\ UNCHANGED <<now, records>>
  BY <1>1, <1>2, DropCases, FailsCases, ReturnCases, EndedFacts
<1>3. ASSUME NEW c \in Client, NEW u \in Uses[c], StartCall(c, u[1], u[2]) PROVE AckedOf(c)' /\ UNCHANGED <<now, records>>
  <2>1. call[c] = Idle /\ UNCHANGED <<now, records>>
    BY <1>3, StartCases
  <2>2. call'[c].phase # "read"
    BY <1>3, <2>1, StartCases, BegunFacts, CallFacts DEF InPhase
  <2> QED BY <1>1, <2>1, <2>2
<1>4. ASSUME NEW c \in Client, Write(c) PROVE AckedOf(c)' /\ UNCHANGED <<now, records>>
  <2>1. /\ stream[c] # 0 /\ Current(c) \in Conns /\ Frame(c, call[c].op) \in Requests
        /\ UNCHANGED <<stream, now, records>> /\ stream[c] \in Slot(c)
    BY <1>4, WriteCases, SlotFacts, CallFacts, FrameFacts DEF Current
  <2>2. PICK x : x = Sent(Current(c), Frame(c, call[c].op))
    OBVIOUS
  <2>3. x.out = Current(c).out
    BY <2>1, <2>2, SentFacts
  <2>4. Current(c)' = x
    BY <1>4, <2>1, <2>2, WriteCases DEF Sets, Current
  <2>5. Numbered(Current(c), Top(c)) /\ Top(c) \in Nat /\ call[c].id = Top(c) + 1
    BY <1>4, <2>1, TopFacts DEF Numbers, Current, Write
  <2>6. \A n \in DOMAIN Current(c)'.out : Current(c)'.out[n].id # call'[c].id
    <3>1. \A n \in DOMAIN Current(c).out : Current(c).out[n].id \in Nat /\ Current(c).out[n].id <= Top(c)
      BY <2>1, <2>5, HeldFacts DEF Numbered
    <3>2. \A n \in DOMAIN Current(c).out : Current(c).out[n].id # call[c].id
      BY <2>5, <3>1
    <3> QED BY <1>4, <2>3, <2>4, <3>2, WrittenFacts
  <2> QED BY <2>1, <2>6 DEF AckedOf
<1>5. ASSUME NEW c \in Client, NEW k \in Slot(c), Server(c, k) PROVE AckedOf(c)'
  <2> SUFFICES ASSUME InPhase(c, "read")', call'[c].op # "list", Settled(call[c].inst)',
                      NEW n \in DOMAIN Current(c)'.out, Current(c)'.out[n].id = call'[c].id
               PROVE  Kept(call[c].inst, call[c].at)'
    BY DEF AckedOf
  <2>1. UNCHANGED call /\ AckedOf(c)
    BY <1>5, ServerCases DEF clientVars, Acked
  <2>2. PICK i, t : i = call[c].inst /\ t = call[c].at
    OBVIOUS
  <2>3. Settled(i)'
    BY <2>1, <2>2 DEF Settled, OneOwner, Registers
  <2>4. InPhase(c, "read") /\ call[c].op # "list" /\ Settled(call[c].inst) /\ Current(c)'.out[n].id = call[c].id
    BY <2>1, <2>2, <2>3, Settles DEF InPhase
  <2>5. Kept(i, t)'
    BY <1>5, <2>1, <2>2, <2>4, AckedServer
  <2> QED BY <2>1, <2>2, <2>5 DEF Kept
<1>6. ASSUME Background PROVE Acked'
  BY <1>6, BackgroundSame, AckedSame DEF Acked
<1>7. ASSUME NEW c \in Client,
             (\E u \in Uses[c] : StartCall(c, u[1], u[2])) \/ DropCall(c) \/ Fails(c) \/ Write(c) \/ Return(c)
      PROVE  Acked'
  <2>1. AckedOf(c)' /\ UNCHANGED <<now, records>>
    BY <1>2, <1>3, <1>4, <1>7
  <2>2. ASSUME NEW d \in Client, d # c PROVE AckedOf(d)'
    BY <1>7, <2>1, <2>2, OthersSame, AckedSame
  <2> QED BY <2>1, <2>2 DEF Acked
<1>8. ASSUME NEW c \in Client, NEW k \in Slot(c), Server(c, k) PROVE Acked'
  <2>1. ASSUME NEW d \in Client, d # c PROVE AckedOf(d)'
    BY <1>8, <2>1, OthersSame, AckedSame
  <2> QED BY <1>5, <1>8, <2>1 DEF Acked
<1> QED BY <1>6, <1>7, <1>8, NextCases DEF Background

\* A lease that was there before the step.
LEMMA LeasedKept ==
    ASSUME LeaseInv, [Next]_vars, NEW i \in Instance, granted'[i] = granted[i], granted[i] # Never
    PROVE  granted'[i] <= now' /\ (Settled(i)' => Kept(i, granted[i])')
<1> USE DEF LeaseInv, ExchangeInv
<1>1. granted[i] \in Nat /\ granted[i] <= now /\ now \in Nat
  BY ConstantFacts DEF Leased, TypeOK
<1>2. now' = now \/ now' = now + 1
  BY NextCases, ServerCases, StartCases, DropCases, FailsCases, WriteCases, ReturnCases
     DEF Tick, EvictStart, EvictApply, Deregister, vars
<1>3. PICK t \in Nat : t = granted[i] /\ t = granted'[i]
  BY <1>1
<1>4. ASSUME Settled(i)' PROVE Kept(i, t)'
  <2>1. i \notin unsettled' /\ i \notin unsettled /\ OneOwner(i) /\ Kept(i, t)
    BY <1>3, <1>4, Settles DEF Leased
  <2>2. ASSUME Background PROVE Kept(i, t)'
    BY <2>1, <2>2, KeptBackground
  <2>3. ASSUME UNCHANGED <<now, records>> PROVE Kept(i, t)'
    BY <2>1, <2>3 DEF Kept
  <2>4. ASSUME NEW c \in Client, NEW k \in Slot(c), Server(c, k) PROVE Kept(i, t)'
    <3>1. ASSUME conn[c][k].job \in Requests, conn[c][k].job.op # "list", conn[c][k].job.inst = i
          PROVE  conn[c][k].stamp >= t
      <4>1. /\ InPhase(c, "read") /\ call[c].inst = i /\ call[c].op # "list"
            /\ conn[c][k].stamp \in Nat /\ call[c].at \in Nat /\ conn[c][k].stamp >= call[c].at
        BY <2>1, <3>1, Executed
      <4>2. ~InPhase(c, "idle")
        BY <4>1 DEF InPhase
      <4>3. t <= call[c].at
        BY <1>3, <2>1, <4>1, <4>2 DEF Leased
      <4> QED BY <4>1, <4>3
    <3> QED BY <2>1, <2>4, <3>1, KeptServer
  <2>5. ASSUME NEW c \in Client,
               (\E u \in Uses[c] : StartCall(c, u[1], u[2])) \/ DropCall(c) \/ Fails(c) \/ Write(c) \/ Return(c)
        PROVE  UNCHANGED <<now, records>>
    BY <2>5, StartCases, DropCases, FailsCases, WriteCases, ReturnCases
  <2> QED BY <2>2, <2>3, <2>4, <2>5, NextCases DEF Background
<1>5. t <= now'
  BY <1>1, <1>2, <1>3
<1> QED BY <1>3, <1>4, <1>5 DEF Kept

\* The calls under way after a step were made after the leases of before.
LEMMA LeasedCalls ==
    ASSUME LeaseInv, [Next]_vars, NEW i \in Instance, granted[i] # Never, OneOwner(i), NEW d \in Client,
           ~InPhase(d, "idle")', call'[d].op # "list", call'[d].inst = i
    PROVE  granted[i] <= call'[d].at
<1> USE DEF LeaseInv, ExchangeInv
<1>1. ASSUME Same(d) PROVE granted[i] <= call'[d].at
  BY <1>1 DEF Same, InPhase, Leased
<1>2. ASSUME NEW u \in Uses[d], StartCall(d, u[1], u[2]) PROVE granted[i] <= call'[d].at
  <2>1. granted[i] <= now
    BY DEF Leased
  <2>2. call[d].phase = "idle"
    BY <1>2, StartCases, CallFacts DEF InPhase
  <2> QED BY <1>2, <2>1, <2>2, StartCases, BegunFacts DEF InPhase
<1>3. ~(DropCall(d) \/ Fails(d) \/ Return(d))
  BY DropCases, FailsCases, ReturnCases, EndedFacts DEF InPhase
<1>4. ASSUME Write(d) PROVE granted[i] <= call'[d].at
  BY <1>4, WrittenFacts DEF Leased, InPhase
<1>5. ASSUME NEW k \in Slot(d), Server(d, k) PROVE granted[i] <= call'[d].at
  BY <1>5, ServerCases DEF clientVars, InPhase, Leased
<1> QED BY <1>1, <1>2, <1>3, <1>4, <1>5, OthersSame, BackgroundSame, NextCases DEF Background

\* A granted lease is kept by eviction, renewal and deregistration until it
\* ends.
LEMMA LeasedStep == LeaseInv /\ [Next]_vars => Leased'
<1> SUFFICES ASSUME LeaseInv, [Next]_vars, NEW i \in Instance, granted'[i] # Never
             PROVE  /\ granted'[i] <= now'
                    /\ Settled(i)' => Kept(i, granted[i])'
                    /\ OneOwner(i) => \A d \in Client :
                         ~InPhase(d, "idle")' /\ call'[d].op # "list" /\ call'[d].inst = i => granted'[i] <= call'[d].at
  BY DEF Leased, OneOwner, Registers
<1>1. CASE granted'[i] = granted[i]
  BY <1>1, LeasedKept, LeasedCalls
<1>2. CASE granted'[i] # granted[i]
  <2> USE DEF LeaseInv, ExchangeInv
  <2>1. PICK c \in Client : Return(c)
    <3>1. Background \/ (\E c \in Client : (\E u \in Uses[c] : StartCall(c, u[1], u[2])) \/ DropCall(c) \/ Fails(c) \/ Write(c))
          \/ (\E c \in Client : \E k \in Slot(c) : Server(c, k)) => UNCHANGED granted
      BY BackgroundSame, StartCases, DropCases, FailsCases, WriteCases, ServerCases DEF clientVars
    <3> QED BY <1>2, <3>1, NextCases DEF Background
  <2>2. PICK reply : reply = Head(Current(c).out)
    OBVIOUS
  <2>3. /\ reply.kind = "pong" /\ Expected(c, reply) /\ reply.id = call[c].id
        /\ granted' = [granted EXCEPT ![call[c].inst] = call[c].at] /\ UNCHANGED <<now, records>>
    BY <1>2, <2>1, <2>2, ReturnCases
  <2>4. call[c].op # "list" /\ InPhase(c, "read") /\ call[c] # Idle
    BY <2>1, <2>3, ReturnCases DEF Expected, Ended
  <2>5. call[c].inst = i /\ granted'[i] = call[c].at
    BY <1>2, <2>3 DEF TypeOK
  <2>6. PICK t \in Nat : t = call[c].at /\ t <= now
    BY <2>4, CallFacts DEF Shape
  <2>7. Settled(i)' => Kept(i, t)'
    <3>1. stream[c] \in Slot(c) /\ Current(c) \in Conns /\ Current(c).out # <<>>
      BY <2>1, ReturnCases, SlotFacts DEF Ended, Current
    <3>2. 1 \in DOMAIN Current(c).out /\ reply = Current(c).out[1]
      BY <2>2, <3>1, ConnFacts, Pop
    <3>3. Settled(i) => Kept(i, t)
      BY <2>3, <2>4, <2>5, <2>6, <3>2 DEF Acked, AckedOf
    <3> QED BY <2>3, <3>3, Settles DEF Kept
  <2>8. ASSUME OneOwner(i), NEW d \in Client, ~InPhase(d, "idle")', call'[d].op # "list", call'[d].inst = i PROVE FALSE
    <3>1. Ended(c) /\ call'[c].phase = "idle"
      BY <2>1, ReturnCases, EndedFacts
    <3>2. d # c
      BY <2>8, <3>1 DEF InPhase
    <3>3. call'[d] = call[d] /\ call[d] # Idle
      BY <2>1, <2>8, <3>2, OthersSame, CallFacts DEF Same, InPhase
    <3>4. Registers(d, i) /\ Registers(c, i)
      BY <2>4, <2>5, <2>8, <3>3, CallerRegisters
    <3> QED BY <2>8, <3>2, <3>4 DEF OneOwner
  <2> QED BY <2>3, <2>5, <2>6, <2>7, <2>8 DEF Kept
<1> QED BY <1>1, <1>2

LEMMA LeaseInit == Init => LeaseInv
<1> SUFFICES ASSUME Init PROVE LeaseInv
  OBVIOUS
<1>1. ExchangeInv
  BY ExchangeInit
<1>2. \A c \in Client : call[c] = Idle /\ \A k \in Slot(c) : conn[c][k] = Unused
  BY DEF Init
<1>3. Quiet(Unused) /\ Unused.job.op # "torn"
  BY DEF Unused, Quiet, NoJob
<1>4. Held(Unused) = {}
  BY <1>3, HeldQuiet
<1>5. Whole /\ Matching /\ Pending
  BY <1>2, <1>3, <1>4 DEF Whole, Matching, MatchingOf, Pending, PendingOf
<1>6. Acked
  <2>1. \A c \in Client : call[c].phase # "read"
    BY <1>2 DEF Idle
  <2> QED BY <2>1 DEF Acked, AckedOf, InPhase
<1>7. Leased
  BY DEF Init, Leased
<1> QED BY <1>1, <1>5, <1>6, <1>7 DEF LeaseInv

LEMMA LeaseHolds == Spec => []LeaseInv
<1>1. LeaseInv /\ [Next]_vars => LeaseInv'
  <2> SUFFICES ASSUME LeaseInv, [Next]_vars PROVE LeaseInv'
    OBVIOUS
  <2>1. ExchangeInv'
    BY TypeStep, NumbersStep, TimelyStep, ExchangeStep DEF LeaseInv, ExchangeInv
  <2>2. Whole' /\ Matching' /\ Pending'
    BY WholeStep, MatchingStep, PendingStep DEF LeaseInv, ExchangeInv
  <2>3. Acked' /\ Leased'
    BY AckedStep, LeasedStep
  <2> QED BY <2>1, <2>2, <2>3 DEF LeaseInv
<1> QED BY <1>1, LeaseInit, PTL DEF Spec

\* A registration that was acknowledged keeps its instance in the registry for
\* the TTL, however renewals, eviction, lists and given-up connections
\* interleave with the clock, which is read before the lock is taken
\* (MeshRegistry::register, evict_expired and request in src/mesh.rs).
THEOREM LeasesAreHonoured == Spec => []LeaseHonoured
<1>1. LeaseInv => LeaseHonoured
  <2> SUFFICES ASSUME LeaseInv, NEW i \in Instance \ unsettled, OneOwner(i), granted[i] # Never, now <= granted[i] + TTL
               PROVE  i \in Unexpired(now)
    BY DEF LeaseHonoured
  <2>1. records \in Snapshot /\ now \in Nat /\ granted[i] \in Nat /\ TTL \in Nat
    BY ConstantFacts DEF LeaseInv, ExchangeInv, TypeOK
  <2>2. Kept(i, granted[i])
    BY DEF LeaseInv, Leased, Settled
  <2>3. i \in DOMAIN records /\ records[i] \in Nat /\ records[i] >= granted[i]
    BY <2>1, <2>2, RecordFacts DEF Kept
  <2> QED BY <2>1, <2>3 DEF Unexpired, Expired
<1> QED BY <1>1, LeaseHolds, PTL

=============================================================================
