---------------------------- MODULE MeshRegistry ----------------------------
(***************************************************************************)
(* The control plane of the service mesh (src/mesh.rs): the TTL registry   *)
(* behind its RwLock, the TCP server with one handler task per connection  *)
(* and an eviction task, and the clients that register, renew, join and    *)
(* sync over a persistent connection.                                      *)
(*                                                                         *)
(* A ServiceRecord is its instance; the registry keeps for each one only   *)
(* registered_at.  Requests and replies carry the number of the request,   *)
(* which the program does not send: it lets the properties tell whose      *)
(* reply a client reads.                                                   *)
(***************************************************************************)
EXTENDS Naturals, Sequences, FiniteSets, FiniteSetsExt, SequencesExt, Functions

CONSTANTS
  Client,     \* users of MeshRegistryClient, each with its own local mesh
  Instance,   \* the (service, instance_id) keys
  Uses,       \* Uses[c]: the <<operation, instance>> pairs that client c calls
  TTL,        \* record TTL, in seconds
  MaxReply,   \* records that fit in one control frame
  MaxTime,    \* bound on the clock
  MaxConns,   \* MaxConns[c]: bound on the connections of client c
  MaxCalls    \* MaxCalls[c]: bound on the requests of client c

ASSUME RegistryAssumption ==
  /\ Uses \in [Client -> SUBSET ({"register", "join", "list"} \X Instance)]
  /\ TTL \in Nat /\ MaxReply \in Nat /\ MaxTime \in Nat
  /\ MaxConns \in [Client -> Nat \ {0}] /\ MaxCalls \in [Client -> Nat \ {0}]

VARIABLES
  now,        \* unix_now()
  records,    \* MeshRegistry::records: instance -> registered_at
  evicting,   \* the "now" the eviction task has read, or Never
  call,       \* the request each client is in, or Idle
  stream,     \* MeshRegistryClient::stream: a connection number, 0 is None
  opened,     \* number of connections each client has opened
  conn,       \* the connections of each client
  mesh,       \* the instances in each client's local ServiceMesh
  asked,      \* number of requests each client has made
  dropped,    \* a request future was dropped while using the current stream
  granted,    \* when the last acknowledged registration of an instance began
  unsettled   \* instances deregistered, or with a registration whose own
              \* reply its client never read

vars == <<now, records, evicting, call, stream, opened, conn, mesh,
          asked, dropped, granted, unsettled>>

clientVars == <<call, stream, opened, mesh, asked, dropped, granted, unsettled>>

Time == 0 .. MaxTime

Never == MaxTime + 1   \* a moment that has not come


\* MeshControlMsg, the part a client sends.  "torn" is what is left in the
\* stream by a write that was dropped half way.
Op == {"register", "join", "list"}

Requests == [op : Op \cup {"torn"}, inst : Instance, id : Nat \ {0}]

\* A reply is Pong or ListReply; the records of a list keep registered_at.
Snapshot == UNION {[S -> Time] : S \in SUBSET Instance}

NoRecords == [i \in {} |-> 0]

Replies == [kind : {"pong", "list"}, recs : Snapshot, id : Nat \ {0}]

\* The request a client is in: "write" and "read" are the awaits of
\* request() once it has a stream.
Idle == [phase |-> "idle"]

Call == [op : Op, inst : Instance, id : Nat \ {0}, at : Time,
         phase : {"write", "read"}]

NoJob == [op |-> "none"]

Conns == [open : BOOLEAN,             \* the client's end is open
          srv  : {"unused", "read", "apply", "closed"},
          job  : Requests \cup {NoJob}, \* the request being executed
          stamp : Time,               \* the "now" read for the job
          in   : Seq(Requests), out : Seq(Replies)]

Slot(c) == 1 .. MaxConns[c]

Unused == [open |-> FALSE, srv |-> "unused", job |-> NoJob, stamp |-> 0,
           in |-> <<>>, out |-> <<>>]

TypeOK ==
  /\ now \in Time
  /\ records \in Snapshot
  /\ evicting \in Time \cup {Never}
  /\ call \in [Client -> Call \cup {Idle}]
  /\ \A c \in Client :
       /\ stream[c] \in 0 .. opened[c]
       /\ opened[c] \in 0 .. MaxConns[c]
       /\ asked[c] \in 0 .. MaxCalls[c]
       /\ conn[c] \in [Slot(c) -> Conns]
  /\ mesh \in [Client -> SUBSET Instance]
  /\ dropped \in [Client -> BOOLEAN]
  /\ granted \in [Instance -> Time \cup {Never}]
  /\ unsettled \subseteq Instance

Init ==
  /\ now = 0
  /\ records = NoRecords
  /\ evicting = Never
  /\ call = [c \in Client |-> Idle]
  /\ stream = [c \in Client |-> 0]
  /\ opened = [c \in Client |-> 0]
  /\ conn = [c \in Client |-> [k \in Slot(c) |-> Unused]]
  /\ mesh = [c \in Client |-> {}]
  /\ asked = [c \in Client |-> 0]
  /\ dropped = [c \in Client |-> FALSE]
  /\ granted = [i \in Instance |-> Never]
  /\ unsettled = {}

-----------------------------------------------------------------------------
(* The registry                                                            *)

\* saturating_sub and a strict comparison: a record lives TTL full seconds.
Expired(stamp, at) == stamp + TTL < at

Unexpired(at) == {i \in DOMAIN records : ~Expired(records[i], at)}

\* Mutant: registered_at is kept as the client sent it.
Stored_as_sent(i, stamp) ==
  [j \in DOMAIN records \cup {i} |-> IF j = i THEN 0 ELSE records[j]]

Stored(i, stamp) ==
  [j \in DOMAIN records \cup {i} |-> IF j = i THEN stamp ELSE records[j]]

\* deregister: the owner of the server, through registry().
Deregister(i) ==
  /\ i \in DOMAIN records
  /\ records' = Restrict(records, DOMAIN records \ {i})
  /\ unsettled' = unsettled \cup {i}
  /\ UNCHANGED <<now, evicting, call, stream, opened, conn, mesh, asked,
                 dropped, granted>>

\* evict_expired reads the clock before it has the write lock.
EvictStart ==
  /\ evicting = Never
  /\ evicting' = now
  /\ UNCHANGED <<now, records, conn, clientVars>>

\* Mutant: the clock is read once, before the loop of the task.
EvictApply_one_now ==
  /\ evicting # Never
  /\ records' = Restrict(records, Unexpired(evicting))
  /\ UNCHANGED <<now, evicting, conn, clientVars>>

EvictApply ==
  /\ evicting # Never
  /\ records' = Restrict(records, Unexpired(evicting))
  /\ evicting' = Never
  /\ UNCHANGED <<now, conn, clientVars>>

Tick ==
  /\ now < MaxTime
  /\ now' = now + 1
  /\ UNCHANGED <<records, evicting, conn, clientVars>>

-----------------------------------------------------------------------------
(* The server's handler of one connection                                  *)

Closed(cn) == [cn EXCEPT !.srv = "closed", !.job = NoJob, !.stamp = 0, !.in = <<>>]

SetConn(c, k, cn) == conn' = [conn EXCEPT ![c][k] = cn]

\* The next frame is read and, for Register and List, the clock; the lock is
\* still to be taken.  A torn frame cannot be parsed and ends the handler.
ReadRequest(c, k) ==
  LET cn == conn[c][k] IN
  /\ cn.srv = "read" /\ cn.in # <<>>
  /\ SetConn(c, k, IF Head(cn.in).op = "torn" THEN Closed(cn)
                   ELSE [cn EXCEPT !.srv = "apply", !.job = Head(cn.in),
                                   !.stamp = now, !.in = Tail(@)])
  /\ UNCHANGED <<now, records, evicting, clientVars>>

\* Mutant: list does not filter.
Answer_unfiltered(cn) ==
  [kind |-> IF cn.job.op = "list" THEN "list" ELSE "pong",
   recs |-> IF cn.job.op = "list" THEN records ELSE NoRecords, id |-> cn.job.id]

Answer(cn) ==
  IF cn.job.op = "list"
  THEN [kind |-> "list", recs |-> Restrict(records, Unexpired(cn.stamp)), id |-> cn.job.id]
  ELSE [kind |-> "pong", recs |-> NoRecords, id |-> cn.job.id]

\* write_control refuses a frame that is too large.
TooLarge(reply) == Cardinality(DOMAIN reply.recs) > MaxReply

Answered(cn) == [cn EXCEPT !.srv = "read", !.job = NoJob, !.stamp = 0,
                           !.out = IF cn.open THEN Append(@, Answer(cn)) ELSE @]

\* With the lock: the record is inserted or the list is read, then the reply
\* is written.  The write to a client that has gone may still succeed.
Execute(c, k) ==
  LET cn == conn[c][k] IN
  /\ cn.srv = "apply"
  /\ records' = IF cn.job.op = "list" THEN records ELSE Stored(cn.job.inst, cn.stamp)
  /\ \/ ~TooLarge(Answer(cn)) /\ SetConn(c, k, Answered(cn))
     \/ (TooLarge(Answer(cn)) \/ ~cn.open) /\ SetConn(c, k, Closed(cn))
  /\ UNCHANGED <<now, evicting, clientVars>>

\* The handler ends between frames: end of file, a read error after the
\* client has gone (unread frames are lost), or nothing to read for
\* CONTROL_READ_TIMEOUT.  A network failure is Fails for the client and, in
\* whatever order, HandlerEnds for the server.
HandlerEnds(c, k) ==
  LET cn == conn[c][k] IN
  /\ cn.srv = "read"
  /\ ~cn.open \/ cn.in = <<>>
  /\ SetConn(c, k, Closed(cn))
  /\ UNCHANGED <<now, records, evicting, clientVars>>

Server(c, k) == ReadRequest(c, k) \/ Execute(c, k) \/ HandlerEnds(c, k)

-----------------------------------------------------------------------------
(* The client: one request at a time over its stream                       *)

InPhase(c, p) == call[c].phase = p

\* Whether a call reaches the registry: conn() uses an existing stream as it
\* is, or opens one.
Connect(c) ==
  \/ /\ stream[c] # 0
     /\ UNCHANGED <<stream, opened, conn, dropped>>
  \/ /\ stream[c] = 0 /\ opened[c] < MaxConns[c]
     /\ opened' = [opened EXCEPT ![c] = @ + 1]
     /\ stream' = [stream EXCEPT ![c] = opened[c] + 1]
     /\ dropped' = [dropped EXCEPT ![c] = FALSE]
     /\ SetConn(c, opened[c] + 1, [Unused EXCEPT !.open = TRUE, !.srv = "read"])

\* register or renew, list (sync_mesh), or join_mesh, which enters the
\* instance in the local mesh before it opens a client of its own.
StartCall(c, op, i) ==
  /\ InPhase(c, "idle") /\ asked[c] < MaxCalls[c]
  /\ op = "join" => stream[c] = 0
  /\ asked' = [asked EXCEPT ![c] = @ + 1]
  /\ mesh' = [mesh EXCEPT ![c] = IF op = "join" THEN @ \cup {i} ELSE @]
  /\ \/ /\ Connect(c)
        /\ call' = [call EXCEPT ![c] = [op |-> op, inst |-> i, id |-> asked[c] + 1,
                                        at |-> now, phase |-> "write"]]
     \/ /\ stream[c] = 0   \* connecting fails
        /\ UNCHANGED <<call, stream, opened, conn, dropped>>
  /\ UNCHANGED <<now, records, evicting, granted, unsettled>>

\* The client's end of a connection is closed: what it has not read is lost.
Abandoned(cn) == [cn EXCEPT !.open = FALSE, !.out = <<>>]

CloseStream(c) ==
  /\ stream' = [stream EXCEPT ![c] = 0]
  /\ conn' = [conn EXCEPT ![c][stream[c]] = Abandoned(@)]

\* What the client leaves behind when it stops waiting for a request.
Unsettle(c) ==
  unsettled' = unsettled \cup (IF call[c].op = "list" THEN {} ELSE {call[c].inst})

\* Mutant: a failed request does not invalidate the stream.
Fails_keep_stream(c) ==
  /\ ~InPhase(c, "idle")
  /\ call' = [call EXCEPT ![c] = Idle]
  /\ Unsettle(c)
  /\ UNCHANGED <<now, records, evicting, stream, opened, conn, mesh, asked,
                 dropped, granted>>

\* request() failed to write or to read (end of file, error,
\* CONTROL_READ_TIMEOUT), at any time.  The stream is invalidated.
Fails(c) ==
  /\ ~InPhase(c, "idle")
  /\ call' = [call EXCEPT ![c] = Idle]
  /\ CloseStream(c)
  /\ Unsettle(c)
  /\ UNCHANGED <<now, records, evicting, opened, mesh, asked, dropped, granted>>

ToServer(c, req) == conn' = [conn EXCEPT ![c][stream[c]].in = Append(@, req)]

Frame(c, op) == [op |-> op, inst |-> call[c].inst, id |-> call[c].id]

Write(c) ==
  /\ InPhase(c, "write")
  /\ ToServer(c, Frame(c, call[c].op))
  /\ call' = [call EXCEPT ![c].phase = "read"]
  /\ UNCHANGED <<now, records, evicting, stream, opened, mesh, asked, dropped,
                 granted, unsettled>>

\* The user drops the request future (a timeout of its own, a select).  The
\* stream stays, with whatever was written and whatever will be answered.
\* join_mesh owns its client, so the stream goes with it.
DropCall(c) ==
  /\ ~InPhase(c, "idle")
  /\ call' = [call EXCEPT ![c] = Idle]
  /\ dropped' = [dropped EXCEPT ![c] = TRUE]
  /\ Unsettle(c)
  /\ \/ call[c].op = "join" /\ CloseStream(c)
     \/ call[c].op # "join" /\ UNCHANGED <<stream, conn>>
     \/ /\ call[c].op # "join" /\ call[c].phase = "write"
        /\ ToServer(c, Frame(c, "torn"))
        /\ UNCHANGED stream
  /\ UNCHANGED <<now, records, evicting, opened, mesh, asked, granted>>

\* The reply is of the kind the caller expects.
Expected(c, reply) == (reply.kind = "list") = (call[c].op = "list")

\* A reply arrives, on a stream where a request was dropped perhaps not the
\* one to this request.  One of the wrong kind is an error of the caller only:
\* the stream is kept.  A list replaces the local mesh (apply_snapshot_diff).
Return(c) ==
  /\ InPhase(c, "read")
  /\ conn[c][stream[c]].out # <<>>
  /\ LET k == stream[c]
         reply == Head(conn[c][k].out)
         ok == Expected(c, reply)
         own == reply.id = call[c].id
     IN
     /\ mesh' = [mesh EXCEPT ![c] = IF ok /\ reply.kind = "list" THEN DOMAIN reply.recs ELSE @]
     /\ granted' = IF reply.kind = "pong" /\ ok /\ own
                   THEN [granted EXCEPT ![call[c].inst] = call[c].at] ELSE granted
     /\ IF own THEN UNCHANGED unsettled ELSE Unsettle(c)
     /\ \/ call[c].op = "join" /\ CloseStream(c)
        \/ /\ call[c].op # "join"
           /\ conn' = [conn EXCEPT ![c][k].out = Tail(@)]
           /\ UNCHANGED stream
  /\ call' = [call EXCEPT ![c] = Idle]
  /\ UNCHANGED <<now, records, evicting, opened, asked, dropped>>

User(c) == (\E u \in Uses[c] : StartCall(c, u[1], u[2])) \/ DropCall(c)

ClientStep(c) == Write(c) \/ Return(c) \/ Fails(c)

Next ==
  \/ Tick \/ EvictStart \/ EvictApply
  \/ \E i \in Instance : Deregister(i)
  \/ \E c \in Client : User(c) \/ ClientStep(c)
  \/ \E c \in Client : \E k \in Slot(c) : Server(c, k)

Spec == Init /\ [][Next]_vars

\* The eviction task is driven by a timer.  Users, the network and the clock
\* owe nothing, and no property here needs the handlers or the clients.
FairSpec == Spec /\ WF_vars(EvictStart) /\ WF_vars(EvictApply)

-----------------------------------------------------------------------------
(* Properties                                                              *)

Pick(cn) == IF cn.job = NoJob THEN <<>> ELSE <<cn.job.id>>

\* The numbers of the requests whose replies a connection still owes, in order.
Owed(cn) == [n \in DOMAIN cn.out |-> cn.out[n].id] \o Pick(cn)
            \o [n \in DOMAIN cn.in |-> cn.in[n].id]

\* A client that never dropped a request while it used its present stream
\* reads its own reply: nothing else is in the stream, because every failure
\* of request() invalidates it.
OwnReply ==
  \A c \in Client :
    stream[c] # 0 /\ ~dropped[c] =>
      LET owed == Owed(conn[c][stream[c]]) IN
        owed # <<>> => InPhase(c, "read") /\ owed = <<call[c].id>>

Registers(c, i) == <<"register", i>> \in Uses[c] \/ <<"join", i>> \in Uses[c]

OneOwner(i) == \A c, d \in Client : Registers(c, i) /\ Registers(d, i) => c = d

\* A registration that was acknowledged keeps the instance in the registry
\* for TTL seconds from the moment the call was made, however eviction,
\* other clients and the clock interleave -- provided one client owns the
\* instance, it is not deregistered, and the client read the reply of every
\* registration of it: one that it gave up on, or for which it took the reply
\* of an earlier request, the server may still execute at any later time.
LeaseHonoured ==
  \A i \in Instance \ unsettled :
    OneOwner(i) /\ granted[i] # Never /\ now <= granted[i] + TTL =>
      i \in Unexpired(now)

\* The list that a client is about to apply to its mesh holds no instance
\* whose lease had ended when sync began, unless a dropped request has put
\* the stream behind.
ListIsCurrent ==
  \A c \in Client :
    /\ InPhase(c, "read") /\ call[c].op = "list" /\ ~dropped[c]
    /\ conn[c][stream[c]].out # <<>>
    => LET recs == Head(conn[c][stream[c]].out).recs IN
         \A i \in DOMAIN recs : ~Expired(recs[i], call[c].at)

\* A record that is not renewed is evicted.
ExpiredLeaves ==
  \A i \in Instance :
    (i \in DOMAIN records /\ i \notin Unexpired(now)) ~>
      (i \notin DOMAIN records \/ i \in Unexpired(now))

=============================================================================
