--------------------------- MODULE RemoteDelivery ---------------------------
(***************************************************************************)
(* One RemoteActorRef and the node it sends to (src/distributed.rs): the   *)
(* ref's queue and its remote_write_loop, the TCP connections that loop    *)
(* opens one after another, one handle_conn per connection, one dispatch   *)
(* task per frame under the node's semaphore, the bridge of serve_actor    *)
(* and the mailbox of the served actor.                                    *)
(*                                                                         *)
(* A message is its place in the order in which send() accepted it. Frames *)
(* are written and read whole: half a frame is lost with its connection.   *)
(* TLS and the wire format are left out; only whether a frame is too large *)
(* for the writer or refused by the reader is kept.                        *)
(***************************************************************************)
EXTENDS Naturals, Sequences, FiniteSets, SequencesExt

CONSTANTS
    N,            \* the number of messages clients send
    SendCap,      \* DistributedConfig::remote_send_capacity
    InFlightLimits, \* the values of DistributedConfig::max_in_flight to consider
    BridgeCap,    \* DistributedConfig::bridge_capacity
    Cap,          \* ActorConfig::mailbox_capacity
    MaxBad,       \* how many messages may be too large or unreadable
    MaxFaults     \* how many connections may time out or break

ASSUME ConstantsAssumption ==
    /\ N \in Nat
    /\ {SendCap, BridgeCap, Cap} \cup InFlightLimits \subseteq Nat \ {0}
    /\ MaxBad \in Nat
    /\ MaxFaults \in Nat

Msg == 1..N
Bad == {"oversized", "malformed"}
\* Every connection but the first replaces one that ended by a fault or a bad message.
Conn == 1..(1 + MaxBad + MaxFaults)
NONE == 0

VARIABLES
    sent,      \* messages accepted by send(): 1..sent
    kind,      \* what the codec makes of each message
    refs,      \* some clone of the RemoteActorRef is alive
    queue,     \* the mpsc channel of the PeerWriter
    wpc,       \* where remote_write_loop is
    wmsg,      \* the message it is writing
    conn,      \* its current connection, NONE before the first
    wire,      \* frames written to each connection and not read
    link,      \* the state of each connection, seen from the writer
    hpc,       \* where the handle_conn of each connection is
    hmsg,      \* the frame it has read and not dispatched
    limit,     \* max_in_flight of this node
    task,      \* where the dispatch task of each frame is
    table,     \* the dispatch entry of the target
    bridge,    \* the channel behind that entry
    bpc,       \* where the bridge task is
    bmsg,      \* the message it is passing on
    mailbox,   \* the served actor's mailbox
    actorUp,   \* the served actor runs
    faults,    \* connections timed out or broken so far
    \* history variables
    via,       \* the connection each message was written to
    handled,   \* the messages handled, in order
    lost       \* the messages that will never be handled

sender  == <<sent, kind, refs>>
writer  == <<queue, wpc, wmsg, conn, via>>
network == <<wire, link>>
node    == <<hpc, hmsg, limit, task, table>>
served  == <<bridge, bpc, bmsg, mailbox, actorUp, handled>>
vars == <<sender, writer, network, node, served, faults, lost>>

Held(m) == IF m = NONE THEN {} ELSE {m}

Init ==
    /\ sent = 0
    /\ kind = [m \in Msg |-> "ok"]
    /\ refs = TRUE
    /\ queue = <<>>
    /\ wpc = "connect"
    /\ wmsg = NONE
    /\ conn = NONE
    /\ wire = [c \in Conn |-> <<>>]
    /\ link = [c \in Conn |-> "none"]
    /\ hpc = [c \in Conn |-> "none"]
    /\ hmsg = [c \in Conn |-> NONE]
    /\ limit \in InFlightLimits
    /\ task = [m \in Msg |-> "none"]
    /\ table = "unregistered"
    /\ bridge = <<>>
    /\ bpc = "run"
    /\ bmsg = NONE
    /\ mailbox = <<>>
    /\ actorUp = TRUE
    /\ faults = 0
    /\ via = [m \in Msg |-> NONE]
    /\ handled = <<>>
    /\ lost = {}

-----------------------------------------------------------------------------
(* RemoteActorRef.                                                          *)

\* send(): waits while the queue is full, fails once the writer has returned.
Send(k) ==
    /\ refs /\ wpc # "done"
    /\ sent < N
    /\ Len(queue) < SendCap
    /\ k \in Bad => Cardinality({m \in Msg : kind[m] \in Bad}) < MaxBad
    /\ sent' = sent + 1
    /\ kind' = [kind EXCEPT ![sent + 1] = k]
    /\ queue' = Append(queue, sent + 1)
    /\ UNCHANGED <<refs, wpc, wmsg, conn, via, network, node, served, faults, lost>>

\* The last clone goes away, and the only sender of the queue with it.
DropRefs ==
    /\ refs
    /\ refs' = FALSE
    /\ UNCHANGED <<sent, kind, writer, network, node, served, faults, lost>>

-----------------------------------------------------------------------------
(* remote_write_loop.                                                       *)

\* The listener accepts the connection and spawns its handle_conn.
Accept(c) == hpc' = [hpc EXCEPT ![c] = "read"]

\* tls::connect succeeded.
Connect ==
    /\ wpc = "connect"
    /\ conn + 1 \in Conn
    /\ conn' = conn + 1
    /\ link' = [link EXCEPT ![conn + 1] = "open"]
    /\ Accept(conn + 1)
    /\ wpc' = "recv"
    /\ UNCHANGED <<sender, queue, wmsg, via, wire, hmsg, limit, task, table, served, faults, lost>>

ConnectErr ==
    /\ wpc = "connect"
    /\ wpc' = "sleep"
    /\ UNCHANGED <<sender, queue, wmsg, conn, via, network, node, served, faults, lost>>

\* RECONNECT_DELAY is over. Without a sender the loop returns and what is still
\* queued is dropped with the receiver; otherwise it connects again.
Retry ==
    /\ wpc = "sleep"
    /\ \/ refs /\ wpc' = "connect" /\ UNCHANGED <<queue, lost>>
       \/ ~refs /\ wpc' = "done" /\ queue' = <<>> /\ lost' = lost \cup ToSet(queue)
    /\ UNCHANGED <<sender, wmsg, conn, via, network, node, served, faults>>

\* Mutant: the message stays in the queue until it is written.
Recv_peek ==
    /\ wpc = "recv"
    /\ queue # <<>>
    /\ wmsg' = Head(queue)
    /\ wpc' = "write"
    /\ UNCHANGED <<sender, queue, conn, via, network, node, served, faults, lost>>

\* rx.recv() returned a message.
Recv ==
    /\ wpc = "recv"
    /\ queue # <<>>
    /\ wmsg' = Head(queue)
    /\ queue' = Tail(queue)
    /\ wpc' = "write"
    /\ UNCHANGED <<sender, conn, via, network, node, served, faults, lost>>

\* The stream is dropped; the peer can still read what was written.
CloseStream ==
    link' = [link EXCEPT ![conn] = IF @ = "open" THEN "shut" ELSE @]

\* Mutant: the loop returns as soon as the refs are gone.
RecvNone_undrained ==
    /\ wpc = "recv"
    /\ ~refs
    /\ wpc' = "done" /\ queue' = <<>> /\ lost' = lost \cup ToSet(queue)
    /\ CloseStream
    /\ UNCHANGED <<sender, wmsg, conn, via, wire, node, served, faults>>

\* rx.recv() returned None, which it does once the refs are gone and the queue
\* is drained; the stream is dropped.
RecvNone ==
    /\ wpc = "recv"
    /\ queue = <<>> /\ ~refs
    /\ wpc' = "done"
    /\ CloseStream
    /\ UNCHANGED <<sender, queue, wmsg, conn, via, wire, node, served, faults, lost>>

\* write_frame ended, well or not; the message is gone from the loop either way.
Written(next) ==
    /\ wpc = "write"
    /\ wpc' = next
    /\ wmsg' = NONE
    /\ UNCHANGED <<sender, queue, conn, node, served, faults>>

\* Nothing written to the connection arrives any more: the node has closed its
\* end, or the network has broken it.
Dead(c) == hpc[c] = "closed" \/ link[c] = "broken"

\* The frame reaches the peer's receive buffer; on a dead connection the write may
\* still succeed, into nothing.
WriteOk ==
    /\ Written("recv")
    /\ kind[wmsg] # "oversized"
    /\ via' = [via EXCEPT ![wmsg] = conn]
    /\ \/ ~Dead(conn) /\ wire' = [wire EXCEPT ![conn] = Append(@, wmsg)] /\ UNCHANGED lost
       \/ Dead(conn) /\ lost' = lost \cup {wmsg} /\ UNCHANGED wire
    /\ UNCHANGED link

\* write_frame failed: the frame is larger than max_frame_bytes, or the
\* connection is dead. The loop drops the stream and reconnects.
WriteErr ==
    /\ Written("connect")
    /\ kind[wmsg] = "oversized" \/ Dead(conn)
    /\ CloseStream
    /\ lost' = lost \cup {wmsg}
    /\ UNCHANGED <<via, wire>>

-----------------------------------------------------------------------------
(* handle_conn.                                                             *)

\* handle_conn returns: its end is closed and what was not read is lost.
Hangup(c) ==
    /\ hpc[c] = "read"
    /\ hpc' = [hpc EXCEPT ![c] = "closed"]
    /\ wire' = [wire EXCEPT ![c] = <<>>]
    /\ lost' = lost \cup ToSet(wire[c])
    /\ UNCHANGED <<sender, writer, link, hmsg, limit, task, table, served>>

\* A frame was read and both its envelope and its payload were parsed.
ReadFrame(c) ==
    /\ hpc[c] = "read"
    /\ wire[c] # <<>> /\ kind[Head(wire[c])] # "malformed"
    /\ hmsg' = [hmsg EXCEPT ![c] = Head(wire[c])]
    /\ wire' = [wire EXCEPT ![c] = Tail(@)]
    /\ hpc' = [hpc EXCEPT ![c] = "permit"]
    /\ UNCHANGED <<sender, writer, link, limit, task, table, served, faults, lost>>

\* The length exceeds this node's max_frame_bytes, or the JSON is not a Frame or
\* not an M: the whole connection ends.
ReadErr(c) ==
    /\ Hangup(c)
    /\ wire[c] # <<>> /\ kind[Head(wire[c])] = "malformed"
    /\ UNCHANGED faults

\* The stream has ended, by the writer or by the network.
ReadEof(c) ==
    /\ Hangup(c)
    /\ wire[c] = <<>> /\ link[c] # "open"
    /\ UNCHANGED faults

\* read_timeout passed without a frame.
ReadTimeout(c) ==
    /\ Hangup(c)
    /\ wire[c] = <<>> /\ link[c] = "open"
    /\ faults < MaxFaults /\ faults' = faults + 1

\* The network breaks the connection with what is on it; a frame that was already
\* read is still dispatched.
Break(c) ==
    /\ link[c] = "open" /\ hpc[c] # "closed"
    /\ faults < MaxFaults /\ faults' = faults + 1
    /\ link' = [link EXCEPT ![c] = "broken"]
    /\ wire' = [wire EXCEPT ![c] = <<>>]
    /\ lost' = lost \cup ToSet(wire[c])
    /\ UNCHANGED <<sender, writer, node, served>>

\* The dispatch tasks; each holds a permit of the node's semaphore until it ends.
InFlight == {m \in Msg : task[m] # "none"}

\* Mutant: the permit is given back before the send.
PermitFree_until_lookup == Cardinality({m \in Msg : task[m] = "lookup"}) < limit

PermitFree == Cardinality(InFlight) < limit

\* A permit is acquired and the dispatch task spawned.
SpawnDispatch(c) ==
    /\ hpc[c] = "permit"
    /\ PermitFree
    /\ task' = [task EXCEPT ![hmsg[c]] = "lookup"]
    /\ hmsg' = [hmsg EXCEPT ![c] = NONE]
    /\ hpc' = [hpc EXCEPT ![c] = "read"]
    /\ UNCHANGED <<sender, writer, network, limit, table, served, faults, lost>>

\* Mutant: the task of a frame without target never ends.
Lookup_leak(m) ==
    /\ task[m] = "lookup"
    /\ table = "registered"
    /\ task' = [task EXCEPT ![m] = "send"]
    /\ UNCHANGED <<sender, writer, network, hpc, hmsg, limit, table, served, faults, lost>>

\* The dispatch table is read under its lock; the sender is cloned out of it.
Lookup(m) ==
    /\ task[m] = "lookup"
    /\ \/ /\ table = "registered"
          /\ task' = [task EXCEPT ![m] = "send"]
          /\ UNCHANGED lost
       \/ /\ table # "registered"
          /\ task' = [task EXCEPT ![m] = "none"]
          /\ lost' = lost \cup {m}
    /\ UNCHANGED <<sender, writer, network, hpc, hmsg, limit, table, served, faults>>

\* tx.send(msg): waits while the bridge channel is full, fails when the bridge
\* has ended; the task ends and its permit is released.
Dispatch(m) ==
    /\ task[m] = "send"
    /\ task' = [task EXCEPT ![m] = "none"]
    /\ \/ /\ bpc # "done"
          /\ Len(bridge) < BridgeCap
          /\ bridge' = Append(bridge, m)
          /\ UNCHANGED lost
       \/ /\ bpc = "done"
          /\ lost' = lost \cup {m}
          /\ UNCHANGED bridge
    /\ UNCHANGED <<sender, writer, network, hpc, hmsg, limit, table, bpc, bmsg, mailbox, actorUp,
                   handled, faults>>

-----------------------------------------------------------------------------
(* Node::register and unregister, and the bridge of serve_actor.            *)

\* serve_actor registers the target after the listener is bound.
Register ==
    /\ table = "unregistered"
    /\ table' = "registered"
    /\ UNCHANGED <<sender, writer, network, hpc, hmsg, limit, task, served, faults, lost>>

Unregister ==
    /\ table = "registered"
    /\ table' = "removed"
    /\ UNCHANGED <<sender, writer, network, hpc, hmsg, limit, task, served, faults, lost>>

BridgeRecv ==
    /\ bpc = "run"
    /\ bridge # <<>>
    /\ bmsg' = Head(bridge)
    /\ bridge' = Tail(bridge)
    /\ bpc' = "send"
    /\ UNCHANGED <<sender, writer, network, node, mailbox, actorUp, handled, faults, lost>>

\* actor_ref.send: waits while the mailbox is full.
BridgeSend ==
    /\ bpc = "send"
    /\ actorUp
    /\ Len(mailbox) < Cap
    /\ mailbox' = Append(mailbox, bmsg)
    /\ bmsg' = NONE
    /\ bpc' = "run"
    /\ UNCHANGED <<sender, writer, network, node, bridge, actorUp, handled, faults, lost>>

\* The bridge ends, and its receiver goes with what it holds.
BridgeEnds ==
    /\ bpc' = "done"
    /\ bridge' = <<>>
    /\ bmsg' = NONE
    /\ lost' = lost \cup ToSet(bridge) \cup Held(bmsg)
    /\ UNCHANGED <<sender, writer, network, node, mailbox, actorUp, handled, faults>>

\* The mailbox is closed: the bridge breaks out of its loop.
BridgeSendErr ==
    /\ bpc = "send"
    /\ ~actorUp
    /\ BridgeEnds

\* rx.recv() returned None: the entry is gone, no task holds a clone of the
\* sender and the channel is drained.
BridgeClosed ==
    /\ bpc = "run"
    /\ bridge = <<>>
    /\ table = "removed"
    /\ \A m \in Msg : task[m] # "send"
    /\ BridgeEnds

\* The served actor takes and handles its next message.
Handle ==
    /\ actorUp
    /\ mailbox # <<>>
    /\ handled' = Append(handled, Head(mailbox))
    /\ mailbox' = Tail(mailbox)
    /\ UNCHANGED <<sender, writer, network, node, bridge, bpc, bmsg, actorUp, faults, lost>>

\* The served actor ends: pre_start or handle failed, or it was stopped.
ActorExit ==
    /\ actorUp
    /\ actorUp' = FALSE
    /\ mailbox' = <<>>
    /\ lost' = lost \cup ToSet(mailbox)
    /\ UNCHANGED <<sender, writer, network, node, bridge, bpc, bmsg, handled, faults>>

-----------------------------------------------------------------------------
WriteLoop == Connect \/ Retry \/ Recv \/ RecvNone \/ WriteOk \/ WriteErr
HandleConn(c) == ReadFrame(c) \/ ReadErr(c) \/ ReadEof(c) \/ SpawnDispatch(c)
DispatchTask(m) == Lookup(m) \/ Dispatch(m)
Bridge == BridgeRecv \/ BridgeSend \/ BridgeSendErr \/ BridgeClosed

Next ==
    \/ \E k \in {"ok"} \cup Bad : Send(k)
    \/ DropRefs
    \/ WriteLoop \/ ConnectErr
    \/ \E c \in Conn : HandleConn(c) \/ ReadTimeout(c) \/ Break(c)
    \/ \E m \in Msg : DispatchTask(m)
    \/ Register \/ Unregister
    \/ Bridge \/ Handle \/ ActorExit

Spec == Init /\ [][Next]_vars

\* Woken tasks are polled again and handlers return. The node is reachable again
\* and again, so a loop that keeps retrying connects in the end.
Fairness ==
    /\ WF_vars(WriteLoop) /\ SF_vars(Connect)
    /\ \A c \in Conn : WF_vars(HandleConn(c))
    /\ \A m \in Msg : WF_vars(DispatchTask(m))
    /\ WF_vars(Bridge) /\ WF_vars(Handle)

FairSpec == Spec /\ Fairness

-----------------------------------------------------------------------------
(* Properties.                                                              *)

\* Every variable stays in its type; no channel exceeds its capacity.
TypeOK ==
    /\ sent \in 0..N
    /\ kind \in [Msg -> {"ok"} \cup Bad]
    /\ refs \in BOOLEAN
    /\ queue \in Seq(Msg) /\ Len(queue) <= SendCap
    /\ wpc \in {"connect", "sleep", "recv", "write", "done"}
    /\ wmsg \in Msg \cup {NONE}
    /\ conn \in Conn \cup {NONE}
    /\ wire \in [Conn -> Seq(Msg)]
    /\ link \in [Conn -> {"none", "open", "shut", "broken"}]
    /\ hpc \in [Conn -> {"none", "read", "permit", "closed"}]
    /\ hmsg \in [Conn -> Msg \cup {NONE}]
    /\ limit \in InFlightLimits
    /\ task \in [Msg -> {"none", "lookup", "send"}]
    /\ table \in {"unregistered", "registered", "removed"}
    /\ bridge \in Seq(Msg) /\ Len(bridge) <= BridgeCap
    /\ bpc \in {"run", "send", "done"}
    /\ bmsg \in Msg \cup {NONE}
    /\ mailbox \in Seq(Msg) /\ Len(mailbox) <= Cap
    /\ actorUp \in BOOLEAN
    /\ faults \in 0..MaxFaults
    /\ via \in [Msg -> Conn \cup {NONE}]
    /\ handled \in Seq(Msg)
    /\ lost \subseteq Msg

\* The places a message can be in; a connection has a place on the wire and one
\* in its handle_conn.
Place ==
    ({"queue", "writer", "task", "bridge", "passing", "mailbox", "handled", "lost"} \X {NONE})
    \cup ({"wire", "read"} \X Conn)

At(p) ==
    CASE p[1] = "queue"   -> ToSet(queue)
      [] p[1] = "writer"  -> Held(wmsg)
      [] p[1] = "wire"    -> ToSet(wire[p[2]])
      [] p[1] = "read"    -> Held(hmsg[p[2]])
      [] p[1] = "task"    -> InFlight
      [] p[1] = "bridge"  -> ToSet(bridge)
      [] p[1] = "passing" -> Held(bmsg)
      [] p[1] = "mailbox" -> ToSet(mailbox)
      [] p[1] = "handled" -> ToSet(handled)
      [] p[1] = "lost"    -> lost

Where(m) == {p \in Place : m \in At(p)}

\* At most once, and nothing unaccounted for: over reconnects, hangups and
\* concurrent dispatch tasks every accepted message is in exactly one place; in
\* particular none is handled twice, or handled after it was given up.
ExactlyOnePlace ==
    /\ \A m \in Msg : IF m <= sent THEN \E p \in Place : Where(m) = {p} ELSE Where(m) = {}
    /\ \A s \in {queue, bridge, mailbox, handled} \cup {wire[c] : c \in Conn} : IsInjective(s)

\* With max_in_flight 1 the permit is held until the bridge channel has the
\* message, so messages written to one connection are handled in the order in
\* which they were sent, whatever other connections of the ref still deliver.
FifoPerConnection ==
    limit = 1 =>
    \A i, j \in DOMAIN handled :
        i < j /\ via[handled[i]] = via[handled[j]] => handled[i] < handled[j]

\* A message is only lost to a cause outside the healthy path: it is itself too
\* large, its connection had been closed by the node's end, its target was not
\* in the table, the actor or its bridge had ended, or nobody held the ref while
\* the node was unreachable. Dropping the refs or replacing a connection after a
\* refused frame costs no other message.
LossHasCause ==
    [][\A m \in lost' \ lost :
         \/ kind[m] = "oversized"
         \/ \E c \in Conn : via[m] = c /\ Dead(c)'
         \/ m = wmsg /\ Dead(conn)
         \/ m \in InFlight /\ table # "registered"
         \/ ~actorUp' \/ bpc = "done"
         \/ wpc = "sleep" /\ ~refs]_vars

\* Nothing is stuck: every accepted message is handled or lost in the end. No
\* permit, bridge slot or connection is held for ever by a frame that has no
\* target, by a dead actor or by a connection the writer has left.
EventuallySettled ==
    \A m \in Msg : m <= sent ~> m \in lost \/ Contains(handled, m)
=============================================================================
