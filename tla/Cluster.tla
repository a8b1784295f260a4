------------------------------ MODULE Cluster -------------------------------
(***************************************************************************)
(* The roster of remote actors of src/distributed.rs (Cluster), its        *)
(* consistent-hash ring (src/hash_ring.rs) and the operations ServiceMesh  *)
(* of src/mesh.rs performs on the cluster of one service: register,        *)
(* deregister and apply_snapshot_diff.                                     *)
(*                                                                         *)
(* All of them take `&mut self', so an operation runs alone; one that      *)
(* loops over several members is a sequence of steps here (`pc' says       *)
(* which), and what callers may rely on is stated for the states in which  *)
(* no operation is under way. Hashes are small numbers chosen by the       *)
(* instance: the ring only compares them. A RemoteActorRef is the address  *)
(* it writes to.                                                           *)
(***************************************************************************)
EXTENDS Naturals, Sequences, FiniteSets, SequencesExt

CONSTANTS
    Name,        \* ClusterMember::name, ServiceRecord::instance_id
    Addr,        \* node_addr
    BadAddr,     \* those RingNode::from_socket_addr panics on
    VNode,       \* [Name -> SUBSET Nat]: the hashes of "{name}:vnode:{i}"
    Key,         \* the keys callers route by
    KeyHash,     \* [Key -> Nat]
    Owners,      \* who owns the cluster: "client" code, or a "mesh" route
    Duplicates,  \* client code may join a name that is already in the roster
    Word,        \* usize::MAX + 1, for the round-robin counter
    MaxOps       \* bound: [Owners -> Nat], operations

ASSUME ConstantsAssumption ==
    /\ BadAddr \subseteq Addr
    /\ VNode \in [Name -> SUBSET Nat]
    /\ KeyHash \in [Key -> Nat]
    /\ Owners \subseteq {"client", "mesh"}
    /\ Duplicates \in BOOLEAN
    /\ Word \in Nat \ {0}
    /\ MaxOps \in [Owners -> Nat]

Member == [name : Name, addr : Addr]

VARIABLES
    nodes,       \* HashRing::nodes: the ids on the ring
    ring,        \* HashRing::ring: hash -> id
    members,     \* Cluster::members
    refs,        \* Cluster::refs
    refs_by_id,  \* name -> index
    next,        \* the round-robin counter
    owner,       \* a member of Owners
    route,       \* the mesh has a route for the service
    pc,          \* the step of the operation under way
    stale_ids,   \* apply_snapshot_diff: names still to drop
    incoming,    \* records still to register
    record,      \* the record being registered
    ops,         \* operations so far
    \* history variable: read by properties only
    applied      \* the snapshot the roster was last replaced by, or {}

hashRing == <<nodes, ring>>
roster   == <<members, refs, refs_by_id>>
control  == <<owner, route, pc, stale_ids, incoming, record, ops>>
vars == <<hashRing, roster, next, control, applied>>

Names == {members[i].name : i \in DOMAIN members}
NoRecord == [name |-> "none", addr |-> "none"]

Init ==
    /\ nodes = {} /\ ring = <<>>
    /\ members = <<>> /\ refs = <<>> /\ refs_by_id = <<>>
    /\ next = 0
    /\ owner \in Owners
    /\ route = FALSE
    /\ pc = "idle" /\ stale_ids = {} /\ incoming = {} /\ record = NoRecord
    /\ ops = 0
    /\ applied = {}

-----------------------------------------------------------------------------
(* HashRing.                                                                *)

\* A hash that is already taken changes hands: the virtual node there is lost.
AddNode(n) ==
    /\ nodes' = nodes \cup {n}
    /\ ring' = [h \in DOMAIN ring \cup VNode[n] |-> IF h \in VNode[n] THEN n ELSE ring[h]]

\* The hashes of n are removed whoever holds them by now.
RemoveNode(n) ==
    /\ nodes' = nodes \ {n}
    /\ ring' = [h \in DOMAIN ring \ VNode[n] |-> ring[h]]

\* Mutant: the hash modulo the number of entries picks the entry.
Successor_modulo(r, h) ==
    r[CHOOSE x \in DOMAIN r : Cardinality({y \in DOMAIN r : y < x}) = h % Cardinality(DOMAIN r)]

\* range(hash..).next(), or the first entry.
Successor(r, h) ==
    LET above == {x \in DOMAIN r : x >= h} IN r[Min(IF above # {} THEN above ELSE DOMAIN r)]

\* get_node: at most one id.
GetNode(k) == IF DOMAIN ring = {} THEN {} ELSE {Successor(ring, KeyHash[k])} \cap nodes

\* The ids at the hashes of S, in ascending order of the hashes (BTreeMap::range).
Ascending(S) ==
    [i \in 1 .. Cardinality(S) |->
        ring[CHOOSE x \in S : Cardinality({y \in S : y < x}) = i - 1]]

\* The walk range(hash..).chain(range(..hash)).
Walk(h) ==
    LET above == {x \in DOMAIN ring : x >= h}
    IN  Ascending(above) \o Ascending(DOMAIN ring \ above)

\* Mutant: an id that was seen is pushed again.
Visit_again(acc, id, count) ==
    IF acc.done THEN acc
    ELSE LET seen == acc.seen \cup {id}
             result == Append(acc.result, id)
         IN  [seen |-> seen, result |-> result,
              done |-> Len(result) >= count \/ Cardinality(seen) >= Cardinality(nodes)]

\* One turn of the loop of get_nodes.
Visit(acc, id, count) ==
    IF acc.done \/ id \in acc.seen THEN acc
    ELSE LET seen == acc.seen \cup {id}
             result == IF id \in nodes THEN Append(acc.result, id) ELSE acc.result
         IN  [seen |-> seen, result |-> result,
              done |-> Len(result) >= count \/ Cardinality(seen) >= Cardinality(nodes)]

GetNodes(k, count) ==
    IF count = 0 THEN <<>>
    ELSE FoldLeft(LAMBDA acc, id : Visit(acc, id, count),
                  [seen |-> {}, result |-> <<>>, done |-> FALSE], Walk(KeyHash[k])).result

-----------------------------------------------------------------------------
(* Cluster.                                                                 *)

\* member_for_key looks the id up in `members', ref_for_key in `refs_by_id'.
MemberForKey(k) ==
    LET i == SelectInSeq(members, LAMBDA m : m.name \in GetNode(k))
    IN  IF i = 0 THEN {} ELSE {members[i].addr}

RefForKey(k) == {refs[refs_by_id[n]] : n \in GetNode(k) \cap DOMAIN refs_by_id}

RefByName(n) == {refs[refs_by_id[x]] : x \in {n} \cap DOMAIN refs_by_id}

\* A send to a ref fails when its address is in `down': its write loop is gone.
Outcome(n, addr, down) == [name |-> n, ok |-> addr \notin down]

\* Mutant: the loop ends with the first failure.
SendAll_stops(down) ==
    LET upTo == SelectInSeq(refs, LAMBDA a : a \in down)
    IN  [i \in 1 .. (IF upTo = 0 THEN Len(members) ELSE upTo) |-> Outcome(members[i].name, refs[i], down)]

\* members.zip(refs).
SendAll(down) ==
    [i \in DOMAIN members \cap DOMAIN refs |-> Outcome(members[i].name, refs[i], down)]

\* broadcast: Ok when no node failed.
Broadcast(down) == \A i \in DOMAIN SendAll(down) : SendAll(down)[i].ok

\* Names that are not in the roster are passed over.
SendTo(names, down) ==
    LET known == SelectSeq(names, LAMBDA n : RefByName(n) # {})
    IN  [i \in DOMAIN known |-> Outcome(known[i], refs[refs_by_id[known[i]]], down)]

SendReplicas(k, count, down) == SendTo(GetNodes(k, count), down)

SendByKey(k, down) == RefForKey(k) # {} /\ RefForKey(k) \cap down = {}

Join(m) ==
    /\ AddNode(m.name)
    /\ refs_by_id' = [n \in DOMAIN refs_by_id \cup {m.name} |->
                        IF n = m.name THEN Len(refs) + 1 ELSE refs_by_id[n]]
    /\ refs' = Append(refs, m.addr)
    /\ members' = Append(members, m)

\* Vec::swap_remove: the last element takes the place of the i-th.
SwapRemove(s, i) == [j \in 1 .. Len(s) - 1 |-> IF j = i THEN s[Len(s)] ELSE s[j]]

\* Mutant: the index of the member that was moved is not updated.
Reindexed_forgotten(n) == [x \in DOMAIN refs_by_id \ {n} |-> refs_by_id[x]]

\* refs_by_id without n, and with the new index of the member that was moved.
Reindexed(n) ==
    LET i == refs_by_id[n]
        left == DOMAIN refs_by_id \ {n}
        last == members[Len(members)].name
    IN  IF i < Len(members)
        THEN [x \in left \cup {last} |-> IF x = last THEN i ELSE refs_by_id[x]]
        ELSE [x \in left |-> refs_by_id[x]]

\* Each `?' returns early and keeps what was done before it.
Leave(n) ==
    /\ IF n \in nodes THEN RemoveNode(n) ELSE UNCHANGED hashRing
    /\ IF n \in nodes /\ n \in DOMAIN refs_by_id
       THEN /\ refs_by_id' = Reindexed(n)
            /\ refs' = SwapRemove(refs, refs_by_id[n])
            /\ members' = SwapRemove(members, refs_by_id[n])
       ELSE UNCHANGED roster

Operation(by) ==
    /\ pc = "idle" /\ owner = by
    /\ ops < MaxOps[owner]
    /\ ops' = ops + 1
    /\ applied' = {}

\* Cluster::join by client code; ring_node() panics first on a malformed address.
ClientJoin(m) ==
    /\ Operation("client")
    /\ Duplicates \/ m.name \notin Names
    /\ m.addr \notin BadAddr
    /\ Join(m)
    /\ UNCHANGED <<next, owner, route, pc, stale_ids, incoming, record>>

ClientLeave(n) ==
    /\ Operation("client")
    /\ Leave(n)
    /\ UNCHANGED <<next, owner, route, pc, stale_ids, incoming, record>>

\* Cluster::next (fetch_add(1) % len), send_round_robin, ServiceMesh::invoke_any.
RoundRobin ==
    /\ pc = "idle"
    /\ ops < MaxOps[owner]
    /\ ops' = ops + 1
    /\ refs # <<>>
    /\ next' = (next + 1) % Word
    /\ UNCHANGED <<hashRing, roster, owner, route, pc, stale_ids, incoming, record, applied>>

-----------------------------------------------------------------------------
(* ServiceMesh, one service.                                                *)

Register(m) ==
    /\ Operation("mesh")
    /\ pc' = "register"
    /\ incoming' = {m}
    /\ UNCHANGED <<hashRing, roster, next, owner, route, stale_ids, record>>

\* deregister: `?' on an unknown service, then on an unknown instance; the route
\* goes with its last instance.
Deregister(n) ==
    /\ Operation("mesh")
    /\ route
    /\ Leave(n)
    /\ route' = (members' # <<>> \/ members = <<>>)
    /\ UNCHANGED <<next, owner, pc, stale_ids, incoming, record>>

\* Mutant: nobody is dropped.
StaleIds_none(snapshot) == {}

\* The members the snapshot does not name.
StaleIds(snapshot) == Names \ {m.name : m \in snapshot}

\* apply_snapshot_diff; `incoming' is a map, so it has one record per name.
ApplySnapshot(snapshot) ==
    /\ Operation("mesh")
    /\ pc' = "stale"
    /\ stale_ids' = StaleIds(snapshot)
    /\ incoming' = snapshot
    /\ UNCHANGED <<hashRing, roster, next, owner, route, record>>

\* One turn of the loop over stale_ids; their order is left open.
DropStale(n) ==
    /\ pc = "stale" /\ n \in stale_ids
    /\ Leave(n)
    /\ stale_ids' = stale_ids \ {n}
    /\ UNCHANGED <<next, owner, route, pc, incoming, record, ops, applied>>

\* The first loop ends: an empty route is removed.
StaleDone ==
    /\ pc = "stale" /\ stale_ids = {}
    /\ pc' = "register"
    /\ route' = (members # <<>>)
    /\ applied' = incoming
    /\ UNCHANGED <<hashRing, roster, next, owner, stale_ids, incoming, record, ops>>

\* Mutant: a known instance keeps its entry.
Displaces_never(m) == FALSE

Displaces(m) == m.name \in Names

\* ServiceMesh::register up to `leave': the route is created if need be (with a
\* fresh Cluster, whose counter is 0), a known instance is taken out first.
Displace(m) ==
    /\ pc = "register" /\ m \in incoming
    /\ pc' = "join"
    /\ record' = m
    /\ incoming' = incoming \ {m}
    /\ route' = TRUE
    /\ next' = IF route THEN next ELSE 0
    /\ IF Displaces(m) THEN Leave(m.name) ELSE UNCHANGED <<hashRing, roster>>
    /\ UNCHANGED <<owner, stale_ids, ops, applied>>

\* The rest of it: cluster.join.
JoinRecord ==
    /\ pc = "join"
    /\ record.addr \notin BadAddr
    /\ Join(record)
    /\ pc' = "register"
    /\ UNCHANGED <<next, owner, route, stale_ids, incoming, record, ops, applied>>

\* from_socket_addr panics: the operation ends here and the instance it had taken
\* out stays out.
JoinPanics ==
    /\ pc = "join"
    /\ record.addr \in BadAddr
    /\ pc' = "idle"
    /\ incoming' = {}
    /\ applied' = {}
    /\ UNCHANGED <<hashRing, roster, next, owner, route, stale_ids, record, ops>>

RegisterDone ==
    /\ pc = "register" /\ incoming = {}
    /\ pc' = "idle"
    /\ UNCHANGED <<hashRing, roster, next, owner, route, stale_ids, incoming, record, ops,
                   applied>>

\* What callers read: records(), invoke (Ok or not) and invoke_all; without a
\* route the first and the last are empty and invoke is an error.
Records == IF route THEN ToSet(members) ELSE {}

Invoke(k, down) == route /\ SendByKey(k, down)

InvokeAll(down) == IF route THEN SendAll(down) ELSE <<>>

-----------------------------------------------------------------------------
\* A snapshot names an instance once.
Snapshot == {s \in SUBSET Member : \A m, n \in s : m.name = n.name => m = n}

Next ==
    \/ \E m \in Member : ClientJoin(m) \/ Register(m) \/ Displace(m)
    \/ \E n \in Name : ClientLeave(n) \/ Deregister(n) \/ DropStale(n)
    \/ \E s \in Snapshot : ApplySnapshot(s)
    \/ RoundRobin \/ StaleDone \/ JoinRecord \/ JoinPanics \/ RegisterDone

Spec == Init /\ [][Next]_vars
-----------------------------------------------------------------------------
(* Properties.                                                              *)

\* Every variable stays in its type.
TypeOK ==
    /\ nodes \subseteq Name
    /\ DOMAIN ring \subseteq Nat /\ \A h \in DOMAIN ring : ring[h] \in Name
    /\ members \in Seq(Member) /\ refs \in Seq(Addr)
    /\ DOMAIN refs_by_id \subseteq Name
    /\ \A n \in DOMAIN refs_by_id : refs_by_id[n] \in Nat
    /\ next \in 0 .. Word - 1
    /\ owner \in Owners
    /\ route \in BOOLEAN
    /\ pc \in {"idle", "stale", "register", "join"}
    /\ stale_ids \subseteq Name
    /\ incoming \subseteq Member /\ applied \subseteq Member
    /\ record \in Member \cup {NoRecord}
    /\ pc = "join" => record \in Member
    /\ ops \in 0 .. MaxOps[owner]

\* members, refs and refs_by_id stay parallel through join and swap_remove: each
\* index is in range and points at the member, and the ref, of that name. It
\* holds even when names are joined twice, so indexing refs never panics.
RosterAligned ==
    /\ Len(refs) = Len(members)
    /\ \A i \in DOMAIN members : refs[i] = members[i].addr
    /\ \A n \in DOMAIN refs_by_id : /\ refs_by_id[n] \in DOMAIN members
                                    /\ members[refs_by_id[n]].name = n

\* Ring, roster and index hold the same names, each once, after any sequence of
\* operations (Cluster::join and leave, ServiceMesh::register, deregister and
\* apply_snapshot_diff), unless a client joins a name twice.
RosterMatchesRing ==
    ~Duplicates =>
        /\ Names = nodes /\ DOMAIN refs_by_id = nodes
        /\ \A i, j \in DOMAIN members : members[i].name = members[j].name => i = j

\* What hash_ring.rs takes for granted (it logs a collision and goes on): every
\* node has virtual nodes and no two share a hash.
NoCollision ==
    /\ \A n \in Name : VNode[n] # {}
    /\ \A m, n \in Name : m # n => VNode[m] \cap VNode[n] = {}

\* Consistent hashing: a step that adds a node moves keys only to that node, one
\* that removes a node moves only the keys it had; no other step moves a key
\* (README: "Same job_id always maps to the same node until the ring changes").
OnlyItsKeysMove ==
    [][NoCollision => \A k \in Key :
         GetNode(k)' # GetNode(k) => \/ GetNode(k) \subseteq nodes \ nodes'
                                     \/ GetNode(k)' \subseteq nodes' \ nodes]_vars

\* The number of steps clockwise from h to the first virtual node of n.
Clockwise(h, n) ==
    LET size == 1 + Max({h} \cup UNION {VNode[x] : x \in Name})
    IN  Min({(x + size - h) % size : x \in VNode[n]})

\* get_node and get_nodes against their definition: the replicas of a key are
\* distinct nodes in clockwise order starting with get_node's, `count' of them or
\* as many as there are. The order is that of the nodes' own hashes, so all
\* processes with the same nodes agree on it (hash_ring.rs, RING_HASH_SEED),
\* whatever order the nodes joined or left in.
ReplicasCorrect ==
    pc = "idle" /\ NoCollision =>
    \A k \in Key, count \in 0 .. Cardinality(Name) :
        LET r == GetNodes(k, count)
            steps(n) == Clockwise(KeyHash[k], n)
        IN  /\ ToSet(r) \subseteq nodes
            /\ Len(r) = Min({count, Cardinality(nodes)})
            /\ \A i, j \in DOMAIN r : i < j => steps(r[i]) < steps(r[j])
            /\ \A n \in nodes \ ToSet(r), i \in DOMAIN r : steps(r[i]) < steps(n)
            /\ r # <<>> => GetNode(k) = {r[1]}

\* apply_snapshot_diff leaves exactly the snapshot, with its addresses, whatever
\* the roster was and in whatever order the map of records is walked.
SnapshotExact ==
    pc = "idle" /\ applied # {} => Records = applied

\* Every way to send to a key or to a set of names (all but the round robin)
\* reaches the same refs: whichever of them fail, send_all
\* reports on each member once and about that member's own address, broadcast is
\* Ok exactly when all of them are, sending to all names or to all replicas of a
\* key reports the same (each name looked up in another table), and the ref of a
\* key, the address of member_for_key and the first replica are one.  The mesh
\* has a route wherever the cluster has a member.
FanOutAgrees ==
    pc = "idle" /\ NoCollision /\ ~Duplicates =>
        \A down \in SUBSET Addr :
            LET all == SendAll(down)
                expected == {Outcome(m.name, m.addr, down) : m \in ToSet(members)}
            IN  /\ ToSet(all) = expected /\ Len(all) = Cardinality(expected)
                /\ Broadcast(down) <=> \A o \in expected : o.ok
                /\ ToSet(SendTo(SetToSeq(Name), down)) = expected
                /\ owner = "mesh" => InvokeAll(down) = all
                /\ \A k \in Key :
                      LET replicas == SendReplicas(k, Cardinality(Name), down)
                      IN  /\ ToSet(replicas) = expected
                          /\ SendByKey(k, down) <=> replicas # <<>> /\ replicas[1].ok
                          /\ MemberForKey(k) = RefForKey(k)
                          /\ owner = "mesh" => (Invoke(k, down) <=> SendByKey(k, down))
=============================================================================
