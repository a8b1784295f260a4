--------------------------- MODULE ClusterProofs ----------------------------
(***************************************************************************)
(* The tables of a Cluster agree for every set of names, addresses and     *)
(* hashes and every sequence of operations. RosterAligned is inductive     *)
(* together with the types of the tables; RosterMatchesRing needs one      *)
(* fact more, that the record about to be joined is not in the roster.     *)
(* A change of the roster moves only the keys of the nodes it adds or      *)
(* removes, and a snapshot that was applied is what the mesh holds.        *)
(***************************************************************************)
EXTENDS Cluster, WellFoundedInduction, TLAPS

\* The types of the tables and of the record being registered.
TableTypes ==
    /\ nodes \subseteq Name
    /\ members \in Seq(Member)
    /\ refs \in Seq(Addr)
    /\ DOMAIN refs_by_id \subseteq Name
    /\ incoming \subseteq Member
    /\ pc = "join" => record \in Member

Aligned == TableTypes /\ RosterAligned

\* What swap_remove returns.
LEMMA SwapRemoveLemma ==
    ASSUME NEW S, NEW s \in Seq(S), NEW i \in DOMAIN s
    PROVE  /\ SwapRemove(s, i) \in Seq(S)
           /\ Len(SwapRemove(s, i)) = Len(s) - 1
           /\ DOMAIN SwapRemove(s, i) = 1 .. Len(s) - 1
           /\ \A j \in 1 .. Len(s) - 1 :
                SwapRemove(s, i)[j] = IF j = i THEN s[Len(s)] ELSE s[j]
<1>1. Len(s) \in Nat \ {0} /\ DOMAIN s = 1 .. Len(s) /\ i \in 1 .. Len(s)
  OBVIOUS
<1>2. \A j \in 1 .. Len(s) : s[j] \in S
  OBVIOUS
<1>3. \A j \in 1 .. Len(s) - 1 : (IF j = i THEN s[Len(s)] ELSE s[j]) \in S
  BY <1>1, <1>2
<1>4. SwapRemove(s, i) \in [1 .. Len(s) - 1 -> S]
  BY <1>3 DEF SwapRemove
<1>5. Len(s) - 1 \in Nat
  BY <1>1
<1>6. SwapRemove(s, i) \in Seq(S) /\ Len(SwapRemove(s, i)) = Len(s) - 1
  BY <1>4, <1>5
<1>. QED
  BY <1>6 DEF SwapRemove

\* Cluster::join keeps the tables parallel, also for a name that is known.
LEMMA JoinAligned ==
    ASSUME Aligned, NEW m \in Member, Join(m)
    PROVE  /\ nodes' \subseteq Name
           /\ members' \in Seq(Member) /\ refs' \in Seq(Addr)
           /\ DOMAIN refs_by_id' \subseteq Name
           /\ RosterAligned'
<1>1. m.name \in Name /\ m.addr \in Addr
  BY DEF Member
<1>2. /\ members' = Append(members, m) /\ refs' = Append(refs, m.addr)
      /\ members' \in Seq(Member) /\ refs' \in Seq(Addr)
      /\ nodes' \subseteq Name
  BY <1>1 DEF Join, AddNode, Aligned, TableTypes
<1>3. /\ DOMAIN refs_by_id' = DOMAIN refs_by_id \cup {m.name}
      /\ \A n \in DOMAIN refs_by_id' :
            refs_by_id'[n] = IF n = m.name THEN Len(refs) + 1 ELSE refs_by_id[n]
  BY DEF Join
<1>4. /\ Len(members') = Len(members) + 1 /\ Len(refs') = Len(refs) + 1
      /\ Len(refs) = Len(members)
      /\ members'[Len(members) + 1] = m /\ refs'[Len(members) + 1] = m.addr
      /\ \A i \in DOMAIN members : members'[i] = members[i] /\ refs'[i] = refs[i]
  BY <1>1, <1>2 DEF Aligned, TableTypes, RosterAligned
<1>5. DOMAIN members' = DOMAIN members \cup {Len(members) + 1}
  BY <1>2, <1>4 DEF Aligned, TableTypes
<1>6. \A i \in DOMAIN members' : refs'[i] = members'[i].addr
  BY <1>4, <1>5 DEF Aligned, RosterAligned
<1>7. \A n \in DOMAIN refs_by_id' : /\ refs_by_id'[n] \in DOMAIN members'
                                    /\ members'[refs_by_id'[n]].name = n
  BY <1>3, <1>4, <1>5 DEF Aligned, RosterAligned
<1>. QED
  BY <1>1, <1>2, <1>3, <1>4, <1>6, <1>7 DEF RosterAligned, Aligned, TableTypes

\* Cluster::leave keeps them parallel: the member that swap_remove moved is the
\* only one whose index changes.
LEMMA LeaveAligned ==
    ASSUME Aligned, NEW n, Leave(n)
    PROVE  /\ nodes' \subseteq Name
           /\ members' \in Seq(Member) /\ refs' \in Seq(Addr)
           /\ DOMAIN refs_by_id' \subseteq Name
           /\ RosterAligned'
<1>1. nodes' \subseteq Name
  BY DEF Leave, RemoveNode, Aligned, TableTypes, hashRing
<1>2. CASE ~(n \in nodes /\ n \in DOMAIN refs_by_id)
  BY <1>1, <1>2 DEF Leave, roster, Aligned, TableTypes, RosterAligned
<1>3. CASE n \in nodes /\ n \in DOMAIN refs_by_id
  <2> DEFINE i == refs_by_id[n]
             last == members[Len(members)].name
             L == Len(members)
  <2>1. /\ L \in Nat \ {0} /\ i \in 1 .. L /\ DOMAIN members = 1 .. L
        /\ Len(refs) = L /\ DOMAIN refs = 1 .. L
        /\ last \in Name
    <3>1. L \in Nat /\ DOMAIN members = 1 .. L
      BY DEF Aligned, TableTypes
    <3>2. i \in 1 .. L
      BY <1>3, <3>1 DEF Aligned, RosterAligned
    <3>3. Len(refs) = L /\ DOMAIN refs = 1 .. L
      BY <3>1 DEF Aligned, TableTypes, RosterAligned
    <3>4. L \in 1 .. L /\ L \in Nat \ {0}
      BY <3>1, <3>2
    <3>5. members[L] \in Member
      BY <3>1, <3>4 DEF Aligned, TableTypes
    <3>. QED  BY <3>1, <3>2, <3>3, <3>4, <3>5 DEF Member
  <2>2. /\ refs' = SwapRemove(refs, i) /\ members' = SwapRemove(members, i)
        /\ refs_by_id' = Reindexed(n)
    BY <1>3 DEF Leave
  <2>3. /\ members' \in Seq(Member) /\ refs' \in Seq(Addr)
        /\ Len(members') = L - 1 /\ Len(refs') = L - 1
        /\ DOMAIN members' = 1 .. L - 1
        /\ \A j \in 1 .. L - 1 : /\ members'[j] = IF j = i THEN members[L] ELSE members[j]
                                 /\ refs'[j] = IF j = i THEN refs[L] ELSE refs[j]
    <3>1. members \in Seq(Member) /\ refs \in Seq(Addr)
      BY DEF Aligned, TableTypes
    <3>4. i \in DOMAIN members /\ i \in DOMAIN refs /\ Len(refs) = L
      BY <2>1
    <3> HIDE DEF i
    <3>2. /\ SwapRemove(members, i) \in Seq(Member)
          /\ Len(SwapRemove(members, i)) = L - 1
          /\ DOMAIN SwapRemove(members, i) = 1 .. L - 1
          /\ \A j \in 1 .. L - 1 :
               SwapRemove(members, i)[j] = IF j = i THEN members[L] ELSE members[j]
      BY <3>1, <3>4, SwapRemoveLemma, Zenon
    <3>3. /\ SwapRemove(refs, i) \in Seq(Addr)
          /\ Len(SwapRemove(refs, i)) = Len(refs) - 1
          /\ \A j \in 1 .. Len(refs) - 1 :
               SwapRemove(refs, i)[j] = IF j = i THEN refs[Len(refs)] ELSE refs[j]
      BY <3>1, <3>4, SwapRemoveLemma, Zenon
    <3>. QED  BY <3>2, <3>3, <3>4, <2>2
  <2>4. \A j \in DOMAIN members' : refs'[j] = members'[j].addr
    BY <2>1, <2>3 DEF Aligned, RosterAligned
  <2>5. \A x \in DOMAIN refs_by_id : refs_by_id[x] \in 1 .. L /\ members[refs_by_id[x]].name = x
    BY <2>1 DEF Aligned, RosterAligned
  <2>6. CASE i < L
    <3>1. /\ DOMAIN refs_by_id' = (DOMAIN refs_by_id \ {n}) \cup {last}
          /\ \A x \in DOMAIN refs_by_id' :
               refs_by_id'[x] = IF x = last THEN i ELSE refs_by_id[x]
      BY <2>2, <2>6 DEF Reindexed
    <3>2. \A x \in DOMAIN refs_by_id' : /\ refs_by_id'[x] \in 1 .. L - 1
                                        /\ members'[refs_by_id'[x]].name = x
      <4> SUFFICES ASSUME NEW x \in DOMAIN refs_by_id'
                   PROVE  /\ refs_by_id'[x] \in 1 .. L - 1
                          /\ members'[refs_by_id'[x]].name = x
        OBVIOUS
      <4>1. CASE x = last
        <5>1. refs_by_id'[x] = i /\ i \in 1 .. L - 1
          BY <3>1, <4>1, <2>1, <2>6
        <5>2. members'[i] = members[L]
          BY <5>1, <2>3
        <5>. QED  BY <5>1, <5>2, <4>1
      <4>2. CASE x # last
        <5>1. x \in DOMAIN refs_by_id /\ x # n /\ refs_by_id'[x] = refs_by_id[x]
          BY <3>1, <4>2
        <5>2. refs_by_id[x] # L /\ refs_by_id[x] # i
          BY <5>1, <2>5, <4>2, <1>3
        <5>3. refs_by_id[x] \in 1 .. L - 1 /\ members'[refs_by_id[x]] = members[refs_by_id[x]]
          BY <5>1, <5>2, <2>5, <2>3, <2>1
        <5>. QED  BY <5>1, <5>3, <2>5
      <4>. QED  BY <4>1, <4>2
    <3>. QED  BY <1>1, <2>1, <2>3, <2>4, <3>1, <3>2 DEF RosterAligned, Aligned, TableTypes
  <2>7. CASE ~(i < L)
    <3>1. /\ i = L
          /\ DOMAIN refs_by_id' = DOMAIN refs_by_id \ {n}
          /\ \A x \in DOMAIN refs_by_id' : refs_by_id'[x] = refs_by_id[x]
      BY <2>1, <2>2, <2>7 DEF Reindexed
    <3>2. \A x \in DOMAIN refs_by_id' : /\ refs_by_id'[x] \in 1 .. L - 1
                                        /\ members'[refs_by_id'[x]].name = x
      BY <3>1, <2>5, <2>3, <2>1, <1>3
    <3>. QED  BY <1>1, <2>1, <2>3, <2>4, <3>1, <3>2 DEF RosterAligned, Aligned, TableTypes
  <2>. QED  BY <2>6, <2>7
<1>. QED  BY <1>2, <1>3

\* A new cluster has empty tables.
LEMMA InitAligned == Init => Aligned
  BY DEF Init, Aligned, TableTypes, RosterAligned

\* Every operation updates members, refs and refs_by_id together.
LEMMA AlignedStep == Aligned /\ [Next]_vars => Aligned'
<1> SUFFICES ASSUME Aligned, [Next]_vars PROVE Aligned'
  OBVIOUS
<1> USE DEF Aligned, TableTypes
<1>1. ASSUME NEW m \in Member, ClientJoin(m) PROVE Aligned'
  BY <1>1, JoinAligned DEF ClientJoin, Operation
<1>2. ASSUME NEW m \in Member, Register(m) PROVE Aligned'
  BY <1>2 DEF Register, Operation, RosterAligned, roster, hashRing
<1>3. ASSUME NEW m \in Member, Displace(m) PROVE Aligned'
  <2>1. CASE Displaces(m)
    BY <1>3, <2>1, LeaveAligned DEF Displace
  <2>2. CASE ~Displaces(m)
    BY <1>3, <2>2 DEF Displace, RosterAligned, roster, hashRing
  <2>. QED  BY <2>1, <2>2
<1>4. ASSUME NEW n \in Name, ClientLeave(n) PROVE Aligned'
  BY <1>4, LeaveAligned DEF ClientLeave, Operation
<1>5. ASSUME NEW n \in Name, Deregister(n) PROVE Aligned'
  BY <1>5, LeaveAligned DEF Deregister, Operation
<1>6. ASSUME NEW s \in Snapshot, ApplySnapshot(s) PROVE Aligned'
  BY <1>6 DEF ApplySnapshot, Operation, Snapshot, RosterAligned, roster, hashRing
<1>7. CASE RoundRobin
  BY <1>7 DEF RoundRobin, RosterAligned, roster, hashRing
<1>8. ASSUME NEW n \in Name, DropStale(n) PROVE Aligned'
  BY <1>8, LeaveAligned DEF DropStale
<1>9. CASE StaleDone
  BY <1>9 DEF StaleDone, RosterAligned, roster, hashRing
<1>10. CASE JoinRecord
  BY <1>10, JoinAligned DEF JoinRecord
<1>11. CASE JoinPanics
  BY <1>11 DEF JoinPanics, RosterAligned, roster, hashRing
<1>12. CASE RegisterDone
  BY <1>12 DEF RegisterDone, RosterAligned, roster, hashRing
<1>13. CASE UNCHANGED vars
  BY <1>13 DEF vars, RosterAligned, roster, hashRing, control
<1>. QED
  BY <1>1, <1>2, <1>3, <1>4, <1>5, <1>6, <1>7, <1>8, <1>9, <1>10, <1>11, <1>12, <1>13 DEF Next

\* members, refs and refs_by_id stay parallel, and every index in range, after
\* any sequence of Cluster::join, leave and mesh updates, repeated names included.
THEOREM RosterStaysAligned == Spec => []RosterAligned
<1>1. Aligned => RosterAligned
  BY DEF Aligned
<1>. QED
  BY InitAligned, AlignedStep, <1>1, PTL DEF Spec

-----------------------------------------------------------------------------
(* Ring, roster and index hold the same names.                              *)

\* No name twice, and the same names in the three tables.
SameNames ==
    /\ Names = nodes /\ DOMAIN refs_by_id = nodes
    /\ \A i, j \in DOMAIN members : members[i].name = members[j].name => i = j

\* ServiceMesh::register has taken a known instance out before it joins it.
JoinIsFresh == pc = "join" => record.name \notin Names

Agreement == Aligned /\ SameNames /\ JoinIsFresh

\* A name is in the roster exactly if some position holds it.
LEMMA JoinSame ==
    ASSUME Aligned, SameNames, NEW m \in Member, m.name \notin Names, Join(m)
    PROVE  SameNames'
<1>1. /\ members' = Append(members, m) /\ members \in Seq(Member)
      /\ nodes' = nodes \cup {m.name}
      /\ DOMAIN refs_by_id' = DOMAIN refs_by_id \cup {m.name}
  BY DEF Join, AddNode, Aligned, TableTypes
<1>2. /\ DOMAIN members' = DOMAIN members \cup {Len(members) + 1}
      /\ members'[Len(members) + 1] = m
      /\ \A i \in DOMAIN members : members'[i] = members[i] /\ i # Len(members) + 1
  BY <1>1
<1>3. Names' = Names \cup {m.name}
  BY <1>2 DEF Names
<1>4. \A i \in DOMAIN members : members[i].name # m.name
  BY DEF Names
<1>5. \A i, j \in DOMAIN members' : members'[i].name = members'[j].name => i = j
  BY <1>2, <1>4 DEF SameNames
<1>. QED  BY <1>1, <1>3, <1>5 DEF SameNames

\* leave takes the name out of all three tables, and no other name.
LEMMA LeaveSame ==
    ASSUME Aligned, SameNames, NEW n, Leave(n)
    PROVE  SameNames' /\ Names' = Names \ {n}
<1>1. CASE n \notin nodes
  BY <1>1 DEF Leave, SameNames, Names, roster, hashRing
<1>2. CASE n \in nodes
  <2> DEFINE i == refs_by_id[n]
             L == Len(members)
             last == members[Len(members)].name
  <2>1. n \in DOMAIN refs_by_id
    BY <1>2 DEF SameNames
  <2>2. /\ L \in Nat /\ DOMAIN members = 1 .. L
        /\ i \in 1 .. L /\ members[i].name = n /\ L \in 1 .. L
    <3>1. L \in Nat /\ DOMAIN members = 1 .. L
      BY DEF Aligned, TableTypes
    <3>2. i \in 1 .. L /\ members[i].name = n
      BY <2>1, <3>1 DEF Aligned, RosterAligned
    <3>. QED  BY <3>1, <3>2
  <2>3. /\ members' = SwapRemove(members, i) /\ refs_by_id' = Reindexed(n)
        /\ nodes' = nodes \ {n}
    BY <1>2, <2>1 DEF Leave, RemoveNode
  <2>4. /\ DOMAIN members' = 1 .. L - 1
        /\ \A j \in 1 .. L - 1 : members'[j] = IF j = i THEN members[L] ELSE members[j]
    <3> HIDE DEF i
    <3>1. members \in Seq(Member) /\ i \in DOMAIN members
      BY <2>2 DEF Aligned, TableTypes
    <3>2. /\ DOMAIN SwapRemove(members, i) = 1 .. L - 1
          /\ \A j \in 1 .. L - 1 :
               SwapRemove(members, i)[j] = IF j = i THEN members[L] ELSE members[j]
      BY <3>1, SwapRemoveLemma, Zenon
    <3>. QED  BY <3>2, <2>3
  <2>5. \A j \in 1 .. L : members[j].name = n => j = i
    BY <2>2 DEF SameNames
  <2>6. Names' = Names \ {n}
    <3>1. ASSUME NEW j \in 1 .. L - 1
          PROVE  members'[j].name \in Names /\ members'[j].name # n
      <4>1. CASE j = i
        <5>1. members'[j] = members[L] /\ L # i
          BY <2>4, <2>2, <4>1
        <5>. QED  BY <5>1, <2>2, <2>5 DEF Names
      <4>2. CASE j # i
        <5>1. members'[j] = members[j] /\ j \in 1 .. L
          BY <2>4, <2>2, <4>2
        <5>. QED  BY <5>1, <2>2, <2>5, <4>2 DEF Names
      <4>. QED  BY <4>1, <4>2
    <3>2. ASSUME NEW j \in 1 .. L, members[j].name # n
          PROVE  \E k \in 1 .. L - 1 : members'[k].name = members[j].name
      <4>1. j # i
        BY <3>2, <2>2
      <4>2. CASE j = L
        <5>1. i \in 1 .. L - 1 /\ members'[i] = members[L]
          BY <4>1, <4>2, <2>2, <2>4
        <5>. QED  BY <5>1, <4>2
      <4>3. CASE j # L
        <5>1. j \in 1 .. L - 1
          <6>1. L \in Nat
            BY <2>2
          <6> HIDE DEF L
          <6>. QED  BY <3>2, <4>3, <6>1
        <5>2. members'[j] = members[j]
          BY <5>1, <4>1, <2>4
        <5>. QED  BY <5>1, <5>2
      <4>. QED  BY <4>2, <4>3
    <3>3. Names' = {members'[j].name : j \in 1 .. L - 1}
      BY <2>4 DEF Names
    <3>4. Names = {members[j].name : j \in 1 .. L}
      BY <2>2 DEF Names
    <3> HIDE DEF L
    <3>. QED  BY <3>1, <3>2, <3>3, <3>4
  <2>7. DOMAIN refs_by_id' = nodes'
    <3>1. CASE i < L
      <4>1. DOMAIN refs_by_id' = (DOMAIN refs_by_id \ {n}) \cup {last}
        BY <3>1, <2>3 DEF Reindexed
      <4>2. last \in Names /\ last # n
        BY <2>2, <2>5, <3>1 DEF Names
      <4>. QED  BY <4>1, <4>2, <2>3 DEF SameNames
    <3>2. CASE ~(i < L)
      BY <3>2, <2>3 DEF Reindexed, SameNames
    <3>. QED  BY <3>1, <3>2
  <2>8. ASSUME NEW j \in 1 .. L - 1, NEW k \in 1 .. L - 1, members'[j].name = members'[k].name
        PROVE  j = k
    <3> DEFINE old(x) == IF x = i THEN L ELSE x
    <3>1. /\ old(j) \in 1 .. L /\ old(k) \in 1 .. L
          /\ members'[j] = members[old(j)] /\ members'[k] = members[old(k)]
      BY <2>2, <2>4
    <3>2. old(j) = old(k)
      BY <3>1, <2>8, <2>2 DEF SameNames
    <3>. QED  BY <3>2, <2>2
  <2>. QED  BY <2>3, <2>4, <2>6, <2>7, <2>8 DEF SameNames
<1>. QED  BY <1>1, <1>2

\* Client code may be asked not to join a name twice; a mesh never does.
LEMMA AgreementStep ==
    ASSUME ~Duplicates \/ owner = "mesh", Agreement, [Next]_vars
    PROVE  Agreement'
<1> SUFFICES SameNames' /\ JoinIsFresh'
  BY AlignedStep DEF Agreement
<1>0. Aligned /\ SameNames /\ JoinIsFresh
  BY DEF Agreement
<1>1. ASSUME NEW m \in Member, ClientJoin(m) PROVE SameNames' /\ JoinIsFresh'
  BY <1>0, <1>1, JoinSame DEF ClientJoin, Operation, JoinIsFresh
<1>2. ASSUME NEW m \in Member, Register(m) PROVE SameNames' /\ JoinIsFresh'
  BY <1>0, <1>2 DEF Register, Operation, SameNames, JoinIsFresh, Names, roster, hashRing
<1>3. ASSUME NEW m \in Member, Displace(m) PROVE SameNames' /\ JoinIsFresh'
  <2>1. CASE Displaces(m)
    <3>1. SameNames' /\ Names' = Names \ {m.name}
      BY <1>0, <1>3, <2>1, LeaveSame DEF Displace
    <3>. QED  BY <3>1, <1>3 DEF Displace, JoinIsFresh
  <2>2. CASE ~Displaces(m)
    BY <1>0, <1>3, <2>2 DEF Displace, Displaces, SameNames, JoinIsFresh, Names, roster, hashRing
  <2>. QED  BY <2>1, <2>2
<1>4. ASSUME NEW n \in Name, ClientLeave(n) PROVE SameNames' /\ JoinIsFresh'
  BY <1>0, <1>4, LeaveSame DEF ClientLeave, Operation, JoinIsFresh
<1>5. ASSUME NEW n \in Name, Deregister(n) PROVE SameNames' /\ JoinIsFresh'
  BY <1>0, <1>5, LeaveSame DEF Deregister, Operation, JoinIsFresh
<1>6. ASSUME NEW s \in Snapshot, ApplySnapshot(s) PROVE SameNames' /\ JoinIsFresh'
  BY <1>0, <1>6 DEF ApplySnapshot, Operation, SameNames, JoinIsFresh, Names, roster, hashRing
<1>7. CASE RoundRobin
  BY <1>0, <1>7 DEF RoundRobin, SameNames, JoinIsFresh, Names, roster, hashRing
<1>8. ASSUME NEW n \in Name, DropStale(n) PROVE SameNames' /\ JoinIsFresh'
  BY <1>0, <1>8, LeaveSame DEF DropStale, JoinIsFresh
<1>9. CASE StaleDone
  BY <1>0, <1>9 DEF StaleDone, SameNames, JoinIsFresh, Names, roster, hashRing
<1>10. CASE JoinRecord
  <2>1. record \in Member /\ record.name \notin Names /\ Join(record)
    BY <1>0, <1>10 DEF JoinRecord, JoinIsFresh, Aligned, TableTypes
  <2>. QED  BY <1>0, <1>10, <2>1, JoinSame DEF JoinRecord, JoinIsFresh
<1>11. CASE JoinPanics
  BY <1>0, <1>11 DEF JoinPanics, SameNames, JoinIsFresh, Names, roster, hashRing
<1>12. CASE RegisterDone
  BY <1>0, <1>12 DEF RegisterDone, SameNames, JoinIsFresh, Names, roster, hashRing
<1>13. CASE UNCHANGED vars
  BY <1>0, <1>13 DEF vars, SameNames, JoinIsFresh, Names, roster, hashRing, control
<1>. QED
  BY <1>1, <1>2, <1>3, <1>4, <1>5, <1>6, <1>7, <1>8, <1>9, <1>10, <1>11, <1>12, <1>13 DEF Next

\* The ring, the roster and the index of a Cluster name the same members, each
\* once, also in the middle of a mesh update and after one that panicked, as
\* long as client code joins no name twice.
THEOREM RosterAgreesWithRing == Spec => []RosterMatchesRing
<1>1. CASE Duplicates
  <2>1. RosterMatchesRing
    BY <1>1 DEF RosterMatchesRing
  <2>. QED  BY <2>1, PTL
<1>2. CASE ~Duplicates
  <2>1. Init => Agreement
    BY InitAligned DEF Init, Agreement, SameNames, JoinIsFresh, Names
  <2>2. Agreement /\ [Next]_vars => Agreement'
    BY <1>2, AgreementStep
  <2>3. Agreement => RosterMatchesRing
    BY DEF Agreement, SameNames, RosterMatchesRing
  <2>. QED  BY <2>1, <2>2, <2>3, PTL DEF Spec
<1>. QED  BY <1>1, <1>2

-----------------------------------------------------------------------------
(* Consistent hashing.                                                      *)

\* The smallest element of a set of hashes.
LEMMA MinOfHashes ==
    ASSUME NEW S \in SUBSET Nat, S # {}
    PROVE  Min(S) \in S /\ \A y \in S : Min(S) <= y
<1>1. PICK x \in S : \A y \in S : ~(<<y, x>> \in OpToRel(<, Nat))
  BY NatLessThanWellFounded, WFMin
<1>2. \A y \in S : ~(y < x)
  BY <1>1 DEF OpToRel
<1>3. \A y \in S : x <= y
  BY <1>2
<1>. QED  BY <1>3 DEF Min

\* The hash that serves h among the hashes S: the next one, or the first of all.
ServedBy(S, h) ==
    LET above == {x \in S : x >= h} IN Min(IF above # {} THEN above ELSE S)

\* What serves h among many hashes serves it among fewer, if it is one of them.
LEMMA ServedByFewer ==
    ASSUME NEW T \in SUBSET Nat, NEW S \in SUBSET T, NEW h \in Nat, T # {},
           ServedBy(T, h) \in S
    PROVE  ServedBy(S, h) = ServedBy(T, h)
<1>1. PICK a : a = ServedBy(T, h)
  OBVIOUS
<1>2. a \in S /\ a \in Nat
  BY <1>1
<1>3. CASE {x \in T : x >= h} # {}
  <2>1. a \in {x \in T : x >= h} /\ \A y \in {x \in T : x >= h} : a <= y
    <3>1. a = Min({x \in T : x >= h}) /\ {x \in T : x >= h} \in SUBSET Nat
      BY <1>1, <1>3 DEF ServedBy
    <3>. QED  BY <1>3, <3>1, MinOfHashes
  <2>2. PICK A \in SUBSET Nat : A = {x \in S : x >= h}
    OBVIOUS
  <2>3. a \in A /\ \A y \in A : a <= y
    BY <1>2, <2>1, <2>2
  <2>4. Min(A) \in A /\ \A y \in A : Min(A) <= y
    BY <2>3, MinOfHashes
  <2>5. Min(A) = a
    <3>1. PICK b \in Nat : b = Min(A)
      BY <2>4
    <3>2. a <= b /\ b <= a
      BY <2>3, <2>4, <3>1
    <3>. QED  BY <1>2, <3>1, <3>2
  <2>. QED  BY <1>1, <2>2, <2>3, <2>5 DEF ServedBy
<1>4. CASE {x \in T : x >= h} = {}
  <2>1. a = Min(T) /\ \A y \in T : a <= y
    BY <1>1, <1>4, MinOfHashes DEF ServedBy
  <2>2. {x \in S : x >= h} = {} /\ S \in SUBSET Nat /\ S # {}
    BY <1>2, <1>4
  <2>3. Min(S) \in S /\ \A y \in S : Min(S) <= y
    BY <2>2, MinOfHashes
  <2>4. Min(S) = a
    <3>1. PICK b \in Nat : b = Min(S)
      BY <2>2, <2>3
    <3>2. a <= b /\ b <= a
      BY <1>2, <2>1, <2>3, <3>1
    <3>. QED  BY <1>2, <3>1, <3>2
  <2>. QED  BY <1>1, <2>2, <2>4 DEF ServedBy
<1>. QED  BY <1>3, <1>4

\* A ring that holds the virtual nodes of the nodes X and nothing else.
Holds(r, X) ==
    /\ DOMAIN r = UNION {VNode[n] : n \in X}
    /\ \A n \in X : \A h \in VNode[n] : r[h] = n

\* The node of hash h on it.
NodeAt(r, X, h) == IF DOMAIN r = {} THEN {} ELSE {Successor(r, h)} \cap X

\* More nodes take keys over only for themselves.
LEMMA MoreNodes ==
    ASSUME NoCollision, NEW Y \in SUBSET Name, NEW X \in SUBSET Y, NEW r, NEW q, NEW h \in Nat,
           Holds(r, X), Holds(q, Y), NodeAt(r, X, h) # NodeAt(q, Y, h)
    PROVE  NodeAt(q, Y, h) \subseteq Y \ X
<1>0. /\ DOMAIN q \in SUBSET Nat /\ DOMAIN r \in SUBSET DOMAIN q
      /\ \A n \in Y : VNode[n] \subseteq DOMAIN q
      /\ \A n \in X : VNode[n] \subseteq DOMAIN r
  BY ConstantsAssumption DEF Holds
<1>1. DOMAIN q # {}
  BY <1>0 DEF NodeAt
<1>2. PICK a : a = ServedBy(DOMAIN q, h)
  OBVIOUS
<1>3. a \in DOMAIN q
  <2>1. PICK A : A = IF {x \in DOMAIN q : x >= h} # {} THEN {x \in DOMAIN q : x >= h} ELSE DOMAIN q
    OBVIOUS
  <2>2. A \in SUBSET Nat /\ A # {} /\ A \subseteq DOMAIN q
    BY <1>0, <1>1, <2>1
  <2>3. a = Min(A)
    BY <1>2, <2>1 DEF ServedBy
  <2>. QED  BY <2>2, <2>3, MinOfHashes
<1>4. PICK m \in Y : a \in VNode[m] /\ q[a] = m
  BY <1>3 DEF Holds
<1>5. Successor(q, h) = m
  BY <1>2, <1>4 DEF Successor, ServedBy
<1>6. NodeAt(q, Y, h) = {m}
  BY <1>1, <1>4, <1>5 DEF NodeAt
<1>7. ASSUME m \in X PROVE FALSE
  <2>1. a \in DOMAIN r /\ r[a] = m
    BY <1>0, <1>4, <1>7 DEF Holds
  <2>2. ServedBy(DOMAIN r, h) = a
    BY <1>0, <1>1, <1>2, <2>1, ServedByFewer
  <2>3. Successor(r, h) = m
    BY <2>1, <2>2 DEF Successor, ServedBy
  <2>4. NodeAt(r, X, h) = {m}
    BY <1>7, <2>1, <2>3 DEF NodeAt
  <2>. QED  BY <1>6, <2>4
<1>. QED  BY <1>4, <1>6, <1>7

\* Only HashRing::add_node and remove_node touch the ring.
LEMMA RingStep ==
    ASSUME Aligned, [Next]_vars
    PROVE  UNCHANGED hashRing \/ \E n \in Name : AddNode(n) \/ RemoveNode(n)
<1>1. ASSUME NEW n, Leave(n) PROVE UNCHANGED hashRing \/ \E x \in Name : RemoveNode(x)
  BY <1>1 DEF Leave, Aligned, TableTypes
<1>2. ASSUME NEW m \in Member, Join(m) PROVE \E x \in Name : AddNode(x)
  BY <1>2 DEF Join, Member
<1>3. ASSUME NEW m \in Member, ClientJoin(m) \/ Register(m) \/ Displace(m)
      PROVE  UNCHANGED hashRing \/ \E n \in Name : AddNode(n) \/ RemoveNode(n)
  BY <1>1, <1>2, <1>3 DEF ClientJoin, Register, Displace
<1>4. ASSUME NEW n \in Name, ClientLeave(n) \/ Deregister(n) \/ DropStale(n)
      PROVE  UNCHANGED hashRing \/ \E x \in Name : AddNode(x) \/ RemoveNode(x)
  BY <1>1, <1>4 DEF ClientLeave, Deregister, DropStale
<1>5. CASE JoinRecord
  BY <1>2, <1>5 DEF JoinRecord, Aligned, TableTypes
<1>6. ASSUME NEW s \in Snapshot, ApplySnapshot(s) PROVE UNCHANGED hashRing
  BY <1>6 DEF ApplySnapshot
<1>7. CASE RoundRobin \/ StaleDone \/ JoinPanics \/ RegisterDone \/ UNCHANGED vars
  BY <1>7 DEF RoundRobin, StaleDone, JoinPanics, RegisterDone, vars
<1>. QED  BY <1>3, <1>4, <1>5, <1>6, <1>7 DEF Next

\* The ring holds the virtual nodes of the members, whatever the order in which
\* they came and went.
RingInv == Aligned /\ Holds(ring, nodes)

\* add_node enters every virtual node of the new node at its hash and no other.
LEMMA AddHolds ==
    ASSUME NoCollision, nodes \subseteq Name, Holds(ring, nodes), NEW n \in Name, AddNode(n)
    PROVE  Holds(ring, nodes)'
<1>1. /\ nodes' = nodes \cup {n}
      /\ DOMAIN ring' = DOMAIN ring \cup VNode[n]
      /\ \A h \in DOMAIN ring' : ring'[h] = IF h \in VNode[n] THEN n ELSE ring[h]
  BY DEF AddNode
<1>2. DOMAIN ring' = UNION {VNode[x] : x \in nodes'}
  BY <1>1 DEF Holds
<1>3. ASSUME NEW x \in nodes', NEW h \in VNode[x] PROVE ring'[h] = x
  <2>1. h \in DOMAIN ring'
    BY <1>2
  <2>2. CASE x = n
    BY <1>1, <2>1, <2>2
  <2>3. CASE x # n
    BY <1>1, <2>1, <2>3 DEF NoCollision, Holds
  <2>. QED  BY <2>2, <2>3
<1>. QED  BY <1>2, <1>3 DEF Holds

\* remove_node takes out the virtual nodes of that node and no other.
LEMMA RemoveHolds ==
    ASSUME NoCollision, nodes \subseteq Name, Holds(ring, nodes), NEW n \in Name, RemoveNode(n)
    PROVE  Holds(ring, nodes)'
<1>1. /\ nodes' = nodes \ {n}
      /\ DOMAIN ring' = DOMAIN ring \ VNode[n]
      /\ \A h \in DOMAIN ring' : ring'[h] = ring[h]
  BY DEF RemoveNode
<1>2. \A x \in nodes' : x \in Name /\ VNode[x] \cap VNode[n] = {}
  BY <1>1 DEF NoCollision
<1>3. DOMAIN ring' = UNION {VNode[x] : x \in nodes'}
  BY <1>1, <1>2 DEF Holds
<1>4. ASSUME NEW x \in nodes', NEW h \in VNode[x] PROVE ring'[h] = x
  <2>1. h \in DOMAIN ring'
    BY <1>3
  <2>. QED  BY <1>1, <2>1 DEF Holds
<1>. QED  BY <1>3, <1>4 DEF Holds

\* Every operation leaves in the ring the virtual nodes of its nodes, and only
\* those.
LEMMA RingInvStep == NoCollision /\ RingInv /\ [Next]_vars => RingInv'
<1> SUFFICES ASSUME NoCollision, RingInv, [Next]_vars PROVE RingInv'
  OBVIOUS
<1>1. Aligned' /\ nodes \subseteq Name
  BY AlignedStep DEF RingInv, Aligned, TableTypes
<1>2. CASE UNCHANGED hashRing
  BY <1>1, <1>2 DEF RingInv, hashRing, Holds
<1>3. ASSUME NEW n \in Name, AddNode(n) PROVE RingInv'
  BY <1>1, <1>3, AddHolds DEF RingInv
<1>4. ASSUME NEW n \in Name, RemoveNode(n) PROVE RingInv'
  BY <1>1, <1>4, RemoveHolds DEF RingInv
<1>. QED  BY <1>2, <1>3, <1>4, RingStep DEF RingInv

\* Consistent hashing, for any nodes, hashes and keys: a step of a Cluster or of
\* a mesh moves keys only to a node it adds, or only those of a node it removes.
THEOREM KeysStayPut == Spec => OnlyItsKeysMove
<1> DEFINE Move == \A k \in Key :
             GetNode(k)' # GetNode(k) => \/ GetNode(k) \subseteq nodes \ nodes'
                                         \/ GetNode(k)' \subseteq nodes' \ nodes
<1>1. CASE ~NoCollision
  <2>1. [NoCollision => Move]_vars
    BY <1>1
  <2>. QED  BY <2>1, PTL DEF OnlyItsKeysMove
<1>2. CASE NoCollision
  <2>1. Init => RingInv
    BY InitAligned DEF Init, RingInv, Holds
  <2>2. RingInv /\ [Next]_vars => RingInv'
    BY <1>2, RingInvStep
  <2>3. RingInv /\ [Next]_vars => [NoCollision => Move]_vars
    <3> SUFFICES ASSUME RingInv, [Next]_vars, NEW k \in Key, GetNode(k)' # GetNode(k)
                 PROVE  \/ GetNode(k) \subseteq nodes \ nodes'
                        \/ GetNode(k)' \subseteq nodes' \ nodes
      OBVIOUS
    <3>1. PICK h \in Nat : h = KeyHash[k]
      BY ConstantsAssumption
    <3>2. GetNode(k) = NodeAt(ring, nodes, h) /\ GetNode(k)' = NodeAt(ring', nodes', h)
      BY <3>1 DEF GetNode, NodeAt
    <3>3. /\ Holds(ring, nodes) /\ Holds(ring', nodes')
          /\ nodes \in SUBSET Name /\ nodes' \in SUBSET Name
      BY <2>2 DEF RingInv, Aligned, TableTypes, Holds
    <3>4. nodes \subseteq nodes' \/ nodes' \subseteq nodes
      BY RingStep DEF RingInv, AddNode, RemoveNode, hashRing
    <3>5. CASE nodes \subseteq nodes'
      BY <1>2, <3>2, <3>3, <3>5, MoreNodes
    <3>6. CASE nodes' \subseteq nodes
      BY <1>2, <3>2, <3>3, <3>6, MoreNodes
    <3>. QED  BY <3>4, <3>5, <3>6
  <2>. QED  BY <2>1, <2>2, <2>3, PTL DEF Spec, OnlyItsKeysMove
<1>. QED  BY <1>1, <1>2

-----------------------------------------------------------------------------
(* apply_snapshot_diff.                                                     *)

NamesOf(S) == {m.name : m \in S}

\* Only a mesh works in several steps and applies snapshots; it has a route
\* wherever it has a member, and creates it before it joins one.
MeshOnly ==
    /\ owner # "mesh" => pc = "idle" /\ applied = {}
    /\ owner = "mesh" /\ members # <<>> => route
    /\ pc = "join" => route

\* A snapshot, and what is left of it, names an instance once.
Distinct == incoming \in Snapshot /\ applied \in Snapshot

\* While stale members are dropped, the others are in the snapshot.
StaleLeft == pc = "stale" => applied = {} /\ Names \ stale_ids \subseteq NamesOf(incoming)

\* While the snapshot is registered, and after it: all members are named by it,
\* and the records of it that are not members yet are still to come.
Applying ==
    applied # {} =>
        /\ Names \subseteq NamesOf(applied)
        /\ pc = "register" => incoming \subseteq applied
        /\ pc = "join" => incoming \subseteq applied /\ record \in applied
        /\ \A m \in applied \ ToSet(members) :
              \/ pc \in {"register", "join"} /\ m \in incoming
              \/ pc = "join" /\ m = record

SnapshotInv ==
    /\ Aligned
    /\ owner = "mesh" => Agreement
    /\ MeshOnly /\ Distinct /\ StaleLeft /\ Applying

\* Cluster::join adds its record, leave takes out the record of that name.
LEMMA JoinMembers ==
    ASSUME Aligned, NEW m \in Member, Join(m)
    PROVE  /\ ToSet(members') = ToSet(members) \cup {m}
           /\ Names' = Names \cup {m.name}
<1>1. members' = Append(members, m) /\ members \in Seq(Member)
  BY DEF Join, Aligned, TableTypes
<1>2. /\ DOMAIN members' = DOMAIN members \cup {Len(members) + 1}
      /\ members'[Len(members) + 1] = m
      /\ \A i \in DOMAIN members : members'[i] = members[i]
  BY <1>1
<1>. QED  BY <1>2 DEF ToSet, Names

\* leave drops one record and keeps the others, in whatever position.
LEMMA LeaveMembers ==
    ASSUME Agreement, NEW n, Leave(n)
    PROVE  /\ ToSet(members') = {m \in ToSet(members) : m.name # n}
           /\ Names' = Names \ {n}
<1>0. Aligned /\ SameNames
  BY DEF Agreement
<1>1. Names' = Names \ {n}
  BY <1>0, LeaveSame
<1>2. CASE n \notin nodes
  <2>1. members' = members /\ n \notin Names
    BY <1>0, <1>2 DEF Leave, SameNames, roster
  <2>2. \A m \in ToSet(members) : m.name # n
    BY <2>1 DEF ToSet, Names
  <2>. QED  BY <1>1, <2>1, <2>2
<1>3. CASE n \in nodes
  <2>1. PICK i : i = refs_by_id[n]
    OBVIOUS
  <2>2. PICK L \in Nat : L = Len(members) /\ DOMAIN members = 1 .. L
    BY <1>0 DEF Aligned, TableTypes
  <2>3. n \in DOMAIN refs_by_id /\ i \in 1 .. L /\ members[i].name = n
    BY <1>0, <1>3, <2>1, <2>2 DEF Aligned, RosterAligned, SameNames
  <2>4. members' = SwapRemove(members, i)
    BY <1>3, <2>1, <2>3 DEF Leave
  <2>5. members \in Seq(Member) /\ i \in DOMAIN members
    BY <1>0, <2>2, <2>3 DEF Aligned, TableTypes
  <2>6. /\ DOMAIN members' = 1 .. L - 1
        /\ \A j \in 1 .. L - 1 : members'[j] = IF j = i THEN members[L] ELSE members[j]
    BY <2>2, <2>4, <2>5, SwapRemoveLemma
  <2>7. \A j \in 1 .. L : members[j].name = n => j = i
    BY <1>0, <2>2, <2>3 DEF SameNames
  <2>8. ASSUME NEW j \in 1 .. L - 1
        PROVE  \E k \in 1 .. L : members'[j] = members[k] /\ members[k].name # n
    <3>1. CASE j = i
      <4>1. members'[j] = members[L] /\ L \in 1 .. L /\ L # i
        BY <2>3, <2>6, <3>1
      <4>. QED  BY <2>7, <4>1
    <3>2. CASE j # i
      <4>1. members'[j] = members[j] /\ j \in 1 .. L
        BY <2>6, <3>2
      <4>. QED  BY <2>7, <3>2, <4>1
    <3>. QED  BY <3>1, <3>2
  <2>9. ASSUME NEW k \in 1 .. L, members[k].name # n
        PROVE  \E j \in 1 .. L - 1 : members'[j] = members[k]
    <3>1. k # i
      BY <2>3, <2>9
    <3>2. CASE k = L
      <4>1. i \in 1 .. L - 1
        BY <2>3, <3>1, <3>2
      <4>. QED  BY <2>6, <3>2, <4>1
    <3>3. CASE k # L
      <4>1. k \in 1 .. L - 1
        BY <3>3
      <4>. QED  BY <2>6, <3>1, <4>1
    <3>. QED  BY <3>2, <3>3
  <2>10. /\ ToSet(members') = {members'[j] : j \in 1 .. L - 1}
         /\ ToSet(members) = {members[k] : k \in 1 .. L}
    BY <2>2, <2>6 DEF ToSet
  <2>. QED  BY <1>1, <2>8, <2>9, <2>10
<1>. QED  BY <1>2, <1>3

\* Each step of a cluster or of a mesh preserves the invariant.
LEMMA SnapshotStep == SnapshotInv /\ [Next]_vars => SnapshotInv'
<1> SUFFICES ASSUME SnapshotInv, [Next]_vars PROVE SnapshotInv'
  OBVIOUS
<1> USE DEF roster, hashRing
<1>0. /\ Aligned /\ (owner = "mesh" => Agreement)
      /\ MeshOnly /\ Distinct /\ StaleLeft /\ Applying
  BY DEF SnapshotInv
<1>1. Aligned' /\ owner' = owner /\ (owner' = "mesh" => Agreement')
  <2>1. owner' = owner
    BY DEF Next, ClientJoin, ClientLeave, RoundRobin, Register, Deregister, ApplySnapshot, DropStale,
           StaleDone, Displace, JoinRecord, JoinPanics, RegisterDone, vars, control
  <2>. QED  BY <1>0, <2>1, AlignedStep, AgreementStep
<1>2. SUFFICES MeshOnly' /\ Distinct' /\ StaleLeft' /\ Applying'
  BY <1>1 DEF SnapshotInv
<1>3. ASSUME NEW n, Leave(n), owner = "mesh", members = <<>> PROVE members' = <<>>
  <2>1. nodes = {}
    BY <1>0, <1>3 DEF Agreement, SameNames, Names
  <2>. QED  BY <1>3, <2>1 DEF Leave
<1>4. ASSUME applied' = {}, incoming' \in Snapshot, pc' # "stale", pc' = "join" => route',
             owner' = "mesh" /\ members' # <<>> => route', owner' # "mesh" => pc' = "idle"
      PROVE  MeshOnly' /\ Distinct' /\ StaleLeft' /\ Applying'
  <2>1. applied' \in Snapshot
    BY <1>4 DEF Snapshot
  <2>. QED  BY <1>4, <2>1 DEF MeshOnly, Distinct, StaleLeft, Applying
<1>5. {} \in Snapshot /\ \A m \in Member : {m} \in Snapshot
  BY DEF Snapshot
<1>6. ASSUME NEW m \in Member, ClientJoin(m) PROVE MeshOnly' /\ Distinct' /\ StaleLeft' /\ Applying'
  BY <1>0, <1>4, <1>6 DEF ClientJoin, Operation, Distinct
<1>7. ASSUME NEW n \in Name, ClientLeave(n) PROVE MeshOnly' /\ Distinct' /\ StaleLeft' /\ Applying'
  BY <1>0, <1>4, <1>7 DEF ClientLeave, Operation, Distinct
<1>8. ASSUME NEW m \in Member, Register(m) PROVE MeshOnly' /\ Distinct' /\ StaleLeft' /\ Applying'
  BY <1>0, <1>4, <1>5, <1>8 DEF Register, Operation, MeshOnly
<1>9. ASSUME NEW n \in Name, Deregister(n) PROVE MeshOnly' /\ Distinct' /\ StaleLeft' /\ Applying'
  BY <1>0, <1>4, <1>9 DEF Deregister, Operation, Distinct
<1>10. ASSUME NEW s \in Snapshot, ApplySnapshot(s)
       PROVE  MeshOnly' /\ Distinct' /\ StaleLeft' /\ Applying'
  <2>1. /\ pc' = "stale" /\ owner = "mesh" /\ owner' = "mesh" /\ applied' = {} /\ incoming' = s
        /\ stale_ids' = Names \ {m.name : m \in s} /\ UNCHANGED <<members, route>>
    BY <1>10 DEF ApplySnapshot, Operation, StaleIds
  <2>2. MeshOnly' /\ Distinct' /\ Applying'
    BY <1>0, <1>5, <2>1 DEF MeshOnly, Distinct, Applying
  <2>3. StaleLeft'
    BY <2>1 DEF StaleLeft, Names, NamesOf
  <2>. QED  BY <2>2, <2>3
<1>11. CASE RoundRobin
  BY <1>0, <1>11 DEF RoundRobin, MeshOnly, Distinct, StaleLeft, Applying, Names
<1>12. ASSUME NEW n \in Name, DropStale(n)
       PROVE  MeshOnly' /\ Distinct' /\ StaleLeft' /\ Applying'
  <2>1. /\ pc = "stale" /\ pc' = "stale" /\ Leave(n) /\ stale_ids' = stale_ids \ {n}
        /\ UNCHANGED <<owner, route, incoming, applied>>
    BY <1>12 DEF DropStale
  <2>2. owner = "mesh"
    BY <1>0, <2>1 DEF MeshOnly
  <2>3. Names' = Names \ {n}
    BY <1>0, <2>1, <2>2, LeaveMembers
  <2>4. MeshOnly'
    BY <1>0, <1>3, <2>1, <2>2 DEF MeshOnly
  <2>5. Distinct' /\ StaleLeft' /\ Applying'
    BY <1>0, <2>1, <2>3 DEF Distinct, StaleLeft, Applying
  <2>. QED  BY <2>4, <2>5
<1>13. CASE StaleDone
  <2>1. /\ pc = "stale" /\ stale_ids = {} /\ pc' = "register" /\ applied' = incoming
        /\ route' = (members # <<>>) /\ UNCHANGED <<members, owner, incoming>>
    BY <1>13 DEF StaleDone
  <2>2. Names' = Names
    BY <2>1 DEF Names
  <2>3. MeshOnly' /\ Distinct' /\ StaleLeft'
    BY <1>0, <2>1 DEF MeshOnly, Distinct, StaleLeft
  <2>4. Applying'
    BY <1>0, <2>1, <2>2 DEF StaleLeft, Applying
  <2>. QED  BY <2>3, <2>4
<1>14. ASSUME NEW m \in Member, Displace(m)
       PROVE  MeshOnly' /\ Distinct' /\ StaleLeft' /\ Applying'
  <2>1. /\ pc = "register" /\ m \in incoming /\ pc' = "join" /\ record' = m
        /\ incoming' = incoming \ {m} /\ route' = TRUE /\ UNCHANGED <<owner, applied>>
    BY <1>14 DEF Displace
  <2>2. owner = "mesh" /\ Agreement
    BY <1>0, <2>1 DEF MeshOnly
  <2>3. /\ ToSet(members') \subseteq ToSet(members) /\ Names' \subseteq Names
        /\ \A x \in ToSet(members) \ ToSet(members') : x.name = m.name
    <3>1. CASE Displaces(m)
      BY <1>14, <2>2, <3>1, LeaveMembers DEF Displace
    <3>2. CASE ~Displaces(m)
      BY <1>14, <3>2 DEF Displace, Names
    <3>. QED  BY <3>1, <3>2
  <2>4. MeshOnly' /\ StaleLeft'
    BY <1>0, <2>1, <2>2 DEF MeshOnly, StaleLeft
  <2>5. Distinct'
    BY <1>0, <2>1 DEF Distinct, Snapshot
  <2>6. Applying'
    <3> SUFFICES ASSUME applied # {}
                 PROVE  /\ Names' \subseteq NamesOf(applied)
                        /\ incoming' \subseteq applied /\ m \in applied
                        /\ \A x \in applied \ ToSet(members') : x \in incoming' \/ x = m
      BY <2>1 DEF Applying
    <3>1. /\ Names \subseteq NamesOf(applied) /\ incoming \subseteq applied
          /\ \A x \in applied \ ToSet(members) : x \in incoming
      BY <1>0, <2>1 DEF Applying
    <3>2. \A x, y \in applied : x.name = y.name => x = y
      BY <1>0 DEF Distinct, Snapshot
    <3>3. m \in applied
      BY <2>1, <3>1
    <3>4. ASSUME NEW x \in applied \ ToSet(members') PROVE x \in incoming' \/ x = m
      <4>1. CASE x \in ToSet(members)
        BY <2>3, <3>2, <3>3, <3>4, <4>1
      <4>2. CASE x \notin ToSet(members)
        BY <2>1, <3>1, <3>4, <4>2
      <4>. QED  BY <4>1, <4>2
    <3>. QED  BY <2>1, <2>3, <3>1, <3>3, <3>4
  <2>. QED  BY <2>4, <2>5, <2>6
<1>15. CASE JoinRecord
  <2>1. /\ pc = "join" /\ pc' = "register" /\ Join(record) /\ record \in Member
        /\ UNCHANGED <<owner, route, incoming, applied>>
    BY <1>0, <1>15 DEF JoinRecord, Aligned, TableTypes
  <2>2. ToSet(members') = ToSet(members) \cup {record} /\ Names' = Names \cup {record.name}
    BY <1>0, <2>1, JoinMembers
  <2>3. MeshOnly' /\ Distinct' /\ StaleLeft'
    BY <1>0, <2>1 DEF MeshOnly, Distinct, StaleLeft
  <2>4. Applying'
    BY <1>0, <2>1, <2>2 DEF Applying, NamesOf
  <2>. QED  BY <2>3, <2>4
<1>16. CASE JoinPanics
  BY <1>0, <1>4, <1>5, <1>16 DEF JoinPanics, MeshOnly
<1>17. CASE RegisterDone
  BY <1>0, <1>17 DEF RegisterDone, MeshOnly, Distinct, StaleLeft, Applying, Names
<1>18. CASE UNCHANGED vars
  BY <1>0, <1>18 DEF vars, control, MeshOnly, Distinct, StaleLeft, Applying, Names
<1>. QED
  BY <1>6, <1>7, <1>8, <1>9, <1>10, <1>11, <1>12, <1>13, <1>14, <1>15, <1>16, <1>17, <1>18 DEF Next

\* apply_snapshot_diff leaves exactly the snapshot in the mesh, whatever the
\* roster was, in whatever order stale members are dropped and records joined.
THEOREM SnapshotsAreExact == Spec => []SnapshotExact
<1>1. Init => SnapshotInv
  <2> SUFFICES ASSUME Init PROVE SnapshotInv
    OBVIOUS
  <2>1. Aligned
    BY InitAligned
  <2>2. Agreement
    BY <2>1 DEF Init, Agreement, SameNames, JoinIsFresh, Names
  <2>3. MeshOnly /\ Distinct /\ StaleLeft /\ Applying
    BY DEF Init, MeshOnly, Distinct, Snapshot, StaleLeft, Applying
  <2>. QED  BY <2>1, <2>2, <2>3 DEF SnapshotInv
<1>2. SnapshotInv => SnapshotExact
  <2> SUFFICES ASSUME SnapshotInv, pc = "idle", applied # {} PROVE Records = applied
    BY DEF SnapshotExact
  <2>1. /\ applied \subseteq ToSet(members) /\ Names \subseteq NamesOf(applied)
        /\ owner = "mesh" /\ SameNames
    BY DEF SnapshotInv, Applying, MeshOnly, Agreement
  <2>2. members # <<>>
    BY <2>1 DEF ToSet
  <2>3. route
    BY <2>1, <2>2 DEF SnapshotInv, MeshOnly
  <2>4. \A x, y \in ToSet(members) : x.name = y.name => x = y
    BY <2>1 DEF SameNames, ToSet
  <2>5. \A x \in ToSet(members) : \E y \in applied : x.name = y.name
    BY <2>1 DEF Names, NamesOf, ToSet
  <2>6. ToSet(members) \subseteq applied
    BY <2>1, <2>4, <2>5
  <2>. QED  BY <2>1, <2>3, <2>6 DEF Records
<1>. QED  BY <1>1, <1>2, SnapshotStep, PTL DEF Spec
=============================================================================
