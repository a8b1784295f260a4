---------------------------- MODULE ChannelLemmas ----------------------------
(***************************************************************************)
(* What a push and a pop make of a channel: the facts about sequences that *)
(* the proofs about connections and queues share.                          *)
(***************************************************************************)
EXTENDS Naturals, Sequences, SequencesExt, TLAPS

\* A push adds one element at the end.
LEMMA Push ==
    ASSUME NEW S, NEW q \in Seq(S), NEW x \in S
    PROVE  /\ Append(q, x) \in Seq(S) /\ Len(Append(q, x)) = Len(q) + 1 /\ Len(q) \in Nat
           /\ DOMAIN q = 1 .. Len(q) /\ DOMAIN Append(q, x) = 1 .. Len(q) + 1
           /\ \A k \in DOMAIN q : Append(q, x)[k] = q[k]
           /\ Append(q, x)[Len(q) + 1] = x
           /\ ToSet(Append(q, x)) = ToSet(q) \cup {x}
<1>1. Append(q, x) \in Seq(S) /\ Len(Append(q, x)) = Len(q) + 1 /\ Len(q) \in Nat /\ DOMAIN q = 1 .. Len(q)
  OBVIOUS
<1>2. DOMAIN Append(q, x) = 1 .. Len(q) + 1
  BY <1>1
<1>3. (\A k \in DOMAIN q : Append(q, x)[k] = q[k]) /\ Append(q, x)[Len(q) + 1] = x
  BY <1>1
<1>4. ToSet(Append(q, x)) = ToSet(q) \cup {x}
  <2>1. ASSUME NEW y \in ToSet(Append(q, x)) PROVE y \in ToSet(q) \cup {x}
    <3>1. PICK k \in DOMAIN Append(q, x) : y = Append(q, x)[k]
      BY <2>1 DEF ToSet
    <3>2. k \in DOMAIN q \/ k = Len(q) + 1
      BY <1>1, <1>2
    <3> QED BY <1>3, <3>1, <3>2 DEF ToSet
  <2>2. ASSUME NEW k \in DOMAIN q PROVE q[k] \in ToSet(Append(q, x))
    <3>1. k \in DOMAIN Append(q, x) /\ Append(q, x)[k] = q[k]
      BY <1>1, <1>2, <1>3
    <3> QED BY <3>1 DEF ToSet
  <2>3. x \in ToSet(Append(q, x))
    <3>1. Len(q) + 1 \in DOMAIN Append(q, x)
      BY <1>1, <1>2
    <3> QED BY <1>3, <3>1 DEF ToSet
  <2>4. ToSet(q) \subseteq ToSet(Append(q, x))
    BY <2>2 DEF ToSet
  <2> QED BY <2>1, <2>3, <2>4
<1> QED BY <1>1, <1>2, <1>3, <1>4

\* A pop removes the first and shifts the rest.
LEMMA Pop ==
    ASSUME NEW S, NEW q \in Seq(S), q # <<>>
    PROVE  /\ Head(q) \in S /\ Head(q) = q[1] /\ 1 \in DOMAIN q /\ Len(q) \in Nat
           /\ Tail(q) \in Seq(S) /\ Len(Tail(q)) = Len(q) - 1
           /\ DOMAIN q = 1 .. Len(q) /\ DOMAIN Tail(q) = 1 .. Len(q) - 1
           /\ \A k \in DOMAIN Tail(q) : k + 1 \in DOMAIN q /\ k + 1 # 1 /\ Tail(q)[k] = q[k + 1]
           /\ IsInjective(q) => IsInjective(Tail(q)) /\ ToSet(Tail(q)) = ToSet(q) \ {Head(q)}
<1>1. /\ Head(q) \in S /\ Head(q) = q[1] /\ 1 \in DOMAIN q /\ Len(q) \in Nat
      /\ Tail(q) \in Seq(S) /\ Len(Tail(q)) = Len(q) - 1 /\ DOMAIN q = 1 .. Len(q)
      /\ \A k \in 1 .. Len(q) - 1 : Tail(q)[k] = q[k + 1]
  OBVIOUS
<1>2. DOMAIN Tail(q) = 1 .. Len(q) - 1
  BY <1>1
<1>3. \A k \in DOMAIN Tail(q) : k \in Nat /\ k + 1 \in DOMAIN q /\ k + 1 # 1 /\ Tail(q)[k] = q[k + 1]
  BY <1>1, <1>2
<1>4. ASSUME IsInjective(q) PROVE IsInjective(Tail(q)) /\ ToSet(Tail(q)) = ToSet(q) \ {Head(q)}
  <2>1. \A a, b \in DOMAIN q : q[a] = q[b] => a = b
    BY <1>4 DEF IsInjective
  <2>2. IsInjective(Tail(q))
    <3>1. ASSUME NEW a \in DOMAIN Tail(q), NEW b \in DOMAIN Tail(q), Tail(q)[a] = Tail(q)[b] PROVE a = b
      <4>1. a + 1 = b + 1
        BY <1>3, <2>1, <3>1
      <4> QED BY <1>3, <4>1
    <3> QED BY <3>1 DEF IsInjective
  <2>3. ASSUME NEW k \in DOMAIN Tail(q) PROVE Tail(q)[k] \in ToSet(q) \ {Head(q)}
    BY <1>1, <1>3, <2>1 DEF ToSet
  <2>4. ASSUME NEW k \in DOMAIN q, q[k] # Head(q) PROVE q[k] \in ToSet(Tail(q))
    <3>1. k # 1 /\ k \in 1 .. Len(q)
      BY <1>1, <2>4
    <3>2. k - 1 \in DOMAIN Tail(q) /\ (k - 1) + 1 = k
      BY <1>1, <1>2, <3>1
    <3>3. Tail(q)[k - 1] = q[k]
      BY <1>3, <3>2
    <3> QED BY <3>2, <3>3 DEF ToSet
  <2> QED BY <2>2, <2>3, <2>4 DEF ToSet
<1> QED BY <1>1, <1>2, <1>3, <1>4

=============================================================================
