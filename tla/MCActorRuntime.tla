--------------------------- MODULE MCActorRuntime ---------------------------
(* Small instances of ActorRuntime for TLC.                                 *)
EXTENDS ActorRuntime, TLC

CONSTANTS a1, a2, a3, t1, t2, o1, o2

None == {}
One == {a1}
Pair == {a1, a2}
Three == {a1, a2, a3}
Symmetric == Permutations(Three)

\* A budget that names the kinds it allows; every other kind is never called.
Only(b) == [k \in CallKinds |-> IF k \in DOMAIN b THEN b[k] ELSE 0]
LinkKill == Only([Link |-> 3, Kill |-> 1])
OneEach == [k \in CallKinds |-> 1]
TwoMonitors == [OneEach EXCEPT !["Monitor"] = 2]
LinkFail == Only([Msg |-> 2, Link |-> 1])

Tokens == {t1, t2}
\* Two monitors of different observers.
Observers == t1 :> o1 @@ t2 :> o2
NoObservers == <<>>
=============================================================================
