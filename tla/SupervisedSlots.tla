--------------------------- MODULE SupervisedSlots ---------------------------
(***************************************************************************)
(* What a OneForOne supervisor of src/supervisor.rs promises of its slots: *)
(* a slot is filled once at the start and again only after its child       *)
(* failed, always by a newer instance; a child that ended in another way,  *)
(* or that the supervisor gave up, is never replaced.  Supervisor          *)
(* implements it.                                                          *)
(***************************************************************************)
EXTENDS Naturals

CONSTANT Slot

VARIABLES
  status,  \* of each slot: "vacant", "up", "failed" or "down"
  who      \* the instance each slot has, 0 for none

vars == <<status, who>>

Init == status = [s \in Slot |-> "vacant"] /\ who = [s \in Slot |-> 0]

\* A new instance comes up, at the start or in place of one that failed.
Fill(s) ==
  /\ status[s] \in {"vacant", "failed"}
  /\ status' = [status EXCEPT ![s] = "up"]
  /\ who'[s] \in Nat /\ who'[s] > who[s]
  /\ who' = [who EXCEPT ![s] = who'[s]]

\* A handler fails: a replacement may follow.
Fail(s) ==
  /\ status[s] = "up"
  /\ status' = [status EXCEPT ![s] = "failed"]
  /\ UNCHANGED who

\* Children end for good: stopped, killed, given up, or left by a supervisor that
\* ends, which may leave several that failed.
End(S) ==
  /\ \A s \in S : status[s] \in {"up", "failed"}
  /\ status' = [s \in Slot |-> IF s \in S THEN "down" ELSE status[s]]
  /\ UNCHANGED who

Next == (\E s \in Slot : Fill(s) \/ Fail(s)) \/ (\E S \in SUBSET Slot : End(S))

Spec == Init /\ [][Next]_vars
=============================================================================
