------------------------- MODULE RecoverableRegister -------------------------
(***************************************************************************)
(* What the journalled calculator of examples/recoverable_timer_calc.rs    *)
(* promises: last_result behaves like one register that its process's      *)
(* crashes and restarts leave alone.  JournalApp implements it.            *)
(***************************************************************************)
CONSTANTS Values, None

VARIABLES
  value,      \* the result of the last operation that was acknowledged
  up,         \* somebody serves
  seen        \* what the last query was told

vars == <<value, up, seen>>

Init == value = None /\ up = FALSE /\ seen = None

Commit == up /\ value' \in Values /\ UNCHANGED <<up, seen>>

Read == up /\ seen' = value /\ UNCHANGED <<value, up>>

Crash == up /\ up' = FALSE /\ UNCHANGED <<value, seen>>

Recover == ~up /\ up' = TRUE /\ UNCHANGED <<value, seen>>

Next == Commit \/ Read \/ Crash \/ Recover

Spec == Init /\ [][Next]_vars
=============================================================================
