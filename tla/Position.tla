------------------------------ MODULE Position ------------------------------
(***************************************************************************)
(* What a trade promises to the strategy that owns it, without deals,      *)
(* failure codes or executors: a position is built up to the size that was *)
(* asked for, is left on request, is out only when every share that came   *)
(* in has gone, and a broken or closed position stays what it is.          *)
(***************************************************************************)
EXTENDS Integers

CONSTANT MaxShares

VARIABLES
  phase,   \* "entering", "in", "leaving", "out" or "broken"
  size,    \* the volume that was asked for
  held     \* the volume held; unknown once the position is broken

vars == <<phase, size, held>>

Init ==
  /\ phase = "entering"
  /\ size \in 1..MaxShares
  /\ held = 0

Enter ==
  /\ phase = "entering"
  /\ held' > held /\ held' <= size
  /\ phase' = IF held' = size THEN "in" ELSE "entering"
  /\ UNCHANGED size

\* An exit may be asked for again while it is under way.
AskToLeave ==
  /\ phase \in {"entering", "in", "leaving"}
  /\ held > 0
  /\ phase' = "leaving"
  /\ UNCHANGED <<size, held>>

Leave ==
  /\ phase = "leaving"
  /\ 0 <= held' /\ held' < held
  /\ phase' = IF held' = 0 THEN "out" ELSE "leaving"
  /\ UNCHANGED size

Break ==
  /\ phase \in {"entering", "in", "leaving"}
  /\ phase' = "broken"
  /\ held' \in Int
  /\ UNCHANGED size

Next == Enter \/ AskToLeave \/ Leave \/ Break

Spec == Init /\ [][Next]_vars
=============================================================================
