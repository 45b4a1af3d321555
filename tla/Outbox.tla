------------------------------- MODULE Outbox -------------------------------
(***************************************************************************)
(* What the client of the quote server promises about the packets it is    *)
(* given: they leave in the order they were given, each at most once, and  *)
(* none leaves when the connection has been shut down.                     *)
(***************************************************************************)
EXTENDS Naturals, Sequences

VARIABLES
  given,  \* how many packets have been given: packet n is the n-th of them
  sent,   \* the packets that have left, first to last
  shut

vars == <<given, sent, shut>>

Init == given = 0 /\ sent = <<>> /\ shut = FALSE

Give == given' = given + 1 /\ UNCHANGED <<sent, shut>>

Send ==
  /\ ~shut /\ Len(sent) < given
  /\ sent' = Append(sent, Len(sent) + 1)
  /\ UNCHANGED <<given, shut>>

Shut == shut' = TRUE /\ UNCHANGED <<given, sent>>

Next == Give \/ Send \/ Shut

Spec == Init /\ [][Next]_vars
=============================================================================
