------------------------------ MODULE Account ------------------------------
(***************************************************************************)
(* What the backtester's book-keeping amounts to: positions are bought one *)
(* at a time for a price that leaves the portfolio in the same step, and   *)
(* each is sold at most once, for money that comes back in the same step.  *)
(***************************************************************************)
EXTENDS Integers

VARIABLES
  money,   \* the portfolio, relative to the initial deposit
  held,    \* what each position that is held has cost
  bought   \* the number of positions bought so far; they are numbered

vars == <<money, held, bought>>

Init == money = 0 /\ held = <<>> /\ bought = 0

Buy ==
  /\ bought' = bought + 1
  /\ DOMAIN held' = DOMAIN held \cup {bought'}
  /\ \A p \in DOMAIN held : held'[p] = held[p]
  /\ held'[bought'] > 0
  /\ money' = money - held'[bought']

Sell ==
  /\ \E p \in DOMAIN held :
       held' = [other \in DOMAIN held \ {p} |-> held[other]]
  /\ money' > money
  /\ UNCHANGED bought

Next == Buy \/ Sell

Spec == Init /\ [][Next]_vars
=============================================================================
