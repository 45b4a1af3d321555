----------------------------- MODULE OrdersStop -----------------------------
(***************************************************************************)
(* The store of waiting stop orders of the backtester (ordersStopData of   *)
(* exec/backtester.h): a vector of slots that only grows, in which a slot  *)
(* is cleaned when its order is gone and used again for a later one, and a *)
(* separate count of the orders in it.  A store is a record                *)
(* [slots: a sequence of orders and Clean, total: a count].                *)
(***************************************************************************)
EXTENDS Integers, Sequences, FiniteSets

CONSTANT Clean   \* what is left of a slot whose m_pTickr is null

EmptyStore == [slots |-> <<>>, total |-> 0]

\* The slots that hold an order.
Taken(store) == {i \in DOMAIN store.slots : store.slots[i] # Clean}

FirstClean(store) ==
  CHOOSE i \in DOMAIN store.slots \ Taken(store) :
    \A j \in DOMAIN store.slots \ Taken(store) : i <= j

\* addNew: a new slot when the count says that all are taken, otherwise the
\* first clean one; the count grows even if there is none.
AddNew(store, order) ==
  [slots |-> IF store.total = Len(store.slots) THEN Append(store.slots, order)
             ELSE IF Taken(store) = DOMAIN store.slots THEN store.slots
             ELSE [store.slots EXCEPT ![FirstClean(store)] = order],
   total |-> store.total + 1]

\* dropAll
DropAll(store) ==
  IF store.total = 0 THEN store
  ELSE [slots |-> [i \in DOMAIN store.slots |-> Clean], total |-> 0]

\* drop_idx throws unless the index is in the vector and the count is positive.
CanDrop_OffByOne(store, i) == i < Len(store.slots) /\ store.total > 0
CanDrop(store, i) == i \in DOMAIN store.slots /\ store.total > 0

DropIdx_KeepsOrder(store, i) == [store EXCEPT !.total = @ - 1]
DropIdx(store, i) ==
  [slots |-> [store.slots EXCEPT ![i] = Clean], total |-> store.total - 1]

\* What every caller relies on: the count is the number of taken slots.
CountExact(store) == store.total = Cardinality(Taken(store))
=============================================================================
