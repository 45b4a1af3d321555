----------------------------- MODULE UserData -----------------------------
(***************************************************************************)
(* assocTradeInfo (src/t18/exec/assocTradeInfo.h): data a strategy keeps   *)
(* for its opened trades, in the slots of a std::vector.  A slot of a      *)
(* finished trade is used again; when there is none, the vector grows and  *)
(* copies its slots.  A slot without a trade has tid = invalid_tid.        *)
(***************************************************************************)
EXTENDS Naturals, Sequences

CONSTANTS
    Trades,         \* identifiers of trades
    Data,           \* what a strategy keeps, data_t() included
    Nothing,        \* no data
    invalid_tid,
    Capacities      \* initCapacity, zero for the constructor without it

ASSUME IdsAreTold == invalid_tid \notin Trades
ASSUME CapacitiesAreNat == Capacities \subseteq Nat
ASSUME NothingIsNotData == Nothing \notin Data

VARIABLES
    m_Cont,         \* the slots
    capacity,       \* of the vector
    kept,           \* history: what was last kept for a trade, Nothing if none is
    thrown          \* what the last call threw

vars == <<m_Cont, capacity, kept, thrown>>

Slot == [tid : Trades \cup {invalid_tid}, d : Data]

is_clear(i) == m_Cont[i].tid = invalid_tid

Init ==
    /\ m_Cont = <<>>
    /\ capacity \in Capacities
    /\ kept = [t \in Trades |-> Nothing]
    /\ thrown = "nothing"

----------------------------------------------------------------------------
\* _first_free.
X_IsFirstFree_Any(i) == i = 1         \* mutant: the first slot, free or not
IsFirstFree(i) == is_clear(i) /\ \A j \in 1 .. i - 1 : ~is_clear(j)

NoneFree == \A i \in DOMAIN m_Cont : ~is_clear(i)

Set(t, d) ==
    \E i \in DOMAIN m_Cont :
        /\ IsFirstFree(i)
        /\ m_Cont' = [m_Cont EXCEPT ![i] = [tid |-> t, d |-> d]]
        /\ UNCHANGED capacity

\* emplace_back with room left.
Emplace(t, d) ==
    /\ NoneFree /\ Len(m_Cont) < capacity
    /\ m_Cont' = Append(m_Cont, [tid |-> t, d |-> d])
    /\ UNCHANGED capacity

\* The copy of a slot sets its tid to invalid_tid first and then asks itself for
\* its data: it throws whenever the slot it copies holds a trade.
CopyThrows == \E i \in DOMAIN m_Cont : ~is_clear(i)

\* emplace_back without room: the slots are copied; if a copy throws the vector
\* stays as it was.
Grow(t, d) ==
    /\ NoneFree /\ Len(m_Cont) = capacity /\ ~CopyThrows
    /\ m_Cont' = Append(m_Cont, [tid |-> t, d |-> d])
    /\ capacity' = IF capacity = 0 THEN 1 ELSE 2 * capacity

\* store(), with data or with a default.  Callers store once for a trade (the
\* assertion of store()).
Store(t, d) ==
    /\ kept[t] = Nothing
    /\ Set(t, d) \/ Emplace(t, d) \/ Grow(t, d)
    /\ kept' = [kept EXCEPT ![t] = d]
    /\ thrown' = "nothing"

StoreFails(t) ==
    /\ kept[t] = Nothing
    /\ NoneFree /\ Len(m_Cont) = capacity /\ CopyThrows
    /\ thrown' = "no data"
    /\ UNCHANGED <<m_Cont, capacity, kept>>

\* _find: the first slot of the trade.
Finds(t, i) == m_Cont[i].tid = t /\ \A j \in 1 .. i - 1 : m_Cont[j].tid # t
Unknown(t)  == \A i \in DOMAIN m_Cont : m_Cont[i].tid # t

\* free().
Free(t) ==
    /\ \E i \in DOMAIN m_Cont :
          /\ Finds(t, i)
          /\ m_Cont' = [m_Cont EXCEPT ![i].tid = invalid_tid]
    /\ kept' = [kept EXCEPT ![t] = Nothing]
    /\ thrown' = "nothing"
    /\ UNCHANGED capacity

\* get(), and what the strategy writes through the reference.
Get(t, d) ==
    /\ \E i \in DOMAIN m_Cont :
          /\ Finds(t, i)
          /\ m_Cont' = [m_Cont EXCEPT ![i].d = d]
    /\ kept' = [kept EXCEPT ![t] = d]
    /\ thrown' = "nothing"
    /\ UNCHANGED capacity

\* free() or get() of a trade that has no data.
FindFails(t) ==
    /\ Unknown(t)
    /\ thrown' = "no such trade"
    /\ UNCHANGED <<m_Cont, capacity, kept>>

Next == \E t \in Trades :
    \/ \E d \in Data : Store(t, d) \/ Get(t, d)
    \/ StoreFails(t) \/ Free(t) \/ FindFails(t)

Spec == Init /\ [][Next]_vars

----------------------------------------------------------------------------
SlotsOK == /\ m_Cont \in Seq(Slot)
           /\ capacity \in Nat
           /\ kept \in [Trades -> Data \cup {Nothing}]

\* A trade has a slot exactly while something is kept for it, it has one slot
\* only, and the slot holds what was last kept: using slots again mixes nothing up.
DataFollowsTrade ==
    /\ \A i \in DOMAIN m_Cont :
          ~is_clear(i) => kept[m_Cont[i].tid] = m_Cont[i].d
    /\ \A t \in Trades : kept[t] # Nothing => ~Unknown(t)
    /\ \A i, j \in DOMAIN m_Cont :
          ~is_clear(i) /\ m_Cont[i].tid = m_Cont[j].tid => i = j
============================================================================
