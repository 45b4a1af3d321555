-------------------------- MODULE UserDataProofs --------------------------
(***************************************************************************)
(* The slots of assocTradeInfo never mix up the data of two trades, for    *)
(* any number of trades, any data and any initial capacity.                *)
(***************************************************************************)
EXTENDS UserData, TLAPS

IInv == SlotsOK /\ DataFollowsTrade

\* Nothing is stored before the first call.
LEMMA InitHolds == Init => IInv
BY CapacitiesAreNat DEF Init, IInv, SlotsOK, DataFollowsTrade, Unknown, is_clear, Slot

\* What a slot holds.
LEMMA SlotTypes ==
    ASSUME IInv, NEW k \in DOMAIN m_Cont
    PROVE  m_Cont[k].tid \in Trades \cup {invalid_tid} /\ m_Cont[k].d \in Data
<1>1. m_Cont[k] \in Slot
  BY DEF IInv, SlotsOK
<1>2. QED
  BY <1>1 DEF Slot

\* Writing a trade and its data into a clear slot (fullData::set).
LEMMA SetKeeps ==
    ASSUME IInv, NEW t \in Trades, NEW d \in Data, kept[t] = Nothing, Set(t, d),
           kept' = [kept EXCEPT ![t] = d]
    PROVE  IInv'
<1>1. PICK i \in DOMAIN m_Cont :
          /\ IsFirstFree(i)
          /\ m_Cont' = [m_Cont EXCEPT ![i] = [tid |-> t, d |-> d]]
          /\ UNCHANGED capacity
  BY DEF Set
<1>2. /\ m_Cont \in Seq(Slot) /\ m_Cont[i].tid = invalid_tid
      /\ DOMAIN m_Cont' = DOMAIN m_Cont
  BY <1>1 DEF IInv, SlotsOK, IsFirstFree, is_clear
<1>3. [tid |-> t, d |-> d] \in Slot
  BY DEF Slot
<1>4. SlotsOK'
  BY <1>1, <1>2, <1>3 DEF IInv, SlotsOK
<1>5. \A k \in DOMAIN m_Cont : m_Cont[k].tid # t
  <2>1. SUFFICES ASSUME NEW k \in DOMAIN m_Cont, m_Cont[k].tid = t PROVE FALSE
    OBVIOUS
  <2>2. kept[t] = m_Cont[k].d /\ m_Cont[k] \in Slot
    BY <2>1, <1>2, IdsAreTold DEF IInv, DataFollowsTrade, is_clear
  <2>3. QED
    BY <2>2, NothingIsNotData DEF Slot
<1>6. /\ m_Cont'[i].tid = t /\ m_Cont'[i].d = d
      /\ \A k \in DOMAIN m_Cont : k # i => m_Cont'[k] = m_Cont[k]
  BY <1>1, <1>2
<1>7. /\ kept'[t] = d
      /\ \A u \in Trades : u # t => kept'[u] = kept[u]
  BY DEF IInv, SlotsOK
<1>8. \A k \in DOMAIN m_Cont : m_Cont[k].tid \in Trades \cup {invalid_tid}
  BY SlotTypes
<1>9. DataFollowsTrade'
  <2>1. ASSUME NEW k \in DOMAIN m_Cont', m_Cont'[k].tid # invalid_tid
        PROVE  kept'[m_Cont'[k].tid] = m_Cont'[k].d
    <3>1. CASE k = i
      BY <3>1, <1>6, <1>7
    <3>2. CASE k # i
      BY <3>2, <2>1, <1>2, <1>5, <1>6, <1>7, <1>8
         DEF IInv, DataFollowsTrade, is_clear
    <3>3. QED
      BY <3>1, <3>2
  <2>2. ASSUME NEW u \in Trades, kept'[u] # Nothing
        PROVE  \E k \in DOMAIN m_Cont' : m_Cont'[k].tid = u
    <3>1. CASE u = t
      BY <3>1, <1>2, <1>6
    <3>2. CASE u # t
      <4>1. PICK k \in DOMAIN m_Cont : m_Cont[k].tid = u
        BY <3>2, <2>2, <1>7 DEF IInv, DataFollowsTrade, Unknown
      <4>2. k # i
        BY <4>1, <1>2, IdsAreTold
      <4>3. QED
        BY <4>1, <4>2, <1>2, <1>6
    <3>3. QED
      BY <3>1, <3>2
  <2>3. ASSUME NEW k \in DOMAIN m_Cont', NEW j \in DOMAIN m_Cont',
               m_Cont'[k].tid # invalid_tid, m_Cont'[k].tid = m_Cont'[j].tid
        PROVE  k = j
    <3>1. CASE k = i \/ j = i
      BY <3>1, <2>3, <1>2, <1>5, <1>6
    <3>2. CASE k # i /\ j # i
      BY <3>2, <2>3, <1>2, <1>6 DEF IInv, DataFollowsTrade, is_clear
    <3>3. QED
      BY <3>1, <3>2
  <2>4. QED
    BY <2>1, <2>2, <2>3 DEF DataFollowsTrade, Unknown, is_clear
<1>10. QED
  BY <1>4, <1>9 DEF IInv

\* A slot added at the end (emplace_back), with room or without.
LEMMA AppendKeeps ==
    ASSUME IInv, NEW t \in Trades, NEW d \in Data, kept[t] = Nothing,
           m_Cont' = Append(m_Cont, [tid |-> t, d |-> d]),
           capacity' \in Nat,
           kept' = [kept EXCEPT ![t] = d]
    PROVE  IInv'
<1>1. m_Cont \in Seq(Slot)
  BY DEF IInv, SlotsOK
<1>2. [tid |-> t, d |-> d] \in Slot
  BY DEF Slot
<1>3. SlotsOK'
  BY <1>1, <1>2 DEF IInv, SlotsOK
<1> DEFINE n == Len(m_Cont) + 1
<1>4. /\ DOMAIN m_Cont' = DOMAIN m_Cont \cup {n} /\ n \notin DOMAIN m_Cont
      /\ m_Cont'[n].tid = t /\ m_Cont'[n].d = d
      /\ \A k \in DOMAIN m_Cont : m_Cont'[k] = m_Cont[k]
  BY <1>1, <1>2
<1> HIDE DEF n
<1>5. \A k \in DOMAIN m_Cont : m_Cont[k].tid # t
  <2>1. SUFFICES ASSUME NEW k \in DOMAIN m_Cont, m_Cont[k].tid = t PROVE FALSE
    OBVIOUS
  <2>2. kept[t] = m_Cont[k].d /\ m_Cont[k] \in Slot
    BY <2>1, <1>1, IdsAreTold DEF IInv, DataFollowsTrade, is_clear
  <2>3. QED
    BY <2>2, NothingIsNotData DEF Slot
<1>6. /\ kept'[t] = d
      /\ \A u \in Trades : u # t => kept'[u] = kept[u]
  BY DEF IInv, SlotsOK
<1>7. \A k \in DOMAIN m_Cont : m_Cont[k].tid \in Trades \cup {invalid_tid}
  BY SlotTypes
<1>8. DataFollowsTrade'
  <2>1. ASSUME NEW k \in DOMAIN m_Cont', m_Cont'[k].tid # invalid_tid
        PROVE  kept'[m_Cont'[k].tid] = m_Cont'[k].d
    <3>1. CASE k = n
      BY <3>1, <1>4, <1>6
    <3>2. CASE k # n
      BY <3>2, <2>1, <1>4, <1>5, <1>6, <1>7 DEF IInv, DataFollowsTrade, is_clear
    <3>3. QED
      BY <3>1, <3>2
  <2>2. ASSUME NEW u \in Trades, kept'[u] # Nothing
        PROVE  \E k \in DOMAIN m_Cont' : m_Cont'[k].tid = u
    <3>1. CASE u = t
      BY <3>1, <1>4
    <3>2. CASE u # t
      BY <3>2, <2>2, <1>4, <1>6 DEF IInv, DataFollowsTrade, Unknown
    <3>3. QED
      BY <3>1, <3>2
  <2>3. ASSUME NEW k \in DOMAIN m_Cont', NEW j \in DOMAIN m_Cont',
               m_Cont'[k].tid # invalid_tid, m_Cont'[k].tid = m_Cont'[j].tid
        PROVE  k = j
    <3>1. CASE k = n \/ j = n
      BY <3>1, <2>3, <1>4, <1>5
    <3>2. CASE k # n /\ j # n
      BY <3>2, <2>3, <1>4 DEF IInv, DataFollowsTrade, is_clear
    <3>3. QED
      BY <3>1, <3>2
  <2>4. QED
    BY <2>1, <2>2, <2>3 DEF DataFollowsTrade, Unknown, is_clear
<1>9. QED
  BY <1>3, <1>8 DEF IInv

\* Clearing the slot of a trade (fullData::clear).
LEMMA FreeKeeps ==
    ASSUME IInv, NEW t \in Trades, Free(t)
    PROVE  IInv'
<1>1. PICK i \in DOMAIN m_Cont :
          /\ Finds(t, i)
          /\ m_Cont' = [m_Cont EXCEPT ![i].tid = invalid_tid]
  BY DEF Free
<1>2. /\ m_Cont \in Seq(Slot) /\ m_Cont[i].tid = t /\ m_Cont[i] \in Slot
      /\ DOMAIN m_Cont' = DOMAIN m_Cont
  BY <1>1 DEF IInv, SlotsOK, Finds
<1>3. [m_Cont[i] EXCEPT !.tid = invalid_tid] \in Slot
  BY <1>2 DEF Slot
<1>4. /\ m_Cont'[i].tid = invalid_tid
      /\ \A k \in DOMAIN m_Cont : k # i => m_Cont'[k] = m_Cont[k]
  BY <1>1, <1>2 DEF Slot
<1>5. /\ kept' = [kept EXCEPT ![t] = Nothing] /\ capacity' = capacity
      /\ kept'[t] = Nothing
      /\ \A u \in Trades : u # t => kept'[u] = kept[u]
  BY DEF Free, IInv, SlotsOK
<1>6. SlotsOK'
  BY <1>1, <1>2, <1>3, <1>5 DEF IInv, SlotsOK
<1>7. \A k \in DOMAIN m_Cont : k # i => m_Cont[k].tid # t
  BY <1>2, IdsAreTold DEF IInv, DataFollowsTrade, is_clear
<1>8. \A k \in DOMAIN m_Cont : m_Cont[k].tid \in Trades \cup {invalid_tid}
  BY SlotTypes
<1>9. DataFollowsTrade'
  <2>1. ASSUME NEW k \in DOMAIN m_Cont', m_Cont'[k].tid # invalid_tid
        PROVE  kept'[m_Cont'[k].tid] = m_Cont'[k].d
    BY <2>1, <1>2, <1>4, <1>5, <1>7, <1>8 DEF IInv, DataFollowsTrade, is_clear
  <2>2. ASSUME NEW u \in Trades, kept'[u] # Nothing
        PROVE  \E k \in DOMAIN m_Cont' : m_Cont'[k].tid = u
    <3>1. u # t
      BY <2>2, <1>5
    <3>2. PICK k \in DOMAIN m_Cont : m_Cont[k].tid = u
      BY <3>1, <2>2, <1>5 DEF IInv, DataFollowsTrade, Unknown
    <3>3. QED
      BY <3>1, <3>2, <1>2, <1>4
  <2>3. ASSUME NEW k \in DOMAIN m_Cont', NEW j \in DOMAIN m_Cont',
               m_Cont'[k].tid # invalid_tid, m_Cont'[k].tid = m_Cont'[j].tid
        PROVE  k = j
    BY <2>3, <1>2, <1>4 DEF IInv, DataFollowsTrade, is_clear
  <2>4. QED
    BY <2>1, <2>2, <2>3 DEF DataFollowsTrade, Unknown, is_clear
<1>10. QED
  BY <1>6, <1>9 DEF IInv

\* Writing through the reference that get() returns.
LEMMA GetKeeps ==
    ASSUME IInv, NEW t \in Trades, NEW d \in Data, Get(t, d)
    PROVE  IInv'
<1>1. PICK i \in DOMAIN m_Cont :
          /\ Finds(t, i)
          /\ m_Cont' = [m_Cont EXCEPT ![i].d = d]
  BY DEF Get
<1>2. /\ m_Cont \in Seq(Slot) /\ m_Cont[i].tid = t /\ m_Cont[i] \in Slot
      /\ DOMAIN m_Cont' = DOMAIN m_Cont
  BY <1>1 DEF IInv, SlotsOK, Finds
<1>3. [m_Cont[i] EXCEPT !.d = d] \in Slot
  BY <1>2 DEF Slot
<1>4. /\ m_Cont'[i].tid = t /\ m_Cont'[i].d = d
      /\ \A k \in DOMAIN m_Cont : k # i => m_Cont'[k] = m_Cont[k]
      /\ \A k \in DOMAIN m_Cont : m_Cont'[k].tid = m_Cont[k].tid
  BY <1>1, <1>2 DEF Slot
<1>5. /\ kept' = [kept EXCEPT ![t] = d] /\ capacity' = capacity
      /\ kept'[t] = d
      /\ \A u \in Trades : u # t => kept'[u] = kept[u]
  BY DEF Get, IInv, SlotsOK
<1>6. SlotsOK'
  BY <1>1, <1>2, <1>3, <1>5 DEF IInv, SlotsOK
<1>7. \A k \in DOMAIN m_Cont : k # i => m_Cont[k].tid # t
  BY <1>2, IdsAreTold DEF IInv, DataFollowsTrade, is_clear
<1>8. \A k \in DOMAIN m_Cont : m_Cont[k].tid \in Trades \cup {invalid_tid}
  BY SlotTypes
<1>9. DataFollowsTrade'
  <2>1. ASSUME NEW k \in DOMAIN m_Cont', m_Cont'[k].tid # invalid_tid
        PROVE  kept'[m_Cont'[k].tid] = m_Cont'[k].d
    <3>1. CASE k = i
      BY <3>1, <1>4, <1>5
    <3>2. CASE k # i
      BY <3>2, <2>1, <1>2, <1>4, <1>5, <1>7, <1>8
         DEF IInv, DataFollowsTrade, is_clear
    <3>3. QED
      BY <3>1, <3>2
  <2>2. ASSUME NEW u \in Trades, kept'[u] # Nothing
        PROVE  \E k \in DOMAIN m_Cont' : m_Cont'[k].tid = u
    <3>1. CASE u = t
      BY <3>1, <1>2, <1>4
    <3>2. CASE u # t
      BY <3>2, <2>2, <1>2, <1>4, <1>5 DEF IInv, DataFollowsTrade, Unknown
    <3>3. QED
      BY <3>1, <3>2
  <2>3. ASSUME NEW k \in DOMAIN m_Cont', NEW j \in DOMAIN m_Cont',
               m_Cont'[k].tid # invalid_tid, m_Cont'[k].tid = m_Cont'[j].tid
        PROVE  k = j
    BY <2>3, <1>2, <1>4 DEF IInv, DataFollowsTrade, is_clear
  <2>4. QED
    BY <2>1, <2>2, <2>3 DEF DataFollowsTrade, Unknown, is_clear
<1>10. QED
  BY <1>6, <1>9 DEF IInv

\* Every call of the class keeps trades and their data together.
LEMMA StepKeeps == IInv /\ [Next]_vars => IInv'
<1> SUFFICES ASSUME IInv, [Next]_vars PROVE IInv'
  OBVIOUS
<1>1. CASE UNCHANGED vars
  BY <1>1 DEF vars, IInv, SlotsOK, DataFollowsTrade, Unknown, is_clear
<1>2. ASSUME NEW t \in Trades, NEW d \in Data, Store(t, d) PROVE IInv'
  <2>1. kept[t] = Nothing /\ kept' = [kept EXCEPT ![t] = d]
    BY <1>2 DEF Store
  <2>2. capacity \in Nat
    BY DEF IInv, SlotsOK
  <2>3. CASE Set(t, d)
    BY <2>1, <2>3, SetKeeps
  <2>4. CASE Emplace(t, d)
    BY <2>1, <2>2, <2>4, AppendKeeps DEF Emplace
  <2>5. CASE Grow(t, d)
    <3>1. capacity' \in Nat
      BY <2>2, <2>5 DEF Grow
    <3>2. QED
      BY <2>1, <2>5, <3>1, AppendKeeps DEF Grow
  <2>6. QED
    BY <1>2, <2>3, <2>4, <2>5 DEF Store
<1>3. ASSUME NEW t \in Trades, StoreFails(t) \/ FindFails(t) PROVE IInv'
  <2>1. UNCHANGED <<m_Cont, capacity, kept>>
    BY <1>3 DEF StoreFails, FindFails
  <2>2. QED
    BY <2>1 DEF IInv, SlotsOK, DataFollowsTrade, Unknown, is_clear
<1>4. QED
  BY <1>1, <1>2, <1>3, FreeKeeps, GetKeeps DEF Next

\* Whatever trades come and go, a trade has its slot exactly while data is kept for
\* it, and that slot holds the trade's own data (store, free and get of
\* assocTradeInfo).
THEOREM DataFollows == Spec => []DataFollowsTrade
<1>1. IInv => DataFollowsTrade
  BY DEF IInv
<1>2. QED
  BY InitHolds, StepKeeps, <1>1, PTL DEF Spec
============================================================================
