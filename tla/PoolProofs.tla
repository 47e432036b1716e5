----------------------------- MODULE PoolProofs -----------------------------
(***************************************************************************)
(* Theorems about what the library is built on: the pools that its tags get  *)
(* their PLCs and sessions from, the vectors it keeps them in, and the       *)
(* condition variables its threads wait on, for any number of tags,          *)
(* connections, sessions, elements, threads and failures.                    *)
(***************************************************************************)
EXTENDS Pools, ModbusPoolProofs, SessionPoolProofs, Vector, Cond,
        FiniteSetTheorems, WellFoundedInduction

\* Which provers to try on a step that names none, and for how many seconds.
USE SMTT(30), ZenonT(30), Z3T(30)

(***************************************************************************)
(* The facts about finite sets and naturals that the lemmas assume.          *)
(***************************************************************************)
\* The facts about finite sets hold.
LEMMA CountingHolds == Counting
<1>1. IsFiniteSet({}) /\ Cardinality({}) = 0
  BY FS_EmptySet, Zenon
<1>2. \A x : IsFiniteSet({x}) /\ Cardinality({x}) = 1
  BY FS_Singleton, Zenon
<1>3. ASSUME NEW S, IsFiniteSet(S) PROVE Counted(S)
  <2>1. Cardinality(S) \in Nat BY <1>3, FS_CardinalityType, Zenon
  <2>2. Cardinality(S) = 0 <=> S = {} BY <1>3, FS_EmptySet, Zenon
  <2>3. Cardinality(S) = 1 <=> \E x : S = {x} BY <1>3, FS_Singleton, Zenon
  <2>4. \A T \in SUBSET S : IsFiniteSet(T) BY <1>3, FS_Subset, Zenon
  <2>5. \A T : IsFiniteSet(T) => IsFiniteSet(S \cup T) BY <1>3, FS_Union, Zenon
  <2>6. ASSUME NEW x
        PROVE  /\ IsFiniteSet(S \cup {x})
               /\ Cardinality(S \cup {x}) =
                    IF x \in S THEN Cardinality(S) ELSE Cardinality(S) + 1
    BY <1>3, FS_AddElement, Zenon
  <2>7. ASSUME NEW x
        PROVE  /\ IsFiniteSet(S \ {x})
               /\ Cardinality(S \ {x}) =
                    IF x \in S THEN Cardinality(S) - 1 ELSE Cardinality(S)
    BY <1>3, FS_RemoveElement, Zenon
  <2> QED BY <2>1, <2>2, <2>3, <2>4, <2>5, <2>6, <2>7, Zenon DEF Counted
<1> QED BY <1>1, <1>2, <1>3, Zenon DEF Counting

\* A set of naturals has a least element.
LEMMA LeastHolds == Least
<1> SUFFICES ASSUME NEW T \in SUBSET Nat, T # {}
             PROVE  \E x \in T : \A y \in T : x <= y
  BY DEF Least
<1>1. PICK x \in T : \A y \in T : ~ (<<y, x>> \in OpToRel(<, Nat))
  BY NatLessThanWellFounded, WFMin, Zenon
<1>2. \A y \in T : ~ (y < x)
  BY <1>1, Zenon DEF OpToRel
<1> QED BY <1>2

-----------------------------------------------------------------------------
LEMMA PatientInvHolds == ASSUME ~ Timeouts PROVE Spec => []PatientInv
<1>1. ModbusInv /\ PatientInv /\ [Next]_vars => PatientInv'
  BY CountNext, ListedNext, CountingHolds DEF PatientInv
<1> QED BY <1>1, PatientInvInit, CountingHolds, ModbusInvHolds, PTL DEF Spec

\* At any time the tags that hold a PLC hold the same one (find_or_create_plc).
THEOREM ModbusOnePlc == Spec => []OnePlc
BY OneUsable, CountingHolds, ModbusInvHolds, PTL

\* A PLC object is freed only when neither a handler thread nor a tag uses it
\* (modbus_plc_destructor), whether or not the waits of mb_teardown run out.
THEOREM ModbusFreedIsUnused == Spec => []FreedIsUnused
<1>1. ModbusInv => FreedIsUnused
  BY DEF ModbusInv, TypeOK, RefsAgree, HandlersAgree, FreedIsUnused
<1> QED BY <1>1, ModbusInvHolds, PTL

\* While mb_teardown waits as long as it takes, the list holds no freed PLC and
\* nothing is left when the library is down.
THEOREM ModbusTeardown ==
  ASSUME ~ Timeouts
  PROVE  Spec => [](ListedIsAllocated /\ TeardownIsComplete)
<1>1. ModbusInv /\ PatientInv => ListedIsAllocated /\ TeardownIsComplete
  BY ListedElements DEF ModbusInv, TypeOK, PatientInv, CountAgrees, ListedAgree, ListedIsAllocated,
     TeardownIsComplete
<1> QED BY <1>1, ModbusInvHolds, PatientInvHolds, PTL

-----------------------------------------------------------------------------
LEMMA SessionInvHolds == PoolInit /\ [][PoolNext]_poolVars => []SessionInv
BY SessionInvInit, SessionInvNext, LeastHolds, PTL

\* Tags that share and ask for the same connection are on one session, and a tag
\* is on a session whose mutex and handler exist unless it found it early
\* (session_find_or_create, session_init).
THEOREM SessionsShared == PoolSpec => [](SharersShare /\ SessionIsReady)
<1>1. SessionInv => SessionIsReady
  BY ListInSessions DEF SessionInv, ThreadsAgree, SessionIsReady
<1> QED BY OneSession, <1>1, SessionInvHolds, PTL DEF PoolSpec

\* Neither a tag nor the list nor a handler thread leads to a freed session, and
\* the list that a teardown destroys is empty (session_destroy, session_teardown).
THEOREM SessionsFreed == PoolSpec => [](SessionsSafe /\ ListIsDone)
<1>1. SessionInv => SessionsSafe
  <2> SUFFICES ASSUME SessionInv, NEW s \in Sessions, sess[s].phase = "freed"
               PROVE  /\ users[s] = {} /\ s \notin Elements(sessions)
                      /\ \A t \in PoolTags : sessionOf[t] # s
                      /\ sess[s].thread # "running"
    BY DEF SessionsSafe
  <2> QED BY DEF SessionInv, UsersAgree, FirstOfList, ThreadsAgree
<1>2. SessionInv => ListIsDone
  BY DEF SessionInv, JobsAgree, ListIsDone
<1> QED BY <1>1, <1>2, SessionInvHolds, PTL DEF PoolSpec

-----------------------------------------------------------------------------
\* Tags of one server share one connection, which is ready for use, whatever the
\* order in which threads create and destroy them and whichever of the creations
\* of mutexes and threads fail (find_or_create_plc, session_find_or_create).
THEOREM ConnectionsShared == Spec /\ PoolSpec => []OneConnection
<1>1. OnePlc /\ SharersShare /\ SessionIsReady => OneConnection
  BY DEF OneConnection
<1> QED BY <1>1, ModbusOnePlc, SessionsShared, PTL

\* No tag, thread or list leads to a PLC or a session that its destructor has
\* freed, and a teardown leaves nothing behind (modbus_plc_destructor,
\* mb_teardown, session_destroy, session_teardown).  For Modbus this needs a
\* teardown that waits as long as it takes: with its time limit of 5 s it may
\* return before the destructors, and the list keeps a PLC that they free.
THEOREM FreedConnectionsAreOut ==
  ASSUME ~ Timeouts
  PROVE  Spec /\ PoolSpec => []FreedIsOut
<1>1. FreedIsUnused /\ (ListedIsAllocated /\ TeardownIsComplete) /\ (SessionsSafe /\ ListIsDone)
        => FreedIsOut
  BY DEF FreedIsOut
<1> QED BY <1>1, ModbusFreedIsUnused, ModbusTeardown, SessionsFreed, PTL

-----------------------------------------------------------------------------
(***************************************************************************)
(* Vector: the vector of vector.c stands for the sequence of its callers,   *)
(* for every capacity, every growth limit and every number of elements.     *)
(***************************************************************************)
\* The shape of a vector, and of the sequence.
VecOK ==
  /\ vec.len \in Nat /\ vec.capacity \in Nat \ {0} /\ vec.max_inc \in Nat \ {0}
  /\ vec = [len |-> vec.len, capacity |-> vec.capacity, max_inc |-> vec.max_inc,
            data |-> vec.data]
  /\ vec.data \in [Slots(vec.capacity) -> Values \cup {NULL}]
  /\ held \in Seq(Values)

\* The inductive invariant: the slots, rather than what vector_get returns.
VecInv ==
  /\ VecOK
  /\ vec.len = Len(held) /\ vec.len <= vec.capacity
  /\ \A i \in Slots(vec.len) : vec.data[i] = held[i + 1]
  /\ \A i \in Slots(vec.capacity) : i >= vec.len => vec.data[i] = NULL

\* The invariant says what the property says.
LEMMA InvImpliesSequence == VecInv => VectorIsSequence
  BY DEF VecInv, VecOK, VectorIsSequence, vector_get, Slots

\* A new vector is empty.
LEMMA CreateEstablishes == VecInit => VecInv
  BY VectorAssumption DEF VecInit, VecInv, VecOK, vector_create, Slots

\* A vector that has grown by NewInc has at least one more slot.
LEMMA IncrementIsPositive ==
  ASSUME NEW v, v.capacity \in Nat \ {0}, v.max_inc \in Nat \ {0}
  PROVE  NewInc(v) \in Nat \ {0}
  BY DEF NewInc

\* ensure_capacity for one more element makes room for it and keeps the rest.
LEMMA RoomForOne ==
  ASSUME VecInv
  PROVE  \E cap \in Nat \ {0} : \E d \in [Slots(cap) -> Values \cup {NULL}] :
           /\ ensure_capacity(vec, vec.len + 1)
                = [len |-> vec.len, capacity |-> cap, max_inc |-> vec.max_inc, data |-> d]
           /\ cap > vec.len
           /\ \A i \in Slots(vec.len) : d[i] = held[i + 1]
           /\ \A i \in Slots(cap) : i >= vec.len => d[i] = NULL
<1>1. CASE vec.len + 1 <= vec.capacity
  <2>1. ensure_capacity(vec, vec.len + 1) = vec
    BY <1>1 DEF ensure_capacity
  <2>2. vec.capacity > vec.len
    BY <1>1 DEF VecInv, VecOK
  <2>3. vec.capacity \in Nat \ {0} /\ vec.data \in [Slots(vec.capacity) -> Values \cup {NULL}]
    BY DEF VecInv, VecOK
  <2>. USE <2>3
  <2>. WITNESS vec.capacity \in Nat \ {0}
  <2>. WITNESS vec.data \in [Slots(vec.capacity) -> Values \cup {NULL}]
  <2>. QED
    BY <2>1, <2>2 DEF VecInv, VecOK
<1>2. CASE ~(vec.len + 1 <= vec.capacity)
  <2>1. NewInc(vec) \in Nat \ {0}
    BY IncrementIsPositive DEF VecInv, VecOK
  <2>. DEFINE cap == vec.capacity + NewInc(vec)
              dat == [i \in Slots(cap) |-> IF i < vec.capacity THEN vec.data[i] ELSE NULL]
  <2>2. ensure_capacity(vec, vec.len + 1)
          = [len |-> vec.len, capacity |-> cap, max_inc |-> vec.max_inc, data |-> dat]
    BY <1>2, Zenon DEF ensure_capacity, Grown, VecInv, VecOK
  <2>3. cap \in Nat \ {0} /\ cap > vec.len
    BY <1>2, <2>1 DEF VecInv, VecOK
  <2>4. dat \in [Slots(cap) -> Values \cup {NULL}]
    BY <2>1 DEF VecInv, VecOK, Slots
  <2>5. \A i \in Slots(vec.len) : dat[i] = held[i + 1]
    BY <2>1 DEF VecInv, VecOK, Slots
  <2>6. \A i \in Slots(cap) : i >= vec.len => dat[i] = NULL
    BY <2>1 DEF VecInv, VecOK, Slots
  <2>. HIDE DEF cap, dat
  <2>. QED
    BY <2>2, <2>3, <2>4, <2>5, <2>6, Zenon
<1>. QED
  BY <1>1, <1>2, Zenon

\* The invariant of a vector put together from its parts.
LEMMA InvFromParts ==
  ASSUME NEW len \in Nat, NEW cap \in Nat \ {0}, NEW inc \in Nat \ {0},
         NEW dat \in [Slots(cap) -> Values \cup {NULL}],
         vec' = [len |-> len, capacity |-> cap, max_inc |-> inc, data |-> dat],
         held' \in Seq(Values), Len(held') = len, len <= cap,
         \A i \in Slots(len) : dat[i] = held'[i + 1],
         \A i \in Slots(cap) : i >= len => dat[i] = NULL
  PROVE  VecInv'
<1>1. vec'.len = len /\ vec'.capacity = cap /\ vec'.max_inc = inc /\ vec'.data = dat
  OBVIOUS
<1>. QED
  BY <1>1 DEF VecInv, VecOK

\* Appending, by vector_set or by vector_insert, keeps the invariant.
LEMMA AppendKeeps ==
  ASSUME VecInv, NEW value \in Values, vec' = vector_set(vec, vec.len, value),
         held' = Append(held, value)
  PROVE  VecInv'
<1>1. PICK cap \in Nat \ {0} : \E d \in [Slots(cap) -> Values \cup {NULL}] :
         /\ ensure_capacity(vec, vec.len + 1)
              = [len |-> vec.len, capacity |-> cap, max_inc |-> vec.max_inc, data |-> d]
         /\ cap > vec.len
         /\ \A i \in Slots(vec.len) : d[i] = held[i + 1]
         /\ \A i \in Slots(cap) : i >= vec.len => d[i] = NULL
  BY RoomForOne, Zenon
<1>2. PICK d \in [Slots(cap) -> Values \cup {NULL}] :
         /\ ensure_capacity(vec, vec.len + 1)
              = [len |-> vec.len, capacity |-> cap, max_inc |-> vec.max_inc, data |-> d]
         /\ cap > vec.len
         /\ \A i \in Slots(vec.len) : d[i] = held[i + 1]
         /\ \A i \in Slots(cap) : i >= vec.len => d[i] = NULL
  BY <1>1
<1>. DEFINE dat == [i \in Slots(cap) |-> IF i = vec.len THEN value ELSE d[i]]
            len == vec.len + 1
<1>3. vec.len \in Nat /\ len \in Nat /\ vec.max_inc \in Nat \ {0} /\ len <= cap
  BY <1>2 DEF VecInv, VecOK
<1>4. vec' = [len |-> len, capacity |-> cap, max_inc |-> vec.max_inc, data |-> dat]
  <2>. DEFINE room == [len |-> vec.len, capacity |-> cap, max_inc |-> vec.max_inc, data |-> d]
  <2>1. Written(room, vec.len, value)
          = [len |-> vec.len, capacity |-> cap, max_inc |-> vec.max_inc, data |-> dat]
    BY DEF Written
  <2>2. vec' = [Written(room, vec.len, value) EXCEPT !.len = vec.len + 1]
    BY <1>2, <1>3, SMTT(20) DEF vector_set
  <2>. QED
    BY <2>1, <2>2
<1>5. dat \in [Slots(cap) -> Values \cup {NULL}]
  OBVIOUS
<1>6. held' \in Seq(Values) /\ Len(held') = len
  BY DEF VecInv, VecOK
<1>7. \A i \in Slots(len) : dat[i] = held'[i + 1]
  <2>. SUFFICES ASSUME NEW i \in Slots(len) PROVE dat[i] = held'[i + 1]
    BY Zenon
  <2>1. i \in Slots(cap) /\ (i = vec.len \/ i \in Slots(vec.len)) /\ i \in Nat
    BY <1>3 DEF Slots
  <2>2. held \in Seq(Values) /\ Len(held) = vec.len
    BY DEF VecInv, VecOK
  <2>3. i = vec.len => held'[i + 1] = value
    BY <1>3, <2>2
  <2>4. ASSUME i \in Slots(vec.len)
        PROVE  held'[i + 1] = held[i + 1] /\ i # vec.len
    <3>1. i + 1 \in 1 .. Len(held) /\ i # vec.len
      BY ONLY <2>4, <2>2, <1>3 DEF Slots
    <3>. QED
      BY ONLY <3>1, <2>2, value \in Values, held' = Append(held, value)
  <2>5. CASE i = vec.len
    BY <2>1, <2>3, <2>5, Zenon
  <2>6. CASE i \in Slots(vec.len)
    BY <1>2, <2>1, <2>4, <2>6, Zenon
  <2>. QED
    BY <2>1, <2>5, <2>6, Zenon
<1>8. \A i \in Slots(cap) : i >= len => dat[i] = NULL
  BY <1>2, <1>3 DEF Slots
<1>. HIDE DEF dat, len
<1>. QED
  BY ONLY <1>3, <1>4, <1>5, <1>6, <1>7, <1>8, InvFromParts, cap \in Nat \ {0}

\* Inserting in front of the first element moves all of them up by one.
LEMMA InsertFirstKeeps ==
  ASSUME VecInv, NEW value \in Values, InsertFirst(value)
  PROVE  VecInv'
<1>1. CASE vec.len = 0
  <2>1. vec' = vector_set(vec, vec.len, value)
    BY <1>1 DEF InsertFirst, vector_insert
  <2>2. held \in Seq(Values) /\ Len(held) = 0
    BY <1>1 DEF VecInv, VecOK
  <2>3. held = <<>>
    BY <2>2
  <2>4. held' = [i \in 1..1 |-> value]
    BY <2>3 DEF InsertFirst
  <2>5. held' = Append(held, value)
    BY <2>3, <2>4
  <2>. QED
    BY <2>1, <2>5, AppendKeeps
<1>2. CASE vec.len # 0
  <2>1. PICK cap \in Nat \ {0} : \E d \in [Slots(cap) -> Values \cup {NULL}] :
           /\ ensure_capacity(vec, vec.len + 1)
                = [len |-> vec.len, capacity |-> cap, max_inc |-> vec.max_inc, data |-> d]
           /\ cap > vec.len
           /\ \A i \in Slots(vec.len) : d[i] = held[i + 1]
           /\ \A i \in Slots(cap) : i >= vec.len => d[i] = NULL
    BY RoomForOne, Zenon
  <2>2. PICK d \in [Slots(cap) -> Values \cup {NULL}] :
           /\ ensure_capacity(vec, vec.len + 1)
                = [len |-> vec.len, capacity |-> cap, max_inc |-> vec.max_inc, data |-> d]
           /\ cap > vec.len
           /\ \A i \in Slots(vec.len) : d[i] = held[i + 1]
           /\ \A i \in Slots(cap) : i >= vec.len => d[i] = NULL
    BY <2>1
  <2>. DEFINE len == vec.len + 1
              up == [i \in Slots(cap) |-> IF 0 < i /\ i <= vec.len THEN d[i - 1] ELSE d[i]]
              dat == [i \in Slots(cap) |-> IF i = 0 THEN value ELSE up[i]]
  <2>3. vec.len \in Nat \ {0} /\ len \in Nat /\ vec.max_inc \in Nat \ {0} /\ len <= cap
    BY <1>2, <2>2 DEF VecInv, VecOK
  <2>4. vec' = [len |-> len, capacity |-> cap, max_inc |-> vec.max_inc, data |-> dat]
    <3>. DEFINE room == [len |-> vec.len, capacity |-> cap, max_inc |-> vec.max_inc, data |-> d]
    <3>1. DOMAIN d = Slots(cap)
      OBVIOUS
    <3>2. vec' = [Written([room EXCEPT !.data = [i \in DOMAIN room.data |->
                                                  IF 0 < i /\ i <= vec.len THEN room.data[i - 1]
                                                  ELSE room.data[i]]], 0, value)
                   EXCEPT !.len = vec.len + 1]
      <4>1. ~(0 >= vec.len)
        BY <2>3
      <4>. QED
        BY <2>2, <4>1 DEF InsertFirst, vector_insert
    <3>3. vec' = [Written([room EXCEPT !.data = up], 0, value) EXCEPT !.len = vec.len + 1]
      BY <3>1, <3>2
    <3>. HIDE DEF up
    <3>4. [room EXCEPT !.data = up]
            = [len |-> vec.len, capacity |-> cap, max_inc |-> vec.max_inc, data |-> up]
      OBVIOUS
    <3>5. DOMAIN up = Slots(cap)
      BY DEF up
    <3>. DEFINE longer == [len |-> vec.len, capacity |-> cap, max_inc |-> vec.max_inc, data |-> up]
    <3>6. Written(longer, 0, value)
            = [len |-> vec.len, capacity |-> cap, max_inc |-> vec.max_inc, data |-> dat]
      BY <3>5 DEF Written
    <3>. HIDE DEF room
    <3>. QED
      BY <3>3, <3>4, <3>6
  <2>5. up \in [Slots(cap) -> Values \cup {NULL}]
    BY <2>3 DEF Slots
  <2>6. dat \in [Slots(cap) -> Values \cup {NULL}]
    BY <2>5
  <2>7. held' \in Seq(Values) /\ Len(held') = len
    BY <2>3 DEF InsertFirst, VecInv, VecOK
  <2>8. \A i \in Slots(len) : dat[i] = held'[i + 1]
    <3>. SUFFICES ASSUME NEW i \in Slots(len) PROVE dat[i] = held'[i + 1]
      OBVIOUS
    <3>1. i \in Nat /\ i <= vec.len /\ i \in Slots(cap) /\ i + 1 \in 1..(Len(held) + 1)
      BY <2>2, <2>3 DEF Slots, VecInv
    <3>2. held'[i + 1] = IF i = 0 THEN value ELSE held[i]
      BY <3>1 DEF InsertFirst
    <3>3. dat[i] = IF i = 0 THEN value ELSE d[i - 1]
      BY <2>3, <3>1
    <3>4. i # 0 => d[i - 1] = held[i]
      BY <2>2, <2>3, <3>1 DEF Slots
    <3>. QED
      BY <3>2, <3>3, <3>4
  <2>9. \A i \in Slots(cap) : i >= len => dat[i] = NULL
    BY <2>2, <2>3 DEF Slots
  <2>. HIDE DEF dat, len
  <2>. QED
    BY <2>3, <2>4, <2>6, <2>7, <2>8, <2>9, InvFromParts
<1>. QED
  BY <1>1, <1>2

\* Removing moves the elements behind the index down by one.
LEMMA RemoveKeeps ==
  ASSUME VecInv, NEW index \in Slots(vec.len), TakeOut(index)
  PROVE  VecInv'
<1>. DEFINE dat == [i \in DOMAIN vec.data |->
                      IF i = vec.len - 1 THEN NULL
                      ELSE IF index <= i /\ i < vec.len - 1 THEN vec.data[i + 1]
                      ELSE vec.data[i]]
<1>1. vec.len \in Nat \ {0} /\ index \in Nat /\ index < vec.len
  BY DEF VecInv, VecOK, Slots
<1>2. vec' = [len |-> vec.len - 1, capacity |-> vec.capacity, max_inc |-> vec.max_inc,
              data |-> dat]
  BY Zenon DEF TakeOut, vector_remove, VecInv, VecOK
<1>3. dat \in [Slots(vec.capacity) -> Values \cup {NULL}]
  <2>1. DOMAIN vec.data = Slots(vec.capacity) /\ vec.len <= vec.capacity
    BY DEF VecInv, VecOK
  <2>2. ASSUME NEW i \in Slots(vec.capacity) PROVE dat[i] \in Values \cup {NULL}
    <3>1. i < vec.len - 1 => i + 1 \in Slots(vec.capacity)
      BY <1>1, <2>1 DEF VecInv, VecOK, Slots
    <3>2. \A j \in Slots(vec.capacity) : vec.data[j] \in Values \cup {NULL}
      BY DEF VecInv, VecOK
    <3>. QED
      BY <2>1, <3>1, <3>2
  <2>. QED
    BY <2>1, <2>2
<1>4. held' \in Seq(Values) /\ Len(held') = vec.len - 1
  BY <1>1 DEF TakeOut, VecInv, VecOK
<1>5. \A i \in Slots(vec.len - 1) : dat[i] = held'[i + 1]
  BY <1>1 DEF TakeOut, VecInv, VecOK, Slots
<1>6. \A i \in Slots(vec.capacity) : i >= vec.len - 1 => dat[i] = NULL
  BY <1>1 DEF VecInv, VecOK, Slots
<1>. HIDE DEF dat
<1>7. vec.len - 1 \in Nat /\ vec.len - 1 <= vec.capacity
      /\ vec.capacity \in Nat \ {0} /\ vec.max_inc \in Nat \ {0}
  BY <1>1 DEF VecInv, VecOK
<1>. QED
  BY <1>2, <1>3, <1>4, <1>5, <1>6, <1>7, InvFromParts

(***************************************************************************)
(* The vector holds the sequence of its callers in every reachable state,  *)
(* inside the memory it allocated.                                         *)
(***************************************************************************)
THEOREM VectorCorrect == VecSpec => []VectorIsSequence
<1>1. VecInit => VecInv
  BY CreateEstablishes
<1>2. VecInv /\ [VecNext]_vecVars => VecInv'
  <2>. SUFFICES ASSUME VecInv, [VecNext]_vecVars PROVE VecInv'
    OBVIOUS
  <2>1. ASSUME NEW value \in Values, Append1(value) PROVE VecInv'
    BY <2>1, AppendKeeps DEF Append1, vector_length
  <2>2. ASSUME NEW value \in Values, InsertLast(value) PROVE VecInv'
    <3>1. vec' = vector_set(vec, vec.len, value)
      BY <2>2 DEF InsertLast, vector_length, vector_insert, VecInv, VecOK
    <3>. QED
      BY <2>2, <3>1, AppendKeeps DEF InsertLast
  <2>3. ASSUME NEW value \in Values, InsertFirst(value) PROVE VecInv'
    BY <2>3, InsertFirstKeeps
  <2>4. ASSUME NEW index \in 0..(vec.len - 1), TakeOut(index) PROVE VecInv'
    BY <2>4, RemoveKeeps DEF Slots
  <2>5. CASE UNCHANGED vecVars
    BY <2>5 DEF vecVars, VecInv, VecOK
  <2>. QED
    BY <2>1, <2>2, <2>3, <2>4, <2>5 DEF VecNext
<1>3. VecInv => VectorIsSequence
  BY InvImpliesSequence
<1>. QED
  BY <1>1, <1>2, <1>3, PTL DEF VecSpec

-----------------------------------------------------------------------------
(***************************************************************************)
(* Cond: a condition variable of the platform layer loses no signal and    *)
(* makes none up, for any set of threads and on both platforms.  CondInv is *)
(* inductive as it stands: a step either takes the flag, and with it the   *)
(* need to wake anybody, or leaves or puts a thread on its way.            *)
(***************************************************************************)
\* The threads that will see the flag without a further signal.
OnTheWay(now) == \E t \in Threads : now[t] \in {"woken", "expired", "leaving"}
Asleep(now) == \E t \in Threads : now[t] = "sleeps"

States == {"out", "sleeps", "woken", "expired", "leaving"}

\* What the system's signal does to the threads (pthread_cond_signal,
\* WakeConditionVariable): it keeps their type and leaves one of the sleepers, if
\* there were any, awake.
LEMMA WokenWakes ==
  ASSUME NEW now \in [Threads -> States], NEW next \in Woken(now)
  PROVE  next \in [Threads -> States] /\ (Asleep(next) => OnTheWay(next))
<1> DEFINE asleep == {t \in Threads : now[t] = "sleeps"}
<1>1. CASE asleep = {}
  <2>1. next = now
    BY <1>1 DEF Woken
  <2> QED
    BY <1>1, <2>1 DEF Asleep
<1>2. CASE asleep # {}
  <2>1. PICK t \in asleep : next = [now EXCEPT ![t] = "woken"]
    BY <1>2 DEF Woken
  <2>2. next \in [Threads -> States] /\ next[t] = "woken"
    BY <2>1 DEF States
  <2> QED
    BY <2>1, <2>2 DEF OnTheWay
<1> QED
  BY <1>1, <1>2

\* One thread changes its state; the others stay as they are.
LEMMA OneMoves ==
  ASSUME NEW now \in [Threads -> States], NEW t \in Threads, NEW s \in States
  PROVE  /\ [now EXCEPT ![t] = s] \in [Threads -> States]
         /\ [now EXCEPT ![t] = s][t] = s
         /\ \A u \in Threads \ {t} : [now EXCEPT ![t] = s][u] = now[u]
  OBVIOUS

\* CondInv holds before any thread waits (cond_create).
LEMMA CondStarts ==
  ASSUME CondInit
  PROVE  CondInv
<1>1. flag = FALSE /\ heard = 0 /\ signals = 0 /\ build \in {"posix", "windows"}
  BY DEF CondInit, cond_create
<1>2. th \in [Threads -> States]
  BY DEF CondInit, cond_create, States
<1>3. CondTypeOK
  BY <1>1, <1>2, Zenon DEF CondTypeOK, States
<1>4. SignalWakes
  BY <1>1 DEF SignalWakes
<1>5. HeardIsSignalled
  BY <1>1 DEF HeardIsSignalled
<1> QED
  BY <1>3, <1>4, <1>5 DEF CondInv

\* The end of a wait that takes the flag keeps CondInv, whether it counts the
\* signal as heard (OK) or not (PLCTAG_ERR_TIMEOUT).
LEMMA TakeKeeps ==
  ASSUME CondInv, NEW t \in Threads, Take(t),
         heard' = heard \/ (flag /\ heard' = heard + 1)
  PROVE  CondInv'
<1> USE DEF CondInv, CondTypeOK
<1>1. CondTypeOK'
  <2>1. th' \in [Threads -> States]
    BY OneMoves DEF Take, States
  <2>2. flag' \in BOOLEAN
    BY Zenon DEF Take
  <2>3. heard' \in Nat /\ signals' \in Nat
    BY DEF Take
  <2>4. build' \in {"posix", "windows"}
    BY DEF Take
  <2> QED
    BY <2>1, <2>2, <2>3, <2>4 DEF States
<1>2. SignalWakes'
  BY DEF Take, SignalWakes
<1>3. HeardIsSignalled'
  BY DEF Take, HeardIsSignalled
<1> QED
  BY <1>1, <1>2, <1>3

\* Every step of a thread keeps CondInv.
LEMMA CondStepKeeps ==
  ASSUME CondInv, NEW t \in Threads, CondStep(t)
  PROVE  CondInv'
<1> USE DEF CondInv
<1>0. th \in [Threads -> States]
  BY DEF CondTypeOK, States
<1>1. CASE cond_wait(t)
  <2>1. CASE flag
    BY <1>1, <2>1, TakeKeeps DEF cond_wait
  <2>2. CASE ~flag
    BY <1>1, <2>2 DEF cond_wait, CondTypeOK, SignalWakes, HeardIsSignalled
  <2> QED
    BY <2>1, <2>2
<1>2. CASE Spurious(t)
  <2>1. th'[t] = "woken" /\ CondTypeOK'
    BY <1>2 DEF Spurious, CondTypeOK
  <2> QED
    BY <1>2, <2>1 DEF Spurious, SignalWakes, HeardIsSignalled
<1>3. CASE Expires(t)
  <2>1. th'[t] = "expired" /\ CondTypeOK'
    BY <1>3 DEF Expires, CondTypeOK
  <2> QED
    BY <1>3, <2>1 DEF Expires, SignalWakes, HeardIsSignalled
<1>4. CASE WokenReturns(t)
  <2>1. CASE flag
    BY <1>4, <2>1, TakeKeeps DEF WokenReturns
  <2>2. CASE ~flag
    BY <1>4, <2>2 DEF WokenReturns, CondTypeOK, SignalWakes, HeardIsSignalled
  <2> QED
    BY <2>1, <2>2
<1>5. CASE ExpiredReturns(t)
  BY <1>5, TakeKeeps DEF ExpiredReturns
<1>6. CASE cond_signal(t)
  <2>1. th' \in [Threads -> States] /\ (Asleep(th') => OnTheWay(th'))
    BY <1>0, <1>6, WokenWakes DEF cond_signal
  <2>2. CondTypeOK' /\ SignalWakes'
    BY <1>6, <2>1 DEF cond_signal, CondTypeOK, SignalWakes, States, Asleep, OnTheWay
  <2>3. HeardIsSignalled'
    BY <1>6 DEF cond_signal, CondTypeOK, HeardIsSignalled
  <2> QED
    BY <2>2, <2>3
<1>7. CASE cond_signal_set(t)
  <2>1. th'[t] = "leaving" /\ CondTypeOK'
    BY <1>7 DEF cond_signal_set, CondTypeOK
  <2>2. SignalWakes'
    BY <2>1 DEF SignalWakes
  <2>3. HeardIsSignalled'
    BY <1>7 DEF cond_signal_set, CondTypeOK, HeardIsSignalled
  <2> QED
    BY <2>1, <2>2, <2>3
<1>8. CASE cond_signal_wake(t)
  <2> DEFINE now == [th EXCEPT ![t] = "out"]
  <2>1. now \in [Threads -> States]
    BY <1>0 DEF States
  <2>2. th' \in Woken(now)
    BY <1>8 DEF cond_signal_wake
  <2>3. th' \in [Threads -> States] /\ (Asleep(th') => OnTheWay(th'))
    <3> HIDE DEF now
    <3> QED BY <2>1, <2>2, WokenWakes
  <2>4. CondTypeOK' /\ SignalWakes'
    BY <1>8, <2>3 DEF cond_signal_wake, CondTypeOK, SignalWakes, States, Asleep, OnTheWay
  <2>5. HeardIsSignalled'
    BY <1>8 DEF cond_signal_wake, HeardIsSignalled
  <2> QED
    BY <2>4, <2>5
<1>9. CASE cond_clear(t)
  <2>1. CondTypeOK'
    BY <1>9, Zenon DEF cond_clear, CondTypeOK
  <2>2. SignalWakes'
    BY <1>9 DEF cond_clear, SignalWakes
  <2>3. HeardIsSignalled'
    BY <1>9 DEF cond_clear, CondTypeOK, HeardIsSignalled
  <2> QED
    BY <2>1, <2>2, <2>3
<1> QED
  BY <1>1, <1>2, <1>3, <1>4, <1>5, <1>6, <1>7, <1>8, <1>9 DEF CondStep

\* For any set of threads, on both platforms: while a signal stands no thread is
\* left asleep with nobody on the way to it, and no wait returns OK without a signal
\* of its own (cond_wait, cond_signal, cond_clear; platform.c:944-1057).
THEOREM CondCorrect == CondSpec => []CondInv
<1>1. CondInv /\ [CondNext]_condVars => CondInv'
  <2> SUFFICES ASSUME CondInv, [CondNext]_condVars PROVE CondInv'
    OBVIOUS
  <2>1. CASE CondNext
    BY <2>1, CondStepKeeps DEF CondNext
  <2>2. CASE UNCHANGED condVars
    BY <2>2 DEF condVars, CondInv, CondTypeOK, SignalWakes, HeardIsSignalled
  <2> QED
    BY <2>1, <2>2
<1> QED
  BY CondStarts, <1>1, PTL DEF CondSpec
=============================================================================
