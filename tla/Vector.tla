------------------------------- MODULE Vector -------------------------------
(***************************************************************************)
(* utils/vector.c: the growing array behind the lists of sessions,         *)
(* connections, queued requests and Modbus tags.  It is compared with the  *)
(* sequence it stands for.  The callers append at vector_length, insert in *)
(* front of the first element and remove anywhere; nobody writes behind    *)
(* the end, which ensure_capacity would not make room for.                 *)
(***************************************************************************)
EXTENDS Integers, Sequences

CONSTANTS
  Values,      \* what is stored
  NULL,        \* a cleared slot
  Capacities,  \* first capacities that callers ask vector_create for
  Increments,  \* and limits of the growth
  MaxLength    \* bound of the model on the elements held

ASSUME VectorAssumption ==
  /\ NULL \notin Values
  /\ Capacities \subseteq Nat \ {0} /\ Increments \subseteq Nat \ {0}
  /\ MaxLength \in Nat

VARIABLES
  vec,   \* the vector: len, capacity, max_inc and data
  held   \* the sequence that the calls of the callers make

vecVars == <<vec, held>>

Slots(capacity) == 0..(capacity - 1)

vector_create(capacity, max_inc) ==
  [len |-> 0, capacity |-> capacity, max_inc |-> max_inc,
   data |-> [i \in Slots(capacity) |-> NULL]]

vector_length(v) == v.len

vector_get(v, index) == IF index < 0 \/ index >= v.len THEN NULL ELSE v.data[index]

\* The vector has the room already, or grows once; growing may find no memory.
NewInc(v) ==
  LET half == v.capacity \div 2
      most == IF half > v.max_inc THEN v.max_inc ELSE half IN
  IF most < 1 THEN 1 ELSE most

\* Fault: the vector grows by less than a slot when its limit is small.
GrownByHalf(v) ==
  [v EXCEPT !.capacity = v.capacity + v.capacity \div 2,
            !.data = [i \in Slots(v.capacity + v.capacity \div 2) |->
                        IF i < v.capacity THEN v.data[i] ELSE NULL]]

Grown(v) ==
  [v EXCEPT !.capacity = v.capacity + NewInc(v),
            !.data = [i \in Slots(v.capacity + NewInc(v)) |->
                        IF i < v.capacity THEN v.data[i] ELSE NULL]]

ensure_capacity(v, capacity) == IF capacity <= v.capacity THEN v ELSE Grown(v)

\* A write behind the capacity would be lost here and overwrite something in C.
Written(v, index, value) ==
  [v EXCEPT !.data = [i \in DOMAIN v.data |-> IF i = index THEN value ELSE v.data[i]]]

vector_set(v, index, value) ==
  LET room == ensure_capacity(v, index + 1)
      new == Written(room, index, value) IN
  IF index >= v.len THEN [new EXCEPT !.len = index + 1] ELSE new

vector_insert(v, index, value) ==
  LET room == ensure_capacity(v, v.len + 1)
      up == [room EXCEPT !.data = [i \in DOMAIN room.data |->
                                     IF index < i /\ i <= v.len THEN room.data[i - 1]
                                     ELSE room.data[i]]] IN
  IF index >= v.len THEN vector_set(v, index, value)
  ELSE [Written(up, index, value) EXCEPT !.len = v.len + 1]

vector_remove(v, index) ==
  [v EXCEPT !.data = [i \in DOMAIN v.data |->
                        IF i = v.len - 1 THEN NULL
                        ELSE IF index <= i /\ i < v.len - 1 THEN v.data[i + 1]
                        ELSE v.data[i]],
            !.len = v.len - 1]

(***************************************************************************)
(* The callers.                                                            *)
(***************************************************************************)
VecInit ==
  /\ \E capacity \in Capacities, max_inc \in Increments : vec = vector_create(capacity, max_inc)
  /\ held = <<>>

Fits == vec.len < MaxLength

Append1(value) ==
  /\ Fits
  /\ vec' = vector_set(vec, vector_length(vec), value)
  /\ held' = Append(held, value)

InsertLast(value) ==
  /\ Fits
  /\ vec' = vector_insert(vec, vector_length(vec), value)
  /\ held' = Append(held, value)

InsertFirst(value) ==
  /\ Fits
  /\ vec' = vector_insert(vec, 0, value)
  /\ held' = [i \in 1..(Len(held) + 1) |-> IF i = 1 THEN value ELSE held[i - 1]]

TakeOut(index) ==
  /\ vec' = vector_remove(vec, index)
  /\ held' = [i \in 1..(Len(held) - 1) |-> IF i <= index THEN held[i] ELSE held[i + 1]]

VecNext ==
  \/ \E value \in Values : Append1(value) \/ InsertLast(value) \/ InsertFirst(value)
  \/ \E index \in 0..(vec.len - 1) : TakeOut(index)

VecSpec == VecInit /\ [][VecNext]_vecVars

-----------------------------------------------------------------------------
(***************************************************************************)
(* Through every mixture of appends, inserts and removals the vector holds *)
(* the elements of the sequence in their order, inside the memory it       *)
(* allocated, and no stale pointer behind them (vector.c:104-236, 285-327).*)
(***************************************************************************)
VectorIsSequence ==
  /\ vec.len = Len(held) /\ vec.len <= vec.capacity
  /\ \A i \in Slots(vec.len) : vector_get(vec, i) = held[i + 1]
  /\ \A i \in Slots(vec.capacity) : i >= vec.len => vec.data[i] = NULL
=============================================================================
