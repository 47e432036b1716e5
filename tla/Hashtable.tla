----------------------------- MODULE Hashtable -----------------------------
(***************************************************************************)
(* utils/hashtable.c: the open-addressing table behind the tag ids.  A     *)
(* table is a record with a function `entries` over 0 .. total_entries-1   *)
(* and the counter used_entries.  An entry is looked for, and stored,      *)
(* within MAX_ITERATIONS slots of where its key hashes to; a removed entry *)
(* leaves a hole that lookups step over; a put that finds no hole makes    *)
(* the table larger and rehashes it.  hash(), salted, is the constant Hash.*)
(***************************************************************************)
EXTENDS Integers, FiniteSets, Folds

CONSTANTS Keys,             \* the keys, not 0
          Hash,             \* hash() with the table's salt
          MAX_ITERATIONS,   \* how far a search goes
          MAX_INCREMENT,    \* where doubling stops
          MaxGrowth,        \* bound: enlargements tried by one expand_table
          NULL              \* no data

Hole == [key |-> 0, data |-> NULL]

hashtable_create(n) ==
    [total_entries |-> n, used_entries |-> 0, entries |-> [i \in 0 .. n - 1 |-> Hole]]

hashtable_capacity(t) == t.total_entries

hashtable_get_index(t, i) ==
    IF i \in 0 .. t.total_entries - 1 THEN t.entries[i].data ELSE NULL

\* The slots a search for key k looks at, in the order of the iterations.
KEY_TO_INDEX(t, k) == Hash[k] % t.total_entries
SlotAt(t, k, iteration) == (KEY_TO_INDEX(t, k) + iteration) % t.total_entries
FirstOf(S) == CHOOSE i \in S : \A j \in S : i <= j

\* Fault: the search stops at the first hole.
FindKeyUpToHole(t, k) ==
    LET hits == {i \in 0 .. MAX_ITERATIONS - 1 :
                   /\ t.entries[SlotAt(t, k, i)].key = k
                   /\ \A j \in 0 .. i - 1 : t.entries[SlotAt(t, k, j)].data # NULL}
    IN  IF hits = {} THEN {} ELSE {SlotAt(t, k, FirstOf(hits))}

\* The slots of the searches; {} stands for PLCTAG_ERR_NOT_FOUND.
find_key(t, k) ==
    LET hits == {i \in 0 .. MAX_ITERATIONS - 1 : t.entries[SlotAt(t, k, i)].key = k}
    IN  IF hits = {} THEN {} ELSE {SlotAt(t, k, FirstOf(hits))}

find_empty(t, k) ==
    LET holes == {i \in 0 .. MAX_ITERATIONS - 1 : t.entries[SlotAt(t, k, i)].data = NULL}
    IN  IF holes = {} THEN {} ELSE {SlotAt(t, k, FirstOf(holes))}

hashtable_get(t, k) ==
    LET at == find_key(t, k) IN IF at = {} THEN NULL ELSE t.entries[CHOOSE i \in at : TRUE].data

Store(t, i, entry) ==
    [t EXCEPT !.entries[i] = entry, !.used_entries = @ + 1]

\* The size after n enlargements of a table of `size` slots.
GrownTo(size, n) ==
    LET grown[i \in 0 .. n] ==
          IF i = 0 THEN size
          ELSE grown[i - 1] + (IF grown[i - 1] < MAX_INCREMENT THEN grown[i - 1] ELSE MAX_INCREMENT)
    IN  grown[n]

\* The entries of t stored into an empty table of n slots: {} when one of them
\* finds no hole.
Rehashed(t, n) ==
    LET copied[i \in 0 .. t.total_entries] ==
          IF i = 0 THEN {hashtable_create(n)}
          ELSE IF t.entries[i - 1].data = NULL THEN copied[i - 1]
          ELSE UNION {{Store(new, slot, t.entries[i - 1]) :
                         slot \in find_empty(new, t.entries[i - 1].key)} : new \in copied[i - 1]}
    IN  copied[t.total_entries]

expand_table(t) ==
    LET fits == {n \in 1 .. MaxGrowth : Rehashed(t, GrownTo(t.total_entries, n)) # {}}
    IN  CHOOSE new \in Rehashed(t, GrownTo(t.total_entries, FirstOf(fits))) : TRUE

\* The table once find_empty finds a hole for k: the loop of hashtable_put.
WithRoom(t, k) ==
    LET tried[n \in 0 .. MaxGrowth] == IF n = 0 THEN t ELSE expand_table(tried[n - 1])
        roomy == {n \in 0 .. MaxGrowth : find_empty(tried[n], k) # {}}
    IN  tried[FirstOf(roomy)]

hashtable_put(t, k, d) ==
    LET new == WithRoom(t, k)
    IN  Store(new, CHOOSE i \in find_empty(new, k) : TRUE, [key |-> k, data |-> d])

hashtable_remove(t, k) ==
    LET at == find_key(t, k)
    IN  IF at = {} THEN t
        ELSE [t EXCEPT !.entries[CHOOSE i \in at : TRUE] = Hole, !.used_entries = @ - 1]

-----------------------------------------------------------------------------
(* What the table promises: it is a partial function from keys to data.    *)

Contents(t) == {<<t.entries[i].key, t.entries[i].data>> :
                  i \in {j \in 0 .. t.total_entries - 1 : t.entries[j].data # NULL}}

\* t holds exactly the pairs of the function m, and finds each of them.
IsMap(t, m) ==
    /\ Contents(t) = {<<k, m[k]>> : k \in DOMAIN m}
    /\ t.used_entries = Cardinality(DOMAIN m)
    /\ \A k \in Keys : hashtable_get(t, k) = IF k \in DOMAIN m THEN m[k] ELSE NULL
=============================================================================
