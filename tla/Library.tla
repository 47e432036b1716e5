------------------------------ MODULE Library ------------------------------
(***************************************************************************)
(* The life of the library and of its tag handles: the module states of    *)
(* lib/init.c, and in lib/lib.c the creation, lookup and destruction of    *)
(* tags through the hash table, the tickler thread that walks the slots of *)
(* the same table, and plc_tag_shutdown.                                   *)
(*                                                                         *)
(* Application threads call the API with the ids they were given; as the   *)
(* header demands, plc_tag_shutdown is called while no other call is       *)
(* running.  A block under tag_lookup_mutex is one step.  A tag object is  *)
(* used once; when its count drops to zero the cleanup thread destroys it. *)
(***************************************************************************)
EXTENDS Integers, Sequences, FiniteSets

CONSTANTS
  Threads, Tags,
  TAG_ID_MASK,             \* ids are 1 .. TAG_ID_MASK, a power of two minus one
  FirstId,                 \* next_tag_id when the library is loaded
  MAX_TAG_MAP_ATTEMPTS,
  INITIAL_TAG_TABLE_SIZE,
  Hash, MAX_ITERATIONS, MAX_INCREMENT, MaxGrowth,
  MaxFailures,             \* bound: module start-ups that fail
  MaxRounds,               \* bound: times the library is started
  NULL

Ids == 1 .. TAG_ID_MASK

ASSUME LibraryAssumption ==
  /\ TAG_ID_MASK \in Nat \ {0} /\ INITIAL_TAG_TABLE_SIZE \in Nat \ {0}
  /\ Hash \in [Ids -> Nat]
  /\ {MAX_ITERATIONS, MAX_INCREMENT, MaxGrowth} \subseteq Nat \ {0}

VARIABLES
  library_state,
  up,            \* the modules that are started
  lib_active,
  tags,          \* the hash table, or NULL
  next_tag_id,
  stage,         \* stage[t]: "none", "live", "dying" or "gone"
  refs,          \* refs[t]: the reference count
  tag_id,        \* tag->tag_id
  at, reg,       \* a thread's place, and the [tag, id, i] it works with
  tk,            \* tk[n]: the tickler thread of the n-th start: [at, i, max, tag]
  known,         \* the ids the application was given, and for which tag
  listed,        \* ghost: the tag each id was given to and not yet taken from
  failures, rounds

lifeVars  == <<library_state, up, lib_active, failures, rounds>>
tagVars   == <<stage, refs, tag_id>>
tableVars == <<tags, next_tag_id, listed>>
vars == <<lifeVars, tagVars, tableVars, at, reg, tk, known>>

HT == INSTANCE Hashtable WITH Keys <- Ids

Modules == <<"refcount", "lib", "ab", "mb", "omron">>

\* The order in which destroy_modules takes them down.
TeardownOrder == <<"ab", "mb", "omron", "lib", "refcount">>

Idle(where) == [at |-> where, i |-> 0, max |-> 0, tag |-> NULL]
NoReg == [tag |-> NULL, id |-> 0, i |-> 0]

TypeOK ==
  /\ library_state \in {"UNINITIALIZED", "INITIALIZING", "RUNNING", "SHUTTING_DOWN"}
  /\ up \subseteq {Modules[i] : i \in 1 .. 5}
  /\ lib_active \in BOOLEAN
  /\ next_tag_id \in 0 .. TAG_ID_MASK
  /\ stage \in [Tags -> {"none", "live", "dying", "gone"}]
  /\ refs \in [Tags -> Nat]
  /\ tag_id \in [Tags -> 0 .. TAG_ID_MASK]
  /\ at \in [Threads -> {"out", "init", "start", "made", "map", "name", "status",
                         "release", "using", "sweep", "take", "down"}]
  /\ reg \in [Threads -> [tag : Tags \cup {NULL}, id : 0 .. TAG_ID_MASK, i : Nat]]
  /\ \A n \in 1 .. MaxRounds :
       /\ tk[n].at \in {"none", "top", "slot", "use", "wait", "exited"}
       /\ tk[n].tag \in Tags \cup {NULL}
  /\ DOMAIN known \subseteq Ids

Init ==
  /\ library_state = "UNINITIALIZED" /\ up = {} /\ lib_active = FALSE
  /\ tags = NULL /\ next_tag_id = FirstId /\ listed = <<>>
  /\ stage = [t \in Tags |-> "none"] /\ refs = [t \in Tags |-> 0]
  /\ tag_id = [t \in Tags |-> 0]
  /\ at = [p \in Threads |-> "out"] /\ reg = [p \in Threads |-> NoReg]
  /\ tk = [n \in 1 .. MaxRounds |-> Idle("none")]
  /\ known = <<>> /\ failures = 0 /\ rounds = 0

Goes(p, where) == at' = [at EXCEPT ![p] = where]
Returns(p) == Goes(p, "out") /\ reg' = [reg EXCEPT ![p] = NoReg]

Quiet(p) == \A q \in Threads \ {p} : at[q] = "out"
NoShutdown == \A q \in Threads : at[q] \notin {"sweep", "take", "down"}

-----------------------------------------------------------------------------
(* References.                                                             *)

rc_inc(t) == refs' = [refs EXCEPT ![t] = @ + 1]

\* The last reference hands the tag to the cleanup thread.
Drop(t, n) ==
  /\ refs' = [refs EXCEPT ![t] = @ - n]
  /\ stage' = [stage EXCEPT ![t] = IF refs[t] = n THEN "dying" ELSE @]
rc_dec(t) == Drop(t, 1)

CleanerDestroys(t) ==
  /\ stage[t] = "dying" /\ "refcount" \in up
  /\ stage' = [stage EXCEPT ![t] = "gone"]
  /\ UNCHANGED <<lifeVars, tableVars, refs, tag_id, at, reg, tk, known>>

-----------------------------------------------------------------------------
(* initialize_modules and destroy_modules.                                 *)

\* A thread that creates a tag enters initialize_modules.
CreateCalled(p) ==
  /\ at[p] = "out" /\ NoShutdown
  /\ \E t \in Tags : stage[t] = "none"
  /\ Goes(p, "init")
  /\ UNCHANGED <<lifeVars, tagVars, tableVars, reg, tk, known>>

\* The fast path, and the compare-and-set loop: a thread that meets INITIALIZING
\* or SHUTTING_DOWN sleeps and tries again.
initialize_modules(p) ==
  /\ at[p] = "init"
  /\ \/ /\ library_state = "RUNNING"
        /\ Goes(p, "made")
        /\ UNCHANGED <<lifeVars, reg>>
     \/ /\ library_state = "UNINITIALIZED"
        /\ rounds < MaxRounds
        /\ library_state' = "INITIALIZING" /\ rounds' = rounds + 1
        /\ Goes(p, "start") /\ reg' = [reg EXCEPT ![p].i = 1]
        /\ UNCHANGED <<up, lib_active, failures>>
  /\ UNCHANGED <<tagVars, tableVars, tk, known>>

\* lib_init: the flag first, then the table and the tickler thread; the result
\* is that of thread_create.
lib_init(ok) ==
  /\ lib_active' = TRUE
  /\ tags' = HT!hashtable_create(INITIAL_TAG_TABLE_SIZE)
  /\ listed' = <<>>
  /\ tk' = IF ok THEN [tk EXCEPT ![rounds].at = "top"] ELSE tk

\* The next module is started.
StartModule(p) ==
  /\ at[p] = "start" /\ reg[p].i <= Len(Modules)
  /\ up' = up \cup {Modules[reg[p].i]}
  /\ reg' = [reg EXCEPT ![p].i = @ + 1]
  /\ IF Modules[reg[p].i] = "lib" THEN lib_init(TRUE)
     ELSE UNCHANGED <<lib_active, tags, listed, tk>>
  /\ UNCHANGED <<library_state, failures, rounds, tagVars, next_tag_id, at, known>>

\* A module fails to start: the state is reset and the creation returns the
\* error; the modules started before stay as they are.
StartFails(p) ==
  /\ at[p] = "start" /\ reg[p].i <= Len(Modules)
  /\ failures < MaxFailures
  /\ failures' = failures + 1
  /\ library_state' = "UNINITIALIZED"
  /\ IF Modules[reg[p].i] = "lib" THEN lib_init(FALSE)
     ELSE UNCHANGED <<lib_active, tags, listed, tk>>
  /\ Returns(p)
  /\ UNCHANGED <<up, rounds, tagVars, next_tag_id, known>>

Started(p) ==
  /\ at[p] = "start" /\ reg[p].i > Len(Modules)
  /\ library_state' = "RUNNING"
  /\ Goes(p, "made") /\ reg' = [reg EXCEPT ![p] = NoReg]
  /\ UNCHANGED <<up, lib_active, failures, rounds, tagVars, tableVars, tk, known>>

-----------------------------------------------------------------------------
(* plc_tag_create_ex.                                                      *)

\* The arguments, the attributes or the constructor may be at fault.
CreateRefused(p) ==
  /\ at[p] = "made"
  /\ Returns(p)
  /\ UNCHANGED <<lifeVars, tagVars, tableVars, tk, known>>

\* The constructor makes the tag with one reference.
Constructed(p) ==
  /\ at[p] = "made" /\ \E t \in Tags : stage[t] = "none"
  /\ LET t == CHOOSE new \in Tags : stage[new] = "none"
     IN  /\ stage' = [stage EXCEPT ![t] = "live"] /\ refs' = [refs EXCEPT ![t] = 1]
         /\ Goes(p, "map") /\ reg' = [reg EXCEPT ![p].tag = t]
  /\ UNCHANGED <<lifeVars, tableVars, tag_id, tk, known>>

\* The tag's status or an attribute is an error: the tag is released unmapped.
Unmapped(p) ==
  /\ at[p] = "map"
  /\ rc_dec(reg[p].tag)
  /\ Returns(p)
  /\ UNCHANGED <<lifeVars, tableVars, tag_id, tk, known>>

\* Fault: the search for an id starts with the last one that was given out.
IdAgain(id) == IF id <= 0 THEN TAG_ID_MASK \div 2 ELSE id

tag_id_inc(id) ==
  LET from == IF id <= 0 THEN TAG_ID_MASK \div 2 ELSE id
      next == (from + 1) % (TAG_ID_MASK + 1)
  IN  IF next = 0 THEN 1 ELSE next

\* The id after n increments.
IdAfter(id, n) ==
  LET after[i \in 0 .. n] == IF i = 0 THEN id ELSE tag_id_inc(after[i - 1]) IN after[n]

\* The first id that the table does not hold, when the attempts find one.
add_tag_lookup(p) ==
  /\ at[p] = "map"
  /\ LET t    == reg[p].tag
         free == {n \in 1 .. MAX_TAG_MAP_ATTEMPTS :
                    HT!hashtable_get(tags, IdAfter(next_tag_id, n)) = NULL}
         n    == IF free = {} THEN MAX_TAG_MAP_ATTEMPTS ELSE HT!FirstOf(free)
         id   == IdAfter(next_tag_id, n)
     IN  /\ next_tag_id' = id
         /\ \/ /\ free # {}
               /\ tags' = HT!hashtable_put(tags, id, t)
               /\ listed' = [i \in DOMAIN listed \cup {id} |-> IF i = id THEN t ELSE listed[i]]
               /\ Goes(p, "name") /\ reg' = [reg EXCEPT ![p].id = id]
               /\ UNCHANGED <<stage, refs>>
            \/ /\ free = {}
               /\ rc_dec(t) /\ Returns(p)
               /\ UNCHANGED <<tags, listed>>
  /\ UNCHANGED <<lifeVars, tag_id, tk, known>>

\* tag->tag_id is assigned after the tag is in the table.
Named(p) ==
  /\ at[p] = "name"
  /\ tag_id' = [tag_id EXCEPT ![reg[p].tag] = reg[p].id]
  /\ Goes(p, "status")
  /\ UNCHANGED <<lifeVars, stage, refs, tableVars, reg, tk, known>>

Unlisted(id) ==
  /\ tags' = HT!hashtable_remove(tags, id)
  /\ listed' = [i \in DOMAIN listed \ {id} |-> listed[i]]

\* The status of the new tag is an error, or the wait for it times out.
CreateFails(p) ==
  /\ at[p] = "status"
  /\ Unlisted(tag_id[reg[p].tag])
  /\ Goes(p, "release")
  /\ UNCHANGED <<lifeVars, tagVars, next_tag_id, reg, tk, known>>

CreateReturns(p) ==
  /\ at[p] = "status"
  /\ known' = [i \in DOMAIN known \cup {reg[p].id} |->
                 IF i = reg[p].id THEN reg[p].tag ELSE known[i]]
  /\ Returns(p)
  /\ UNCHANGED <<lifeVars, tagVars, tableVars, tk>>

-----------------------------------------------------------------------------
(* The calls that name a tag by its id.                                    *)

Lookup(id) ==
  LET t == HT!hashtable_get(tags, id)
  IN  IF lib_active /\ t # NULL /\ tag_id[t] = id THEN t ELSE NULL

\* Any other call of the API: it holds a reference from lookup_tag to its end.
lookup_tag(p) ==
  /\ at[p] = "out" /\ NoShutdown /\ lib_active
  /\ \E id \in DOMAIN known :
       LET t == Lookup(id)
       IN  /\ t # NULL
           /\ rc_inc(t)
           /\ Goes(p, "using") /\ reg' = [reg EXCEPT ![p].tag = t, ![p].id = id]
  /\ UNCHANGED <<lifeVars, stage, tag_id, tableVars, tk, known>>

\* plc_tag_destroy takes the tag out of the table and has its reference.
plc_tag_destroy(p) ==
  /\ at[p] = "out" /\ NoShutdown /\ tags # NULL
  /\ \E id \in DOMAIN known :
       /\ 0 < id /\ id < TAG_ID_MASK
       /\ HT!hashtable_get(tags, id) # NULL
       /\ reg' = [reg EXCEPT ![p].tag = HT!hashtable_get(tags, id)]
       /\ Unlisted(id)
  /\ Goes(p, "release")
  /\ UNCHANGED <<lifeVars, tagVars, next_tag_id, tk, known>>

\* The call ends and drops its reference.
Released(p) ==
  /\ at[p] \in {"release", "using"}
  /\ rc_dec(reg[p].tag)
  /\ Returns(p)
  /\ UNCHANGED <<lifeVars, tag_id, tableVars, tk, known>>

-----------------------------------------------------------------------------
(* tag_tickler_func.                                                       *)

Tickler(n, s) == tk' = [tk EXCEPT ![n] = s]

TicklerTop(n) ==
  /\ tk[n].at = "top"
  /\ Tickler(n, IF lib_active
                THEN [tk[n] EXCEPT !.at = "slot", !.i = 0,
                                   !.max = IF tags = NULL THEN 0 ELSE HT!hashtable_capacity(tags)]
                ELSE Idle("exited"))
  /\ UNCHANGED <<lifeVars, tagVars, tableVars, at, reg, known>>

\* Fault: the tag is used with no reference of the tickler's own.
TicklerSlotUnheld(n) ==
  /\ tk[n].at = "slot"
  /\ LET t == IF tags = NULL THEN NULL ELSE HT!hashtable_get_index(tags, tk[n].i)
     IN  IF tk[n].i >= tk[n].max THEN Tickler(n, Idle("wait"))
         ELSE IF t # NULL THEN Tickler(n, [tk[n] EXCEPT !.at = "use", !.tag = t])
         ELSE Tickler(n, [tk[n] EXCEPT !.i = @ + 1])
  /\ UNCHANGED <<lifeVars, tagVars, tableVars, at, reg, known>>

\* Fault: the walk over the slots ends at the first empty one.
TicklerSlotStops(n) ==
  /\ tk[n].at = "slot"
  /\ IF tk[n].i >= tk[n].max THEN Tickler(n, Idle("wait")) /\ UNCHANGED refs
     ELSE LET max == IF tags = NULL THEN 0 ELSE HT!hashtable_capacity(tags)
              t   == IF tags = NULL THEN NULL ELSE HT!hashtable_get_index(tags, tk[n].i)
          IN  IF t # NULL /\ refs[t] > 0
              THEN /\ rc_inc(t)
                   /\ Tickler(n, [tk[n] EXCEPT !.at = "use", !.max = max, !.tag = t])
              ELSE Tickler(n, Idle("wait")) /\ UNCHANGED refs
  /\ UNCHANGED <<lifeVars, stage, tag_id, tableVars, at, reg, known>>

\* Under the mutex: the capacity is read again, and the tag of slot i held.
TicklerSlot(n) ==
  /\ tk[n].at = "slot"
  /\ IF tk[n].i >= tk[n].max THEN Tickler(n, Idle("wait")) /\ UNCHANGED refs
     ELSE LET max == IF tags = NULL THEN 0 ELSE HT!hashtable_capacity(tags)
              t   == IF tags = NULL THEN NULL ELSE HT!hashtable_get_index(tags, tk[n].i)
          IN  IF t # NULL /\ refs[t] > 0
              THEN /\ rc_inc(t)
                   /\ Tickler(n, [tk[n] EXCEPT !.at = "use", !.max = max, !.tag = t])
              ELSE /\ Tickler(n, [tk[n] EXCEPT !.i = @ + 1, !.max = max])
                   /\ UNCHANGED refs
  /\ UNCHANGED <<lifeVars, stage, tag_id, tableVars, at, reg, known>>

\* The tag has been tickled, or its mutex was taken: the reference is dropped.
TicklerNext(n) ==
  /\ tk[n].at = "use"
  /\ rc_dec(tk[n].tag)
  /\ Tickler(n, [tk[n] EXCEPT !.at = "slot", !.i = @ + 1, !.tag = NULL])
  /\ UNCHANGED <<lifeVars, tag_id, tableVars, at, reg, known>>

\* The wait ends by a wake-up or by its timeout.
TicklerWakes(n) ==
  /\ tk[n].at = "wait"
  /\ Tickler(n, Idle("top"))
  /\ UNCHANGED <<lifeVars, tagVars, tableVars, at, reg, known>>

-----------------------------------------------------------------------------
(* plc_tag_shutdown: every tag the walk over the slots meets is destroyed, *)
(* then the modules are taken down.                                        *)

plc_tag_shutdown(p) ==
  /\ at[p] = "out" /\ Quiet(p)
  /\ tags # NULL /\ lib_active
  /\ lib_active' = FALSE
  /\ Goes(p, "sweep") /\ reg' = [reg EXCEPT ![p].i = 0]
  /\ UNCHANGED <<library_state, up, failures, rounds, tagVars, tableVars, tk, known>>

SweepSlot(p) ==
  /\ at[p] = "sweep" /\ reg[p].i < HT!hashtable_capacity(tags)
  /\ LET t == HT!hashtable_get_index(tags, reg[p].i)
     IN  IF t # NULL /\ refs[t] > 0
         THEN rc_inc(t) /\ Goes(p, "take") /\ reg' = [reg EXCEPT ![p].tag = t]
         ELSE reg' = [reg EXCEPT ![p].i = @ + 1] /\ UNCHANGED <<refs, at>>
  /\ UNCHANGED <<lifeVars, stage, tag_id, tableVars, tk, known>>

\* Fault: the reference of the walk itself is not dropped.
SweepTakeKeeps(p) ==
  /\ at[p] = "take"
  /\ LET t  == reg[p].tag
         id == tag_id[t]
     IN  IF 0 < id /\ id < TAG_ID_MASK /\ HT!hashtable_get(tags, id) = t
         THEN Unlisted(id) /\ Drop(t, 1)
         ELSE UNCHANGED <<refs, stage, tags, listed>>
  /\ Goes(p, "sweep") /\ reg' = [reg EXCEPT ![p].tag = NULL, ![p].i = @ + 1]
  /\ UNCHANGED <<lifeVars, tag_id, next_tag_id, tk, known>>

\* plc_tag_destroy by the tag's id, then the walk's own reference.
SweepTake(p) ==
  /\ at[p] = "take"
  /\ LET t  == reg[p].tag
         id == tag_id[t]
     IN  IF 0 < id /\ id < TAG_ID_MASK /\ HT!hashtable_get(tags, id) = t
         THEN Unlisted(id) /\ Drop(t, 2)
         ELSE rc_dec(t) /\ UNCHANGED <<tags, listed>>
  /\ Goes(p, "sweep") /\ reg' = [reg EXCEPT ![p].tag = NULL, ![p].i = @ + 1]
  /\ UNCHANGED <<lifeVars, tag_id, next_tag_id, tk, known>>

\* destroy_modules: only the thread that moves RUNNING to SHUTTING_DOWN goes on.
destroy_modules(p) ==
  /\ at[p] = "sweep" /\ reg[p].i >= HT!hashtable_capacity(tags)
  /\ IF library_state = "RUNNING"
     THEN library_state' = "SHUTTING_DOWN" /\ Goes(p, "down") /\ reg' = [reg EXCEPT ![p].i = 1]
     ELSE Returns(p) /\ UNCHANGED library_state
  /\ UNCHANGED <<up, lib_active, failures, rounds, tagVars, tableVars, tk, known>>

\* lib_teardown joins the tickler thread, then frees the table.
lib_teardown ==
  /\ tk[rounds].at = "exited"
  /\ lib_active' = FALSE /\ tags' = NULL /\ listed' = <<>>

\* The protocol modules wait for the sessions that the tags hold, the others for
\* their thread.
TeardownModule(p) ==
  /\ at[p] = "down" /\ reg[p].i <= Len(TeardownOrder)
  /\ LET m == TeardownOrder[reg[p].i]
     IN  /\ up' = up \ {m}
         /\ m \in {"ab", "mb", "omron", "refcount"} => \A t \in Tags : stage[t] \in {"none", "gone"}
         /\ IF m = "lib" THEN lib_teardown ELSE UNCHANGED <<lib_active, tags, listed>>
  /\ reg' = [reg EXCEPT ![p].i = @ + 1]
  /\ UNCHANGED <<library_state, failures, rounds, tagVars, next_tag_id, at, tk, known>>

ShutdownReturns(p) ==
  /\ at[p] = "down" /\ reg[p].i > Len(TeardownOrder)
  /\ library_state' = "UNINITIALIZED"
  /\ Returns(p)
  /\ UNCHANGED <<up, lib_active, failures, rounds, tagVars, tableVars, tk, known>>

-----------------------------------------------------------------------------
Progress(p) ==
  \/ initialize_modules(p) \/ StartModule(p) \/ StartFails(p) \/ Started(p)
  \/ CreateRefused(p) \/ Constructed(p) \/ Unmapped(p)
  \/ add_tag_lookup(p) \/ Named(p) \/ CreateFails(p) \/ CreateReturns(p) \/ Released(p)
  \/ SweepSlot(p) \/ SweepTake(p) \/ destroy_modules(p) \/ TeardownModule(p)
  \/ ShutdownReturns(p)

Calls(p) ==
  CreateCalled(p) \/ lookup_tag(p) \/ plc_tag_destroy(p) \/ plc_tag_shutdown(p)

tag_tickler_func(n) ==
  TicklerTop(n) \/ TicklerSlot(n) \/ TicklerNext(n) \/ TicklerWakes(n)

Next ==
  \/ \E p \in Threads : Progress(p) \/ Calls(p)
  \/ \E n \in 1 .. MaxRounds : tag_tickler_func(n)
  \/ \E t \in Tags : CleanerDestroys(t)

\* A call that is running goes on; the tickler and cleanup threads run.  Nobody
\* has to call anything.
Fairness ==
  /\ \A p \in Threads : WF_vars(Progress(p))
  /\ \A n \in 1 .. MaxRounds : WF_vars(tag_tickler_func(n))
  /\ \A t \in Tags : WF_vars(CleanerDestroys(t))

Spec == Init /\ [][Next]_vars /\ Fairness

-----------------------------------------------------------------------------
\* The hash table holds the tags that were given an id and not taken out, and
\* nothing else, and finds every one of them, whatever was removed from it and
\* however often it was enlarged (hashtable_put, hashtable_remove).
TableIsMap == tags # NULL => HT!IsMap(tags, listed)

\* An id the application was given means the tag it was created for or nothing,
\* in whatever thread and after whatever restart of the library it is used.
HandleIsOwn == \A id \in DOMAIN known : tags # NULL => Lookup(id) \in {NULL, known[id]}

\* A tag that a call, the tickler or the walk of the shutdown works with, or that
\* the table lists, has not been handed to the cleanup thread.
UsedIsAlive ==
  /\ \A p \in Threads : reg[p].tag # NULL => stage[reg[p].tag] = "live"
  /\ \A n \in 1 .. MaxRounds : tk[n].tag # NULL => stage[tk[n].tag] = "live"
  /\ \A id \in DOMAIN listed : stage[listed[id]] = "live"

\* A thread that has passed initialize_modules works with a library whose modules
\* are all started and whose tickler thread runs.
RunningIsUp ==
  \A p \in Threads : at[p] \in {"made", "map", "name", "status"} =>
    /\ up = {Modules[i] : i \in 1 .. Len(Modules)}
    /\ lib_active /\ tags # NULL
    /\ tk[rounds].at \notin {"none", "exited"}

\* What a thread works with is there: no tag that was handed to the cleanup thread,
\* no module that is not started, though threads create, use and destroy tags
\* while others start the library.
WorksWithLive == UsedIsAlive /\ RunningIsUp

\* plc_tag_shutdown returns: the tags it finds in the table are all there are, so
\* that the modules that wait for them come to an end.
ShutdownEnds ==
  (\E p \in Threads : at[p] \in {"sweep", "take", "down"}) ~> NoShutdown

\* The tickler reaches every tag in the table, although tags move to other slots
\* when the table is enlarged during its walk.
TagsTickled ==
  \A t \in Tags :
    ((\E id \in DOMAIN listed : listed[id] = t) /\ lib_active) ~>
      ((\E n \in 1 .. MaxRounds : tk[n].tag = t) \/ ~lib_active \/ stage[t] # "live"
         \/ \A id \in DOMAIN listed : listed[id] # t)
=============================================================================
