------------------------------ MODULE RefCount ------------------------------
(***************************************************************************)
(* Reference counted objects with deferred destruction (utils/rc.c).       *)
(*                                                                         *)
(* Tags own one strong reference to the PLC object (session, connection)   *)
(* they talk to.  A PLC object is also on a list of weak pointers, the     *)
(* list find_or_create functions search; its destructor takes it off.      *)
(*                                                                         *)
(* A Client is a place of the program that can keep one strong reference   *)
(* and the thread that acts on it; clients therefore interleave at least   *)
(* as freely as the application's threads do.  Every object is allocated   *)
(* once: an address that mem_free returned is a new object when malloc     *)
(* hands it out again.                                                     *)
(***************************************************************************)
EXTENDS Naturals, Sequences, FiniteSets

CONSTANTS Tag, Plc, Client, Cleaner, None

ASSUME KindsDisjoint == /\ Tag \cap Plc = {}
                        /\ (Tag \cup Plc) \cap Client = {}
                        /\ Cleaner \notin Client
                        /\ None \notin Tag \cup Plc \cup Client \cup {Cleaner}

ASSUME FiniteKinds == IsFiniteSet(Tag) /\ IsFiniteSet(Client)

Object == Tag \cup Plc
Thread == Client \cup {Cleaner}
Holder == Client \cup Tag

VARIABLES
  count,     \* refcount_t.count of each object
  phase,     \* how far each object's life has come
  exec,      \* the thread inside rc_dec or refcount_cleanup of the object
  refs,      \* who keeps a strong reference to the object (ghost)
  plcOf,     \* tag->plc, tag->session: the reference the tag owns
  registry,  \* the list of weak pointers: sessions, plcs
  queue,     \* cleanup_queue
  running,   \* cleanup_thread_running
  cleaner,   \* where the cleanup thread is in its loop
  lib,       \* where startup and teardown are
  admin,     \* the thread in refcount_teardown
  fallback,  \* the object rc_dec destroys while it holds cleanup_mutex
  cleanups   \* how often cleanup_func was called on the object (ghost)

vars == <<count, phase, exec, refs, plcOf, registry, queue, running, cleaner,
          lib, admin, fallback, cleanups>>

Phases == {"none", "live", "dead", "queueing", "queued", "cleaning",
           "releasing", "freeing", "freed"}

\* Some thread is inside a call on the object.
Inline == {"dead", "queueing", "cleaning", "releasing", "freeing"}

TypeOK ==
  /\ count \in [Object -> Nat]
  /\ phase \in [Object -> Phases]
  /\ exec \in [Object -> Thread]
  /\ refs \in [Object -> SUBSET Holder]
  /\ plcOf \in [Tag -> Plc \cup {None}]
  /\ registry \subseteq Plc
  /\ queue \in Seq(Object)
  /\ running \in BOOLEAN
  /\ cleaner \in {"test", "wait", "drain", "exited"}
  /\ lib \in {"down", "up", "joining", "draining"}
  /\ admin \in IF lib \in {"joining", "draining"} THEN Client ELSE {None}
  /\ fallback \in Object \cup {None}
  /\ cleanups \in [Object -> Nat]

Init ==
  /\ count = [o \in Object |-> 0]
  /\ phase = [o \in Object |-> "none"]
  /\ exec = [o \in Object |-> Cleaner]
  /\ refs = [o \in Object |-> {}]
  /\ plcOf = [t \in Tag |-> None]
  /\ registry = {}
  /\ queue = << >>
  /\ running = FALSE
  /\ cleaner = "exited"
  /\ lib = "down"
  /\ admin = None
  /\ fallback = None
  /\ cleanups = [o \in Object |-> 0]

Busy(t) == \E o \in Object : exec[o] = t /\ phase[o] \in Inline

\* Applications may not call into the library while it shuts down.
MayCall(c) == lib \in {"up", "down"} /\ ~Busy(c)

\* cleanup_mutex is recursive: only another thread's fallback cleanup keeps
\* thread t out of the critical block.
CanLock(t) == fallback # None => exec[fallback] = t

-----------------------------------------------------------------------------
(* Calls of the clients *)

rc_alloc(c, o) ==
  /\ MayCall(c)
  /\ phase[o] = "none"
  /\ phase' = [phase EXCEPT ![o] = "live"]
  /\ count' = [count EXCEPT ![o] = 1]
  /\ refs' = [refs EXCEPT ![o] = {c}]
  /\ UNCHANGED <<exec, plcOf, registry, queue, running, cleaner, lib, admin,
                 fallback, cleanups>>

\* The creator puts a new PLC object on the list.
Register(c, o) ==
  /\ MayCall(c)
  /\ o \in Plc \ registry
  /\ c \in refs[o]
  /\ registry' = registry \cup {o}
  /\ UNCHANGED <<count, phase, exec, refs, plcOf, queue, running, cleaner, lib,
                 admin, fallback, cleanups>>

\* Fault: rc_inc hands out the reference although the count was zero.
rc_incAnyway(o, c) ==
  /\ count' = [count EXCEPT ![o] = IF @ > 0 THEN @ + 1 ELSE @]
  /\ refs' = [refs EXCEPT ![o] = @ \cup {c}]

\* The spin block of rc_inc: a reference only while the count is positive.
rc_inc(o, c) ==
  IF count[o] > 0
    THEN /\ count' = [count EXCEPT ![o] = @ + 1]
         /\ refs' = [refs EXCEPT ![o] = @ \cup {c}]
    ELSE UNCHANGED <<count, refs>>

\* A holder hands a further reference to another place.
Share(c, d, o) ==
  /\ MayCall(c)
  /\ c \in refs[o]
  /\ d \notin refs[o]
  /\ rc_inc(o, d)
  /\ UNCHANGED <<phase, exec, plcOf, registry, queue, running, cleaner, lib,
                 admin, fallback, cleanups>>

\* find_session_by_host_unsafe, find_or_create_plc: rc_inc through a weak
\* pointer, which fails once the count is zero.
Find(c, o) ==
  /\ MayCall(c)
  /\ o \in registry
  /\ c \notin refs[o]
  /\ rc_inc(o, c)
  /\ UNCHANGED <<phase, exec, plcOf, registry, queue, running, cleaner, lib,
                 admin, fallback, cleanups>>

\* tag->plc = plc: the tag takes over the reference of its creator.
Attach(c, t, p) ==
  /\ MayCall(c)
  /\ c \in refs[t] \cap refs[p]
  /\ plcOf[t] = None
  /\ plcOf' = [plcOf EXCEPT ![t] = p]
  /\ refs' = [refs EXCEPT ![p] = (@ \ {c}) \cup {t}]
  /\ UNCHANGED <<count, phase, exec, registry, queue, running, cleaner, lib,
                 admin, fallback, cleanups>>

\* Fault: the test for zero is off by one, nobody destroys the object.
rc_decLeaks(t, h, o, ph) ==
  /\ count' = [count EXCEPT ![o] = @ - 1]
  /\ refs' = [refs EXCEPT ![o] = @ \ {h}]
  /\ phase' = ph
  /\ UNCHANGED exec

\* The spin block of rc_dec, for the reference that h keeps; thread t calls.
rc_dec(t, h, o, ph) ==
  IF count[o] > 0
    THEN /\ count' = [count EXCEPT ![o] = @ - 1]
         /\ refs' = [refs EXCEPT ![o] = @ \ {h}]
         /\ IF count[o] = 1
              THEN /\ phase' = [ph EXCEPT ![o] = "dead"]
                   /\ exec' = [exec EXCEPT ![o] = t]
              ELSE phase' = ph /\ UNCHANGED exec
    ELSE phase' = ph /\ UNCHANGED <<count, refs, exec>>

Drop(c, o) ==
  /\ MayCall(c)
  /\ c \in refs[o]
  /\ rc_dec(c, c, o, phase)
  /\ UNCHANGED <<plcOf, registry, queue, running, cleaner, lib, admin,
                 fallback, cleanups>>

-----------------------------------------------------------------------------
(* The rest of rc_dec once the count is zero, by the thread that dropped it *)

\* cleanup_thread_running && cleanup_mutex && cleanup_queue, read unlocked.
Decide(o) ==
  /\ phase[o] = "dead"
  /\ phase' = [phase EXCEPT ![o] =
                 IF running /\ lib # "down" THEN "queueing" ELSE "cleaning"]
  /\ UNCHANGED <<count, exec, refs, plcOf, registry, queue, running, cleaner,
                 lib, admin, fallback, cleanups>>

\* vector_insert in the critical block; cond_signal only shortens the wait.
Enqueue(o) ==
  /\ phase[o] = "queueing"
  /\ CanLock(exec[o])
  /\ queue' = Append(queue, o)
  /\ phase' = [phase EXCEPT ![o] = "queued"]
  /\ UNCHANGED <<count, exec, refs, plcOf, registry, running, cleaner, lib,
                 admin, fallback, cleanups>>

\* vector_insert found no memory: clean up at once, inside the block.
EnqueueFails(o) ==
  /\ phase[o] = "queueing"
  /\ CanLock(exec[o])
  /\ phase' = [phase EXCEPT ![o] = "cleaning"]
  /\ fallback' = IF fallback = None THEN o ELSE fallback
  /\ UNCHANGED <<count, exec, refs, plcOf, registry, queue, running, cleaner,
                 lib, admin, cleanups>>

-----------------------------------------------------------------------------
(* refcount_cleanup: cleanup_func, then mem_free *)

\* Fault: the destructor leaves the object on the list.
UnregisterNothing(o) ==
  /\ phase[o] = "cleaning"
  /\ cleanups' = [cleanups EXCEPT ![o] = @ + 1]
  /\ phase' = [phase EXCEPT ![o] = "releasing"]
  /\ UNCHANGED <<count, exec, refs, plcOf, registry, queue, running, cleaner,
                 lib, admin, fallback>>

\* The destructor takes the object off the list before anything else.
Unregister(o) ==
  /\ phase[o] = "cleaning"
  /\ cleanups' = [cleanups EXCEPT ![o] = @ + 1]
  /\ registry' = registry \ {o}
  /\ phase' = [phase EXCEPT ![o] = "releasing"]
  /\ UNCHANGED <<count, exec, refs, plcOf, queue, running, cleaner, lib, admin,
                 fallback>>

\* A tag's destructor gives up the PLC reference: a nested rc_dec.
Release(o) ==
  /\ phase[o] = "releasing"
  /\ LET ph == [phase EXCEPT ![o] = "freeing"]
     IN  IF o \in Tag /\ plcOf[o] # None
           THEN rc_dec(exec[o], o, plcOf[o], ph)
           ELSE phase' = ph /\ UNCHANGED <<count, refs, exec>>
  /\ UNCHANGED <<plcOf, registry, queue, running, cleaner, lib, admin,
                 fallback, cleanups>>

\* The nested rc_dec, if there was one, has returned.
Returned(o) ==
  (o \in Tag /\ plcOf[o] # None) =>
    ~(exec[plcOf[o]] = exec[o] /\ phase[plcOf[o]] \in Inline)

mem_free(o) ==
  /\ phase[o] = "freeing"
  /\ Returned(o)
  /\ phase' = [phase EXCEPT ![o] = "freed"]
  /\ fallback' = IF fallback = o THEN None ELSE fallback
  /\ UNCHANGED <<count, exec, refs, plcOf, registry, queue, running, cleaner,
                 lib, admin, cleanups>>

\* vector_remove(cleanup_queue, 0) in the critical block, then cleanup by t.
TakeHead(t) ==
  /\ CanLock(t)
  /\ queue # << >>
  /\ queue' = Tail(queue)
  /\ phase' = [phase EXCEPT ![Head(queue)] = "cleaning"]
  /\ exec' = [exec EXCEPT ![Head(queue)] = t]
  /\ UNCHANGED <<count, refs, plcOf, registry, running, cleaner, lib, admin,
                 fallback, cleanups>>

-----------------------------------------------------------------------------
(* The cleanup thread, startup and teardown *)

\* Fault: the cleanup thread ends after its first round.
CleanerTestsOnce ==
  /\ cleaner = "test"
  /\ cleaner' = IF running /\ queue = << >> THEN "wait" ELSE "exited"
  /\ UNCHANGED <<count, phase, exec, refs, plcOf, registry, queue, running,
                 lib, admin, fallback, cleanups>>

\* The condition of the outer loop.
CleanerTests ==
  /\ cleaner = "test"
  /\ cleaner' = IF running THEN "wait" ELSE "exited"
  /\ UNCHANGED <<count, phase, exec, refs, plcOf, registry, queue, running,
                 lib, admin, fallback, cleanups>>

\* cond_wait ends by a signal or after 100 ms.
CleanerWakes ==
  /\ cleaner = "wait"
  /\ cleaner' = "drain"
  /\ UNCHANGED <<count, phase, exec, refs, plcOf, registry, queue, running,
                 lib, admin, fallback, cleanups>>

CleanerTakes ==
  /\ cleaner = "drain"
  /\ ~Busy(Cleaner)
  /\ TakeHead(Cleaner)

\* The queue is empty: the inner loop ends.
CleanerLoops ==
  /\ cleaner = "drain"
  /\ ~Busy(Cleaner)
  /\ CanLock(Cleaner)
  /\ queue = << >>
  /\ cleaner' = "test"
  /\ UNCHANGED <<count, phase, exec, refs, plcOf, registry, queue, running,
                 lib, admin, fallback, cleanups>>

\* Startup and teardown run while no application thread is in the library.
Quiet == \A c \in Client : ~Busy(c)

refcount_startup ==
  /\ lib = "down"
  /\ Quiet
  /\ lib' = "up"
  /\ running' = TRUE
  /\ cleaner' = "test"
  /\ UNCHANGED <<count, phase, exec, refs, plcOf, registry, queue, admin,
                 fallback, cleanups>>

TeardownStops(c) ==
  /\ lib = "up"
  /\ Quiet
  /\ lib' = "joining"
  /\ admin' = c
  /\ running' = FALSE
  /\ UNCHANGED <<count, phase, exec, refs, plcOf, registry, queue, cleaner,
                 fallback, cleanups>>

TeardownJoins ==
  /\ lib = "joining"
  /\ cleaner = "exited"
  /\ lib' = "draining"
  /\ UNCHANGED <<count, phase, exec, refs, plcOf, registry, queue, running,
                 cleaner, admin, fallback, cleanups>>

TeardownTakes ==
  /\ lib = "draining"
  /\ ~Busy(admin)
  /\ TakeHead(admin)

\* The queue, the condition variable and the mutex are destroyed.
TeardownEnds ==
  /\ lib = "draining"
  /\ ~Busy(admin)
  /\ queue = << >>
  /\ lib' = "down"
  /\ admin' = None
  /\ UNCHANGED <<count, phase, exec, refs, plcOf, registry, queue, running,
                 cleaner, fallback, cleanups>>

-----------------------------------------------------------------------------
ClientCall ==
  \E c \in Client, o \in Object :
    \/ rc_alloc(c, o)
    \/ Register(c, o)
    \/ Find(c, o)
    \/ Drop(c, o)
    \/ \E d \in Client : Share(c, d, o)
    \/ o \in Plc /\ \E t \in Tag : Attach(c, t, o)

Cleanup(o) == \/ Decide(o) \/ Enqueue(o) \/ EnqueueFails(o)
              \/ Unregister(o) \/ Release(o) \/ mem_free(o)

CleanerStep == CleanerTests \/ CleanerWakes \/ CleanerTakes \/ CleanerLoops

Teardown == TeardownJoins \/ TeardownTakes \/ TeardownEnds

Next ==
  \/ ClientCall
  \/ \E o \in Object : Cleanup(o)
  \/ CleanerStep
  \/ refcount_startup
  \/ \E c \in Client : TeardownStops(c)
  \/ Teardown

\* Threads inside the library keep running; calls are the application's choice.
Fairness == /\ \A o \in Object : WF_vars(Cleanup(o))
            /\ WF_vars(CleanerStep)
            /\ WF_vars(Teardown)

Spec == Init /\ [][Next]_vars

FairSpec == Spec /\ Fairness

-----------------------------------------------------------------------------
(* Properties *)

\* The count rc_inc and rc_dec keep is the number of places that really keep a
\* reference, whatever interleaving of finds, hand-overs and drops led here.
CountIsExact == \A o \in Object : count[o] = Cardinality(refs[o])

\* Memory that refcount_cleanup frees is out of reach: no holder, no list of
\* weak pointers, no cleanup queue and no tag that has yet to run its
\* destructor leads to a freed object.
NoUseAfterFree ==
  \A o \in Object : phase[o] = "freed" =>
    /\ refs[o] = {}
    /\ o \notin registry
    /\ \A i \in DOMAIN queue : queue[i] # o
    /\ \A t \in Tag : plcOf[t] = o => phase[t] \in {"freeing", "freed"}

\* An object some place keeps a reference to is not being destroyed: rc_inc
\* through a weak pointer never brings back an object rc_dec gave up.
HeldIsLive == \A o \in Object : refs[o] # {} => phase[o] = "live"

\* cleanup_func runs once per object, and always before the memory goes.
CleanedOnce ==
  \A o \in Object : /\ cleanups[o] <= 1
                     /\ phase[o] = "freed" => cleanups[o] = 1

\* The last rc_dec is followed by the destructor and the release of the
\* memory, also when a teardown starts in between.
EventuallyFreed ==
  \A o \in Object : (phase[o] = "dead") ~> (phase[o] = "freed")

\* What the callers of rc_alloc, rc_inc and rc_dec rely on: RefContract, in
\* which an object is doomed from its last rc_dec to its destructor.
LifeOf(ph) == CASE ph = "none" -> "none"
                [] ph = "live" -> "alive"
                [] ph \in {"dead", "queueing", "queued", "cleaning"} -> "doomed"
                [] OTHER -> "destroyed"

Contract == INSTANCE RefContract
              WITH life <- [o \in Object |-> LifeOf(phase[o])], holders <- refs

\* Counts, spin locks, the queue and the cleanup thread together implement the
\* contract: no step of any thread does what the contract does not allow.
ImplementsContract == Contract!Spec

=============================================================================
