----------------------------- MODULE ModbusPool -----------------------------
(***************************************************************************)
(* The life of the Modbus connections (protocols/mb/modbus.c): tags of one *)
(* server find or create the PLC object they share, its handler thread is  *)
(* started and stopped, and destructors run on the cleanup thread of       *)
(* utils/rc.c while the library is shut down.                              *)
(*                                                                         *)
(* All tags name the same server, path and connection group, so that every *)
(* PLC object on the list matches.  A tag holds one reference to its PLC;  *)
(* refs[p] is the set of its holders.                                      *)
(***************************************************************************)
EXTENDS Lists, FiniteSets

CONSTANTS
  Tag, Plc,          \* tag objects and PLC objects, each used once
  None,
  MaxThreadFailures, \* calls of thread_create that fail
  Timeouts           \* whether the 5 s waits of mb_teardown may run out

ASSUME PoolAssumption ==
  /\ Tag \cap Plc = {} /\ None \notin Tag \cup Plc
  /\ MaxThreadFailures \in Nat
  /\ Timeouts \in BOOLEAN

VARIABLES
  pc,         \* pc[t]: where the creation or destruction of tag t is
  plcOf,      \* tag->plc
  refs,       \* the references to a PLC object
  members,    \* plc->tag_vector; tag_count is its cardinality
  phase,      \* phase[p]: "none", "live", "dying" (count zero), "joining", "freed"
  plcs,       \* the global list (the newest first)
  terminate,  \* plc->flags.terminate
  handler,    \* handler[p]: "none", "created", "running" or "exited"
  plc_count,
  queue, job, \* the cleanup thread's queue and the destructor it is in
  lib,        \* "up", "closing", "stopping" (mb_teardown), "polling", "down"
  failures

vars == <<pc, plcOf, refs, members, phase, plcs, terminate, handler,
          plc_count, queue, job, lib, failures>>

TagPc == {"none", "found", "new", "attached", "queued", "removed", "gone"}

TypeOK ==
  /\ pc \in [Tag -> TagPc]
  /\ plcOf \in [Tag -> Plc \cup {None}]
  /\ \A t \in Tag : plcOf[t] = None <=> pc[t] \in {"none", "gone"}
  /\ refs \in [Plc -> SUBSET Tag]
  /\ members \in [Plc -> SUBSET Tag]
  /\ phase \in [Plc -> {"none", "live", "dying", "joining", "freed"}]
  /\ plcs \in Seq(Plc)
  /\ terminate \in [Plc -> BOOLEAN]
  /\ handler \in [Plc -> {"none", "created", "running", "exited"}]
  /\ plc_count \in Int
  /\ queue \in Seq(Tag \cup Plc)
  /\ job \in Tag \cup Plc \cup {None}
  /\ lib \in {"up", "closing", "stopping", "polling", "down"}
  /\ failures \in 0 .. MaxThreadFailures

Init ==
  /\ pc = [t \in Tag |-> "none"]
  /\ plcOf = [t \in Tag |-> None]
  /\ refs = [p \in Plc |-> {}]
  /\ members = [p \in Plc |-> {}]
  /\ phase = [p \in Plc |-> "none"]
  /\ plcs = <<>>
  /\ terminate = [p \in Plc |-> FALSE]
  /\ handler = [p \in Plc |-> "none"]
  /\ plc_count = 0
  /\ queue = <<>> /\ job = None
  /\ lib = "up"
  /\ failures = 0

Listed == {plcs[i] : i \in DOMAIN plcs}

\* rc_inc succeeds on an object whose count is not zero.
Usable(p) == refs[p] # {}

-----------------------------------------------------------------------------
\* The thread that creates tag t.

\* find_or_create_plc under mb_mutex: the first PLC of the list that rc_inc
\* accepts.
FindPlc(t) ==
  /\ lib = "up" /\ pc[t] = "none"
  /\ \E i \in DOMAIN plcs :
       /\ Usable(plcs[i])
       /\ \A k \in 1 .. i - 1 : ~ Usable(plcs[k])
       /\ plcOf' = [plcOf EXCEPT ![t] = plcs[i]]
       /\ refs' = [refs EXCEPT ![plcs[i]] = @ \cup {t}]
  /\ pc' = [pc EXCEPT ![t] = "found"]
  /\ UNCHANGED <<members, phase, plcs, terminate, handler, plc_count,
                 queue, job, lib, failures>>

\* No such PLC: a new one, put on the list before the mutex is released.
CreatePlc(t) ==
  /\ lib = "up" /\ pc[t] = "none"
  /\ \A p \in Listed : ~ Usable(p)
  /\ \E p \in Plc :
       /\ phase[p] = "none"
       /\ phase' = [phase EXCEPT ![p] = "live"]
       /\ plcs' = <<p>> \o plcs
       /\ plcOf' = [plcOf EXCEPT ![t] = p]
       /\ refs' = [refs EXCEPT ![p] = {t}]
  /\ pc' = [pc EXCEPT ![t] = "new"]
  /\ UNCHANGED <<members, terminate, handler, plc_count, queue, job, lib,
                 failures>>

\* thread_create for the handler of a new PLC; plc_count is incremented.
StartHandler(t) ==
  /\ pc[t] = "new"
  /\ handler' = [handler EXCEPT ![plcOf[t]] = "created"]
  /\ plc_count' = plc_count + 1
  /\ pc' = [pc EXCEPT ![t] = "found"]
  /\ UNCHANGED <<plcOf, refs, members, phase, plcs, terminate, queue, job,
                 lib, failures>>

\* rc_dec of tag t's reference; the last one queues the PLC's destructor.
Release(t, q) ==
  LET p == plcOf[t] IN
    /\ refs' = [refs EXCEPT ![p] = @ \ {t}]
    /\ plcOf' = [plcOf EXCEPT ![t] = None]
    /\ phase' = [phase EXCEPT ![p] = IF refs[p] = {t} THEN "dying" ELSE @]
    /\ queue' = IF refs[p] = {t} THEN Append(q, p) ELSE q

\* thread_create fails: the PLC is released, and the creation of the tag fails
\* (it is destroyed without a PLC).
StartFails(t) ==
  /\ pc[t] = "new" /\ failures < MaxThreadFailures
  /\ failures' = failures + 1
  /\ Release(t, queue)
  /\ pc' = [pc EXCEPT ![t] = "gone"]
  /\ UNCHANGED <<members, plcs, terminate, handler, plc_count, job, lib>>

add_tag(t) ==
  /\ pc[t] = "found"
  /\ members' = [members EXCEPT ![plcOf[t]] = @ \cup {t}]
  /\ pc' = [pc EXCEPT ![t] = "attached"]
  /\ UNCHANGED <<plcOf, refs, phase, plcs, terminate, handler, plc_count,
                 queue, job, lib, failures>>

\* plc_tag_destroy, by the application or by plc_tag_shutdown: the last
\* reference to the tag goes and its destructor is queued.
DestroyTag(t) ==
  /\ pc[t] = "attached"
  /\ pc' = [pc EXCEPT ![t] = "queued"]
  /\ queue' = Append(queue, t)
  /\ UNCHANGED <<plcOf, refs, members, phase, plcs, terminate, handler,
                 plc_count, job, lib, failures>>

-----------------------------------------------------------------------------
\* The cleanup thread: one destructor after the other.

CleanerTakes ==
  /\ job = None /\ queue # <<>>
  /\ job' = Head(queue) /\ queue' = Tail(queue)
  /\ UNCHANGED <<pc, plcOf, refs, members, phase, plcs, terminate, handler,
                 plc_count, lib, failures>>

\* modbus_tag_destructor: remove_tag, under the PLC's mutex.  The last tag to
\* leave makes the handler terminate.
remove_tag(t) ==
  LET p == plcOf[t] IN
    /\ job = t /\ pc[t] = "queued"
    /\ members' = [members EXCEPT ![p] = @ \ {t}]
    /\ terminate' = [terminate EXCEPT ![p] = @ \/ members[p] = {t}]
    /\ pc' = [pc EXCEPT ![t] = "removed"]
    /\ UNCHANGED <<plcOf, refs, phase, plcs, handler, plc_count, queue, job,
                   lib, failures>>

\* The end of modbus_tag_destructor: rc_dec(tag->plc).
ReleasePlc(t) ==
  /\ job = t /\ pc[t] = "removed"
  /\ Release(t, queue)
  /\ pc' = [pc EXCEPT ![t] = "gone"]
  /\ job' = None
  /\ UNCHANGED <<members, plcs, terminate, handler, plc_count, lib, failures>>

\* modbus_plc_destructor takes the PLC off the list (when mb_mutex has been
\* destroyed that block is not entered), tells the handler to terminate ...
StopHandler(p) ==
  /\ job = p /\ phase[p] = "dying"
  /\ plcs' = IF lib = "down" THEN plcs ELSE Unlinked(plcs, p)
  /\ terminate' = [terminate EXCEPT ![p] = @ \/ handler[p] # "none"]
  /\ phase' = [phase EXCEPT ![p] = "joining"]
  /\ UNCHANGED <<pc, plcOf, refs, members, handler, plc_count, queue, job,
                 lib, failures>>

\* Fault: the handler is not joined.
DestroyPlcUnjoined(p) ==
  /\ job = p /\ phase[p] = "joining"
  /\ phase' = [phase EXCEPT ![p] = "freed"]
  /\ plc_count' = plc_count - 1
  /\ job' = None
  /\ UNCHANGED <<pc, plcOf, refs, members, plcs, terminate, handler, queue,
                 lib, failures>>

\* Fault: plc_count is not decremented.
DestroyPlcUncounted(p) ==
  /\ job = p /\ phase[p] = "joining"
  /\ handler[p] \in {"none", "exited"}
  /\ phase' = [phase EXCEPT ![p] = "freed"]
  /\ job' = None
  /\ UNCHANGED <<pc, plcOf, refs, members, plcs, terminate, handler, plc_count,
                 queue, lib, failures>>

\* ... joins it, frees everything and decrements plc_count.
DestroyPlc(p) ==
  /\ job = p /\ phase[p] = "joining"
  /\ handler[p] \in {"none", "exited"}
  /\ phase' = [phase EXCEPT ![p] = "freed"]
  /\ plc_count' = plc_count - 1
  /\ job' = None
  /\ UNCHANGED <<pc, plcOf, refs, members, plcs, terminate, handler, queue,
                 lib, failures>>

-----------------------------------------------------------------------------
\* modbus_plc_handler: its start and its loop condition.

HandlerStarts(p) ==
  /\ handler[p] = "created"
  /\ handler' = [handler EXCEPT ![p] = "running"]
  /\ UNCHANGED <<pc, plcOf, refs, members, phase, plcs, terminate, plc_count,
                 queue, job, lib, failures>>

HandlerExits(p) ==
  /\ handler[p] = "running" /\ (terminate[p] \/ lib # "up")
  /\ handler' = [handler EXCEPT ![p] = "exited"]
  /\ UNCHANGED <<pc, plcOf, refs, members, phase, plcs, terminate, plc_count,
                 queue, job, lib, failures>>

-----------------------------------------------------------------------------
\* plc_tag_shutdown and mb_teardown.  The application does not create tags
\* while it shuts the library down.

Shutdown ==
  /\ lib = "up"
  /\ \A t \in Tag : pc[t] \notin {"new", "found"}
  /\ lib' = "closing"
  /\ UNCHANGED <<pc, plcOf, refs, members, phase, plcs, terminate, handler,
                 plc_count, queue, job, failures>>

\* Every tag has been destroyed: mb_teardown tells all handlers to terminate.
TeardownStops ==
  /\ lib = "closing"
  /\ \A t \in Tag : pc[t] # "attached"
  /\ terminate' = [p \in Plc |-> terminate[p] \/ p \in Listed]
  /\ lib' = "stopping"
  /\ UNCHANGED <<pc, plcOf, refs, members, phase, plcs, handler, plc_count,
                 queue, job, failures>>

\* The wait for plc_count to fall to zero.
TeardownCounts ==
  /\ lib = "stopping"
  /\ plc_count <= 0 \/ Timeouts
  /\ lib' = "polling"
  /\ UNCHANGED <<pc, plcOf, refs, members, phase, plcs, terminate, handler,
                 plc_count, queue, job, failures>>

\* The wait for the handlers, and then mb_mutex is destroyed.
TeardownEnds ==
  /\ lib = "polling"
  /\ (\A p \in Plc : handler[p] # "running") \/ Timeouts
  /\ lib' = "down"
  /\ UNCHANGED <<pc, plcOf, refs, members, phase, plcs, terminate, handler,
                 plc_count, queue, job, failures>>

-----------------------------------------------------------------------------
Create(t) ==
  FindPlc(t) \/ CreatePlc(t) \/ StartHandler(t) \/ StartFails(t) \/ add_tag(t)

Cleanup ==
  \/ CleanerTakes
  \/ \E t \in Tag : remove_tag(t) \/ ReleasePlc(t)
  \/ \E p \in Plc : StopHandler(p) \/ DestroyPlc(p)

Handler(p) == HandlerStarts(p) \/ HandlerExits(p)

Teardown == Shutdown \/ TeardownStops \/ TeardownCounts \/ TeardownEnds

Next ==
  \/ \E t \in Tag : Create(t) \/ DestroyTag(t)
  \/ Cleanup
  \/ \E p \in Plc : Handler(p)
  \/ Teardown

\* The threads of the library run; plc_tag_shutdown, once called, goes on.
Fairness ==
  /\ WF_vars(Cleanup)
  /\ \A p \in Plc : WF_vars(Handler(p))
  /\ \A t \in Tag : WF_vars(lib # "up" /\ DestroyTag(t))
  /\ WF_vars(TeardownStops) /\ WF_vars(TeardownCounts) /\ WF_vars(TeardownEnds)

Spec == Init /\ [][Next]_vars
FairSpec == Spec /\ Fairness

-----------------------------------------------------------------------------
\* At any time the tags that hold a PLC hold the same one: threads that race
\* in find_or_create_plc do not create duplicates of a connection.
OnePlc == Cardinality({p \in Plc : Usable(p)}) <= 1

\* The list that find_or_create_plc walks holds no freed PLC object, until
\* the library is down and, if every handler thread could be started, after.
ListedIsAllocated ==
  lib # "down" \/ failures = 0 => \A p \in Listed : phase[p] # "freed"

\* A PLC object is freed only when no handler thread and no tag uses it.
FreedIsUnused ==
  \A p \in Plc : phase[p] = "freed" =>
    /\ handler[p] \in {"none", "exited"}
    /\ refs[p] = {} /\ members[p] = {}
    /\ \A t \in Tag : plcOf[t] # p

\* mb_teardown returns only after the destructor of every PLC has run, as long
\* as every handler thread could be started (plc_count is exact then).
TeardownIsComplete ==
  lib = "down" /\ failures = 0 => \A p \in Plc : phase[p] \in {"none", "freed"}

\* A tag that the application can use has a handler thread to serve it.
TagHasHandler ==
  \A t \in Tag : lib = "up" /\ pc[t] = "attached" =>
    LET p == plcOf[t] IN
      \/ handler[p] \in {"created", "running"} /\ ~ terminate[p]
      \/ \E u \in Tag : pc[u] = "new" /\ plcOf[u] = p

\* A shutdown comes to its end: neither the cleanup thread (joining a handler)
\* nor mb_teardown (waiting for the count) is stuck.
ShutdownEnds == lib = "closing" ~> lib = "down"

=============================================================================
