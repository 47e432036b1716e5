----------------------------- MODULE TagProofs ------------------------------
(***************************************************************************)
(* Proofs about the life of tags and PLC objects (RefCount) and about the  *)
(* operations of a tag (TagOps), for any number of them and of threads.    *)
(*                                                                         *)
(* The inductive invariant of RefCount says, besides the types, that an    *)
(* object is live exactly while it is held, that the holders of a PLC      *)
(* among the tags are the tags that point to it and have not yet released  *)
(* it, and which phases the list of weak pointers, the queue and the       *)
(* destructor counter allow.                                               *)
(*                                                                         *)
(* That of TagOps is OneRequest itself, as a predicate One(t) on tags that *)
(* every function of the protocol keeps: one lemma per function.           *)
(***************************************************************************)
EXTENDS RefCount, TagOps, FiniteSetTheorems, TLAPS

\* Which provers to try on a step that names none, and for how many seconds.
USE SMTT(30), ZenonT(30), Z3T(30)

LiveIsHeld == \A o \in Object : phase[o] = "live" <=> refs[o] # {}

TagsHoldTheirPlc ==
  /\ \A t \in Tag : refs[t] \subseteq Client
  /\ \A t \in Tag, p \in Plc :
       t \in refs[p] <=> plcOf[t] = p /\ phase[t] \notin {"freeing", "freed"}
  /\ \A t \in Tag : phase[t] = "none" => plcOf[t] = None

RegisteredIsAllocated ==
  \A o \in registry :
    phase[o] \in {"live", "dead", "queueing", "queued", "cleaning"}

QueueIsSound ==
  /\ \A i \in DOMAIN queue : phase[queue[i]] = "queued"
  /\ \A i, j \in DOMAIN queue : queue[i] = queue[j] => i = j

CleanupsByPhase ==
  \A o \in Object :
    cleanups[o] = IF phase[o] \in {"releasing", "freeing", "freed"}
                    THEN 1 ELSE 0

IInv == /\ TypeOK
        /\ CountIsExact
        /\ LiveIsHeld
        /\ TagsHoldTheirPlc
        /\ RegisteredIsAllocated
        /\ QueueIsSound
        /\ CleanupsByPhase

-----------------------------------------------------------------------------
\* How adding and taking away one element changes the size of a finite set.
LEMMA SizeFacts ==
  ASSUME NEW S, IsFiniteSet(S), NEW h
  PROVE  /\ Cardinality(S) \in Nat
         /\ Cardinality(S) = 0 <=> S = {}
         /\ h \notin S => Cardinality(S \cup {h}) = Cardinality(S) + 1
         /\ h \in S => /\ Cardinality(S \ {h}) = Cardinality(S) - 1
                       /\ Cardinality(S) > 0
                       /\ Cardinality(S) = 1 <=> S = {h}
<1>1. Cardinality(S) \in Nat /\ (Cardinality(S) = 0 <=> S = {})
  BY FS_CardinalityType, FS_EmptySet
<1>2. h \notin S => Cardinality(S \cup {h}) = Cardinality(S) + 1
  BY FS_AddElement
<1>3. h \in S => Cardinality(S \ {h}) = Cardinality(S) - 1
  BY FS_RemoveElement
<1>4. h \in S => (Cardinality(S) = 1 <=> S = {h})
  BY FS_Singleton
<1>. QED BY <1>1, <1>2, <1>3, <1>4

\* The same facts for the count and the holders of an object.
LEMMA CountFacts ==
  ASSUME IInv, NEW o \in Object, NEW h
  PROVE  /\ IsFiniteSet(refs[o])
         /\ count[o] \in Nat /\ count[o] = Cardinality(refs[o])
         /\ count[o] > 0 <=> refs[o] # {}
         /\ h \notin refs[o] => Cardinality(refs[o] \cup {h}) = count[o] + 1
         /\ h \in refs[o] => /\ Cardinality(refs[o] \ {h}) = count[o] - 1
                             /\ count[o] > 0
                             /\ count[o] = 1 <=> refs[o] = {h}
<1>1. IsFiniteSet(Holder)
  BY FiniteKinds, FS_Union, Zenon DEF Holder
<1>2. IsFiniteSet(refs[o])
  BY <1>1, FS_Subset DEF IInv, TypeOK
<1>3. count[o] \in Nat /\ count[o] = Cardinality(refs[o])
  BY DEF IInv, TypeOK, CountIsExact
<1>4. DEFINE S == refs[o]
<1>5. /\ Cardinality(S) = 0 <=> S = {}
      /\ h \notin S => Cardinality(S \cup {h}) = Cardinality(S) + 1
      /\ h \in S => /\ Cardinality(S \ {h}) = Cardinality(S) - 1
                    /\ Cardinality(S) > 0
                    /\ Cardinality(S) = 1 <=> S = {h}
  <2>1. IsFiniteSet(S)
    BY <1>2
  <2>. HIDE DEF S
  <2>. QED BY <2>1, SizeFacts, Zenon
<1>. QED BY <1>2, <1>3, <1>5

\* The initial states satisfy the inductive invariant.
LEMMA InitIInv == Init => IInv
<1>. SUFFICES ASSUME Init PROVE IInv
  OBVIOUS
<1>1. TypeOK
  <2>1. queue \in Seq(Object) /\ registry \subseteq Plc
    BY DEF Init
  <2>2. /\ count \in [Object -> Nat] /\ cleanups \in [Object -> Nat]
        /\ phase \in [Object -> Phases] /\ exec \in [Object -> Thread]
        /\ refs \in [Object -> SUBSET Holder]
        /\ plcOf \in [Tag -> Plc \cup {None}]
    BY DEF Init, Phases, Thread
  <2>. QED BY <2>1, <2>2, Zenon DEF Init, TypeOK
<1>2. CountIsExact
  BY FS_EmptySet DEF Init, CountIsExact
<1>3. LiveIsHeld /\ CleanupsByPhase
  BY DEF Init, LiveIsHeld, CleanupsByPhase
<1>4. TagsHoldTheirPlc
  BY KindsDisjoint DEF Init, TagsHoldTheirPlc, Object
<1>5. RegisteredIsAllocated /\ QueueIsSound
  BY DEF Init, RegisteredIsAllocated, QueueIsSound
<1>. QED BY <1>1, <1>2, <1>3, <1>4, <1>5 DEF IInv

-----------------------------------------------------------------------------
\* An object that is being destroyed moves on to a later phase: who holds what
\* does not change.
LEMMA PhaseStep ==
  ASSUME IInv, NEW o \in Object, NEW q \in Phases,
         phase' = [phase EXCEPT ![o] = q],
         phase[o] \notin {"none", "live"}, q \notin {"none", "live"},
         phase[o] \in {"freeing", "freed"} <=> q \in {"freeing", "freed"},
         UNCHANGED <<count, refs, plcOf>>
  PROVE  CountIsExact' /\ LiveIsHeld' /\ TagsHoldTheirPlc'
<1>1. phase \in [Object -> Phases]
  BY DEF IInv, TypeOK
<1>2. CountIsExact'
  BY DEF IInv, CountIsExact
<1>3. LiveIsHeld'
  BY <1>1 DEF IInv, LiveIsHeld
<1>4. TagsHoldTheirPlc'
  BY <1>1 DEF IInv, TagsHoldTheirPlc, Object
<1>. QED BY <1>2, <1>3, <1>4

\* The destruction of an object keeps the invariant: rc_dec's decision where to
\* destroy it, its two ways to do so, and the parts of refcount_cleanup that
\* change no count.
LEMMA CleanupKeepsIInv ==
  ASSUME IInv, NEW o \in Object,
         Decide(o) \/ Enqueue(o) \/ EnqueueFails(o) \/ Unregister(o) \/ mem_free(o)
  PROVE  IInv'
<1>. USE DEF Phases
<1>1. phase \in [Object -> Phases] /\ queue \in Seq(Object)
  BY DEF IInv, TypeOK
<1>2. CASE Decide(o)
  <2>1. TypeOK'
    BY <1>2, <1>1 DEF IInv, TypeOK, Decide
  <2>2. CountIsExact' /\ LiveIsHeld' /\ TagsHoldTheirPlc'
    BY <1>2, PhaseStep, Zenon DEF Decide
  <2>3. RegisteredIsAllocated' /\ QueueIsSound' /\ CleanupsByPhase'
    BY <1>2, <1>1 DEF IInv, Decide, RegisteredIsAllocated, QueueIsSound,
                      CleanupsByPhase
  <2>. QED BY <2>1, <2>2, <2>3 DEF IInv
<1>3. CASE Enqueue(o)
  <2>1. TypeOK'
    BY <1>3, <1>1 DEF IInv, TypeOK, Enqueue
  <2>2. CountIsExact' /\ LiveIsHeld' /\ TagsHoldTheirPlc'
    BY <1>3, PhaseStep, Zenon DEF Enqueue
  <2>3. RegisteredIsAllocated' /\ CleanupsByPhase'
    BY <1>3, <1>1 DEF IInv, Enqueue, RegisteredIsAllocated, CleanupsByPhase
  <2>4. QueueIsSound'
    BY <1>3, <1>1 DEF IInv, Enqueue, QueueIsSound
  <2>. QED BY <2>1, <2>2, <2>3, <2>4 DEF IInv
<1>4. CASE EnqueueFails(o)
  <2>1. TypeOK'
    BY <1>4, <1>1 DEF IInv, TypeOK, EnqueueFails
  <2>2. CountIsExact' /\ LiveIsHeld' /\ TagsHoldTheirPlc'
    BY <1>4, PhaseStep, Zenon DEF EnqueueFails
  <2>3. RegisteredIsAllocated' /\ QueueIsSound' /\ CleanupsByPhase'
    BY <1>4, <1>1 DEF IInv, EnqueueFails, RegisteredIsAllocated, QueueIsSound,
                      CleanupsByPhase
  <2>. QED BY <2>1, <2>2, <2>3 DEF IInv
<1>5. CASE Unregister(o)
  <2>1. TypeOK'
    BY <1>5, <1>1 DEF IInv, TypeOK, Unregister
  <2>2. CountIsExact' /\ LiveIsHeld' /\ TagsHoldTheirPlc'
    BY <1>5, PhaseStep, Zenon DEF Unregister
  <2>3. RegisteredIsAllocated' /\ QueueIsSound'
    BY <1>5, <1>1 DEF IInv, Unregister, RegisteredIsAllocated, QueueIsSound
  <2>4. CleanupsByPhase'
    BY <1>5, <1>1 DEF IInv, TypeOK, Unregister, CleanupsByPhase
  <2>. QED BY <2>1, <2>2, <2>3, <2>4 DEF IInv
<1>6. CASE mem_free(o)
  <2>1. TypeOK'
    BY <1>6, <1>1 DEF IInv, TypeOK, mem_free
  <2>2. CountIsExact' /\ LiveIsHeld' /\ TagsHoldTheirPlc'
    BY <1>6, PhaseStep, Zenon DEF mem_free
  <2>3. RegisteredIsAllocated' /\ QueueIsSound' /\ CleanupsByPhase'
    BY <1>6, <1>1 DEF IInv, mem_free, RegisteredIsAllocated, QueueIsSound,
                      CleanupsByPhase
  <2>. QED BY <2>1, <2>2, <2>3 DEF IInv
<1>. QED BY <1>2, <1>3, <1>4, <1>5, <1>6

\* A thread takes the oldest entry of cleanup_queue.
LEMMA TakeHeadKeepsIInv ==
  ASSUME IInv, NEW t \in Thread, TakeHead(t)
  PROVE  IInv' /\ phase[Head(queue)] = "queued"
<1>. USE DEF Phases
<1>. DEFINE o == Head(queue)
<1>1. /\ phase \in [Object -> Phases] /\ queue \in Seq(Object)
      /\ queue # << >> /\ o \in Object /\ o = queue[1] /\ 1 \in DOMAIN queue
      /\ queue' = Tail(queue) /\ queue' \in Seq(Object)
  BY DEF IInv, TypeOK, TakeHead
<1>2. phase[o] = "queued"
  BY <1>1 DEF IInv, QueueIsSound
<1>3. TypeOK'
  BY <1>1 DEF IInv, TypeOK, TakeHead
<1>4. CountIsExact' /\ LiveIsHeld' /\ TagsHoldTheirPlc'
  BY <1>1, <1>2, PhaseStep, Zenon DEF TakeHead
<1>5. RegisteredIsAllocated' /\ CleanupsByPhase'
  BY <1>1, <1>2 DEF IInv, TakeHead, RegisteredIsAllocated, CleanupsByPhase
<1>6. QueueIsSound'
  <2>1. \A i \in DOMAIN queue' : i + 1 \in DOMAIN queue /\ queue'[i] = queue[i + 1]
    BY <1>1
  <2>2. \A i \in DOMAIN queue' : queue'[i] # o
    BY <2>1, <1>1 DEF IInv, QueueIsSound
  <2>. QED BY <2>1, <2>2, <1>1 DEF IInv, QueueIsSound, TakeHead
<1>. QED BY <1>2, <1>3, <1>4, <1>5, <1>6 DEF IInv

-----------------------------------------------------------------------------
\* rc_alloc: the first reference belongs to the caller.
LEMMA AllocKeepsIInv ==
  ASSUME IInv, NEW c \in Client, NEW o \in Object, rc_alloc(c, o)
  PROVE  IInv'
<1>. USE DEF Phases
<1>1. /\ phase \in [Object -> Phases] /\ refs \in [Object -> SUBSET Holder]
      /\ count \in [Object -> Nat] /\ refs[o] = {}
  BY Zenon DEF IInv, TypeOK, LiveIsHeld, rc_alloc
<1>2. TypeOK'
  BY <1>1 DEF IInv, TypeOK, rc_alloc, Holder
<1>3. CountIsExact'
  <2>1. Cardinality({c}) = 1
    BY FS_Singleton, Zenon
  <2>. QED BY <1>1, <2>1, Zenon DEF IInv, CountIsExact, rc_alloc
<1>4. LiveIsHeld'
  BY <1>1 DEF IInv, LiveIsHeld, rc_alloc
<1>5. TagsHoldTheirPlc'
  BY <1>1, KindsDisjoint DEF IInv, TagsHoldTheirPlc, rc_alloc, Object
<1>6. RegisteredIsAllocated' /\ QueueIsSound' /\ CleanupsByPhase'
  BY <1>1 DEF IInv, RegisteredIsAllocated, QueueIsSound, CleanupsByPhase, rc_alloc
<1>. QED BY <1>2, <1>3, <1>4, <1>5, <1>6 DEF IInv

\* rc_inc by a client, through a reference it holds or through a weak pointer.
LEMMA IncKeepsIInv ==
  ASSUME IInv, NEW c \in Client, NEW o \in Object, c \notin refs[o], rc_inc(o, c),
         UNCHANGED <<phase, exec, plcOf, registry, queue, running, cleaner, lib,
                     admin, fallback, cleanups>>
  PROVE  IInv'
<1>1. /\ refs \in [Object -> SUBSET Holder] /\ count \in [Object -> Nat]
      /\ count[o] > 0 <=> refs[o] # {}
      /\ Cardinality(refs[o] \cup {c}) = count[o] + 1
  BY CountFacts, Zenon DEF IInv, TypeOK
<1>2. TypeOK'
  <2>1. count' \in [Object -> Nat] /\ refs' \in [Object -> SUBSET Holder]
    BY <1>1 DEF rc_inc, Holder
  <2>. QED BY <2>1 DEF IInv, TypeOK
<1>3. CountIsExact'
  BY <1>1, Zenon DEF IInv, CountIsExact, rc_inc
<1>4. LiveIsHeld'
  BY <1>1 DEF IInv, LiveIsHeld, rc_inc
<1>5. TagsHoldTheirPlc'
  BY <1>1, KindsDisjoint DEF IInv, TagsHoldTheirPlc, rc_inc, Object
<1>6. RegisteredIsAllocated' /\ QueueIsSound' /\ CleanupsByPhase'
  BY DEF IInv, RegisteredIsAllocated, QueueIsSound, CleanupsByPhase
<1>. QED BY <1>2, <1>3, <1>4, <1>5, <1>6 DEF IInv

\* tag->plc = plc: a reference changes hands, the count stays.
LEMMA AttachKeepsIInv ==
  ASSUME IInv, NEW c \in Client, NEW t \in Tag, NEW p \in Plc, Attach(c, t, p)
  PROVE  IInv' /\ phase[p] = "live"
<1>1. /\ refs \in [Object -> SUBSET Holder] /\ t \in Object /\ p \in Object
      /\ plcOf \in [Tag -> Plc \cup {None}]
      /\ c \in refs[t] /\ c \in refs[p] /\ t # c /\ None # p
  BY KindsDisjoint DEF IInv, TypeOK, Attach, Object
<1>2. t \notin refs[p]
  BY <1>1 DEF IInv, TagsHoldTheirPlc, Attach
<1>3. phase[t] = "live" /\ phase[p] = "live"
  BY <1>1 DEF IInv, LiveIsHeld
<1>4. TypeOK'
  BY <1>1 DEF IInv, TypeOK, Attach, Holder
<1>5. CountIsExact'
  <2>. DEFINE S == refs[p]
  <2>1. IsFiniteSet(S) /\ count[p] = Cardinality(S) /\ count[p] \in Nat
    BY <1>1, CountFacts, Zenon
  <2>2. Cardinality((S \ {c}) \cup {t}) = count[p]
    <3>. DEFINE R == S \ {c}
    <3>1. IsFiniteSet(R) /\ Cardinality(R) = count[p] - 1
      BY <2>1, <1>1, FS_RemoveElement
    <3>2. t \notin R
      BY <1>2
    <3>. HIDE DEF R
    <3>3. Cardinality(R \cup {t}) = Cardinality(R) + 1
      BY <3>1, <3>2, FS_AddElement, Zenon
    <3>4. Cardinality(R \cup {t}) = count[p]
      BY <3>1, <3>3, <2>1
    <3>. QED BY <3>4 DEF R
  <2>. QED BY <2>2, <1>1 DEF IInv, CountIsExact, Attach
<1>6. LiveIsHeld'
  BY <1>1, <1>3 DEF IInv, LiveIsHeld, Attach
<1>7. TagsHoldTheirPlc'
  BY <1>1, <1>2, <1>3, KindsDisjoint DEF IInv, TagsHoldTheirPlc, Attach, Object
<1>8. RegisteredIsAllocated' /\ QueueIsSound' /\ CleanupsByPhase'
  BY DEF IInv, RegisteredIsAllocated, QueueIsSound, CleanupsByPhase, Attach
<1>. QED BY <1>3, <1>4, <1>5, <1>6, <1>7, <1>8 DEF IInv

\* rc_dec by a client.
LEMMA DropKeepsIInv ==
  ASSUME IInv, NEW c \in Client, NEW o \in Object, Drop(c, o)
  PROVE  IInv'
<1>. USE DEF Phases
<1>1. /\ phase \in [Object -> Phases] /\ refs \in [Object -> SUBSET Holder]
      /\ count \in [Object -> Nat] /\ exec \in [Object -> Thread]
      /\ c \in refs[o] /\ c \in Thread
  BY DEF IInv, TypeOK, Drop, Thread
<1>2. /\ Cardinality(refs[o] \ {c}) = count[o] - 1
      /\ count[o] > 0
      /\ count[o] = 1 <=> refs[o] = {c}
  BY <1>1, CountFacts, Zenon
<1>3. phase[o] = "live"
  BY <1>1 DEF IInv, LiveIsHeld
<1>4. /\ count' = [count EXCEPT ![o] = @ - 1]
      /\ refs' = [refs EXCEPT ![o] = @ \ {c}]
      /\ phase' = IF count[o] = 1 THEN [phase EXCEPT ![o] = "dead"] ELSE phase
      /\ exec' = IF count[o] = 1 THEN [exec EXCEPT ![o] = c] ELSE exec
      /\ UNCHANGED <<plcOf, registry, queue, running, cleaner, lib, admin,
                     fallback, cleanups>>
  BY <1>2 DEF Drop, rc_dec
<1>5. TypeOK'
  BY <1>1, <1>2, <1>4 DEF IInv, TypeOK
<1>6. CountIsExact'
  BY <1>1, <1>2, <1>4 DEF IInv, CountIsExact
<1>7. LiveIsHeld'
  BY <1>1, <1>2, <1>4 DEF IInv, LiveIsHeld
<1>8. TagsHoldTheirPlc'
  BY <1>1, <1>3, <1>4, KindsDisjoint DEF IInv, TagsHoldTheirPlc, Object
<1>9. RegisteredIsAllocated' /\ QueueIsSound' /\ CleanupsByPhase'
  BY <1>1, <1>3, <1>4 DEF IInv, TypeOK, RegisteredIsAllocated, QueueIsSound,
                          CleanupsByPhase
<1>. QED BY <1>5, <1>6, <1>7, <1>8, <1>9 DEF IInv

\* A destructor lets go of what its object holds: a nested rc_dec of the PLC.
LEMMA ReleaseKeepsIInv ==
  ASSUME IInv, NEW o \in Object, Release(o)
  PROVE  IInv'
<1>. USE DEF Phases
<1>1. /\ phase \in [Object -> Phases] /\ refs \in [Object -> SUBSET Holder]
      /\ count \in [Object -> Nat] /\ exec \in [Object -> Thread]
      /\ phase[o] = "releasing" /\ refs[o] = {}
  BY Zenon DEF IInv, TypeOK, LiveIsHeld, Release
<1>2. CASE o \in Tag /\ plcOf[o] # None
  <2>. DEFINE p == plcOf[o]
  <2>1. p \in Plc /\ p \in Object /\ p # o
    BY <1>2, KindsDisjoint DEF IInv, TypeOK, Object
  <2>2. o \in refs[p]
    BY <1>1, <1>2, <2>1 DEF IInv, TagsHoldTheirPlc
  <2>3. /\ Cardinality(refs[p] \ {o}) = count[p] - 1
        /\ count[p] > 0
        /\ count[p] = 1 <=> refs[p] = {o}
    BY <2>1, <2>2, CountFacts, Zenon
  <2>4. phase[p] = "live"
    BY <2>1, <2>2 DEF IInv, LiveIsHeld
  <2>5. /\ count' = [count EXCEPT ![p] = @ - 1]
        /\ refs' = [refs EXCEPT ![p] = @ \ {o}]
        /\ phase' = IF count[p] = 1
                      THEN [[phase EXCEPT ![o] = "freeing"] EXCEPT ![p] = "dead"]
                      ELSE [phase EXCEPT ![o] = "freeing"]
        /\ exec' = IF count[p] = 1 THEN [exec EXCEPT ![p] = exec[o]] ELSE exec
        /\ UNCHANGED <<plcOf, registry, queue, running, cleaner, lib, admin,
                       fallback, cleanups>>
    BY <1>2, <2>3 DEF Release, rc_dec
  <2>6. TypeOK'
    <3>1. /\ count' \in [Object -> Nat] /\ refs' \in [Object -> SUBSET Holder]
          /\ exec' \in [Object -> Thread]
      BY <1>1, <2>1, <2>3, <2>5
    <3>2. phase' \in [Object -> Phases]
      BY <1>1, <2>5, Zenon
    <3>. QED BY <3>1, <3>2, <2>5, Zenon DEF IInv, TypeOK
  <2>7. CountIsExact'
    BY <1>1, <2>1, <2>3, <2>5 DEF IInv, CountIsExact
  <2>8. LiveIsHeld'
    BY <1>1, <2>1, <2>3, <2>5 DEF IInv, LiveIsHeld
  <2>9. TagsHoldTheirPlc'
    BY <1>1, <1>2, <2>1, <2>3, <2>5, KindsDisjoint
       DEF IInv, TagsHoldTheirPlc, Object
  <2>10. RegisteredIsAllocated'
    BY <1>1, <2>1, <2>4, <2>5 DEF IInv, TypeOK, RegisteredIsAllocated, Object
  <2>11. QueueIsSound'
    BY <1>1, <2>1, <2>4, <2>5 DEF IInv, TypeOK, QueueIsSound
  <2>12. CleanupsByPhase'
    BY <1>1, <2>1, <2>4, <2>5 DEF IInv, CleanupsByPhase
  <2>. QED BY <2>6, <2>7, <2>8, <2>9, <2>10, <2>11, <2>12 DEF IInv
<1>3. CASE ~ (o \in Tag /\ plcOf[o] # None)
  <2>1. /\ phase' = [phase EXCEPT ![o] = "freeing"]
        /\ UNCHANGED <<count, refs, exec, plcOf, registry, queue, running,
                       cleaner, lib, admin, fallback, cleanups>>
    BY <1>3 DEF Release
  <2>2. TypeOK'
    BY <1>1, <2>1 DEF IInv, TypeOK
  <2>3. CountIsExact' /\ LiveIsHeld'
    BY <1>1, <2>1 DEF IInv, CountIsExact, LiveIsHeld
  <2>4. TagsHoldTheirPlc'
    BY <1>1, <1>3, <2>1, KindsDisjoint DEF IInv, TagsHoldTheirPlc, Object
  <2>5. RegisteredIsAllocated' /\ QueueIsSound' /\ CleanupsByPhase'
    BY <1>1, <2>1
       DEF IInv, TypeOK, RegisteredIsAllocated, QueueIsSound, CleanupsByPhase
  <2>. QED BY <2>2, <2>3, <2>4, <2>5 DEF IInv
<1>. QED BY <1>2, <1>3

\* The cleanup thread's loop, startup and teardown touch no object.
LEMMA ControlKeepsIInv ==
  ASSUME IInv,
         \/ CleanerTests \/ CleanerWakes \/ CleanerLoops \/ refcount_startup
         \/ (\E c \in Client : TeardownStops(c)) \/ TeardownJoins \/ TeardownEnds
  PROVE  IInv'
<1>. USE DEF CleanerTests, CleanerWakes, CleanerLoops, refcount_startup,
             TeardownStops, TeardownJoins, TeardownEnds
<1>1. TypeOK'
  BY Zenon DEF IInv, TypeOK
<1>2. UNCHANGED <<count, phase, refs, plcOf, registry, queue, cleanups>>
  OBVIOUS
<1>3. CountIsExact' /\ LiveIsHeld' /\ TagsHoldTheirPlc'
  BY <1>2 DEF IInv, CountIsExact, LiveIsHeld, TagsHoldTheirPlc
<1>4. RegisteredIsAllocated' /\ QueueIsSound' /\ CleanupsByPhase'
  BY <1>2 DEF IInv, RegisteredIsAllocated, QueueIsSound, CleanupsByPhase
<1>. QED BY <1>1, <1>3, <1>4 DEF IInv

-----------------------------------------------------------------------------
\* Every step of every thread keeps the inductive invariant.
LEMMA NextIInv == IInv /\ [Next]_vars => IInv'
<1>. SUFFICES ASSUME IInv, [Next]_vars PROVE IInv'
  OBVIOUS
<1>1. CASE ClientCall
  <2>1. PICK c \in Client, o \in Object :
          \/ rc_alloc(c, o) \/ Register(c, o) \/ Find(c, o) \/ Drop(c, o)
          \/ \E d \in Client : Share(c, d, o)
          \/ o \in Plc /\ \E t \in Tag : Attach(c, t, o)
    BY <1>1 DEF ClientCall
  <2>2. CASE rc_alloc(c, o)
    BY <2>2, AllocKeepsIInv
  <2>3. CASE Register(c, o)
    <3>1. phase[o] = "live"
      BY <2>3 DEF IInv, LiveIsHeld, Register
    <3>2. TypeOK' /\ RegisteredIsAllocated'
      BY <2>3, <3>1 DEF IInv, TypeOK, RegisteredIsAllocated, Register
    <3>3. CountIsExact' /\ LiveIsHeld' /\ TagsHoldTheirPlc'
      BY <2>3 DEF IInv, CountIsExact, LiveIsHeld, TagsHoldTheirPlc, Register
    <3>4. QueueIsSound' /\ CleanupsByPhase'
      BY <2>3 DEF IInv, QueueIsSound, CleanupsByPhase, Register
    <3>. QED BY <3>2, <3>3, <3>4 DEF IInv
  <2>4. CASE Find(c, o)
    BY <2>4, IncKeepsIInv DEF Find
  <2>5. CASE Drop(c, o)
    BY <2>5, DropKeepsIInv
  <2>6. ASSUME NEW d \in Client, Share(c, d, o) PROVE IInv'
    BY <2>6, IncKeepsIInv DEF Share
  <2>7. ASSUME o \in Plc, NEW t \in Tag, Attach(c, t, o) PROVE IInv'
    BY <2>7, AttachKeepsIInv
  <2>. QED BY <2>1, <2>2, <2>3, <2>4, <2>5, <2>6, <2>7
<1>2. ASSUME NEW o \in Object, Cleanup(o) PROVE IInv'
  BY <1>2, CleanupKeepsIInv, ReleaseKeepsIInv DEF Cleanup
<1>3. CASE CleanerTakes
  BY <1>3, TakeHeadKeepsIInv DEF CleanerTakes, Thread
<1>4. CASE TeardownTakes
  <2>1. admin \in Thread
    BY <1>4 DEF IInv, TypeOK, Thread, TeardownTakes
  <2>. QED BY <1>4, <2>1, TakeHeadKeepsIInv DEF TeardownTakes
<1>5. CASE UNCHANGED vars
  <2>1. TypeOK' /\ QueueIsSound' /\ CleanupsByPhase'
    BY <1>5 DEF IInv, TypeOK, QueueIsSound, CleanupsByPhase, vars
  <2>2. CountIsExact' /\ LiveIsHeld' /\ TagsHoldTheirPlc' /\ RegisteredIsAllocated'
    BY <1>5 DEF IInv, CountIsExact, LiveIsHeld, TagsHoldTheirPlc,
                RegisteredIsAllocated, vars
  <2>. QED BY <2>1, <2>2 DEF IInv
<1>. QED BY <1>1, <1>2, <1>3, <1>4, <1>5, ControlKeepsIInv
     DEF Next, CleanerStep, Teardown

-----------------------------------------------------------------------------
life == [o \in Object |-> LifeOf(phase[o])]

\* LifeOf on each phase.
LEMMA LifeFacts ==
  /\ LifeOf("none") = "none"
  /\ LifeOf("live") = "alive"
  /\ \A q \in {"dead", "queueing", "queued", "cleaning"} : LifeOf(q) = "doomed"
  /\ \A q \in {"releasing", "freeing", "freed"} : LifeOf(q) = "destroyed"
BY DEF LifeOf

\* A change of one object's phase changes that object's life.
LEMMA LifeStep ==
  ASSUME TypeOK, NEW o \in Object, NEW q, phase' = [phase EXCEPT ![o] = q]
  PROVE  life' = [life EXCEPT ![o] = LifeOf(q)]
BY Zenon DEF TypeOK, life

\* What a client does is a step of the contract: a reference is created, taken,
\* passed on or given up.
LEMMA CallStep ==
  ASSUME IInv, ClientCall
  PROVE  Contract!Next \/ UNCHANGED <<life, refs>>
<1>. USE DEF life
<1>1. PICK c \in Client, o \in Object :
        \/ rc_alloc(c, o) \/ Register(c, o) \/ Find(c, o) \/ Drop(c, o)
        \/ \E d \in Client : Share(c, d, o)
        \/ o \in Plc /\ \E t \in Tag : Attach(c, t, o)
  BY DEF ClientCall
<1>2. TypeOK /\ c \in Holder /\ Client \subseteq Holder /\ Tag \subseteq Holder
  BY DEF IInv, Holder
<1>3. CASE rc_alloc(c, o)
  <2>1. Contract!Create(o, c)
    <3>1. phase' = [phase EXCEPT ![o] = "live"]
      BY <1>3 DEF rc_alloc
    <3>2. life' = [life EXCEPT ![o] = LifeOf("live")]
      BY <1>2, <3>1, LifeStep, Zenon
    <3>. QED BY <1>3, <3>2, LifeFacts, Zenon DEF rc_alloc, Contract!Create
  <2>. QED BY <2>1, <1>2 DEF Contract!Next
<1>4. CASE Register(c, o)
  BY <1>4 DEF Register
<1>5. ASSUME NEW d \in Client, rc_inc(o, d), UNCHANGED phase
      PROVE  Contract!Next \/ UNCHANGED <<life, refs>>
  <2>1. CASE count[o] > 0
    <3>1. refs[o] # {} /\ phase[o] = "live"
      BY <2>1, CountFacts, Zenon DEF IInv, LiveIsHeld
    <3>2. Contract!Acquire(o, d)
      BY <1>5, <2>1, <3>1, LifeFacts DEF rc_inc, Contract!Acquire
    <3>. QED BY <3>2, <1>2 DEF Contract!Next
  <2>2. CASE ~ (count[o] > 0)
    BY <1>5, <2>2 DEF rc_inc
  <2>. QED BY <2>1, <2>2
<1>6. CASE Find(c, o)
  BY <1>5, <1>6 DEF Find
<1>7. CASE Drop(c, o)
  <2>1. c \in refs[o] /\ phase[o] = "live"
    BY <1>7 DEF IInv, LiveIsHeld, Drop
  <2>2. count[o] > 0 /\ (count[o] = 1 <=> refs[o] = {c})
    BY <2>1, CountFacts, Zenon
  <2>3. life' = [life EXCEPT ![o] = IF refs[o] = {c} THEN "doomed" ELSE @]
    <3>1. CASE refs[o] = {c}
      BY <1>2, <1>7, <2>2, <3>1, LifeStep, LifeFacts DEF Drop, rc_dec
    <3>2. CASE refs[o] # {c}
      BY <1>7, <2>2, <3>2 DEF Drop, rc_dec
    <3>. QED BY <3>1, <3>2
  <2>4. Contract!GiveUp(o, c)
    BY <1>7, <2>1, <2>2, <2>3, LifeFacts DEF Drop, rc_dec, Contract!GiveUp
  <2>. QED BY <2>4, <1>2 DEF Contract!Next
<1>8. ASSUME NEW d \in Client, Share(c, d, o)
      PROVE  Contract!Next \/ UNCHANGED <<life, refs>>
  BY <1>5, <1>8 DEF Share
<1>9. ASSUME o \in Plc, NEW t \in Tag, Attach(c, t, o)
      PROVE  Contract!Next
  <2>1. phase[o] = "live" /\ c \in refs[o]
    BY <1>9, AttachKeepsIInv, Zenon DEF Attach
  <2>2. Contract!PassOn(o, c, t)
    BY <1>9, <2>1, LifeFacts DEF Attach, Contract!PassOn
  <2>. QED BY <2>2, <1>2 DEF Contract!Next
<1>. QED BY <1>1, <1>3, <1>4, <1>6, <1>7, <1>8, <1>9, Zenon

\* What happens to an object after its last rc_dec: its destructor is the
\* contract's Destroy, a nested rc_dec gives up a reference.
LEMMA CleanupStep ==
  ASSUME IInv, NEW o \in Object, Cleanup(o)
  PROVE  Contract!Next \/ UNCHANGED <<life, refs>>
<1>. USE DEF life
<1>1. TypeOK /\ Tag \subseteq Holder
  BY DEF IInv, Holder
<1>2. ASSUME NEW q, phase' = [phase EXCEPT ![o] = q], UNCHANGED refs,
             LifeOf(q) = LifeOf(phase[o])
      PROVE  UNCHANGED <<life, refs>>
  <2>1. life' = [life EXCEPT ![o] = LifeOf(q)]
    BY <1>1, <1>2, LifeStep
  <2>. QED BY <1>2, <2>1
<1>3. CASE Decide(o)
  <2>1. PICK q \in {"queueing", "cleaning"} : phase' = [phase EXCEPT ![o] = q]
    BY <1>3, Zenon DEF Decide
  <2>. QED BY <1>2, <1>3, <2>1, LifeFacts DEF Decide
<1>4. CASE Enqueue(o)
  BY <1>2, <1>4, LifeFacts DEF Enqueue
<1>5. CASE EnqueueFails(o)
  BY <1>2, <1>5, LifeFacts DEF EnqueueFails
<1>6. CASE mem_free(o)
  BY <1>2, <1>6, LifeFacts DEF mem_free
<1>7. CASE Unregister(o)
  <2>1. refs[o] = {} /\ phase[o] = "cleaning"
    BY <1>7 DEF IInv, LiveIsHeld, Unregister
  <2>2. phase' = [phase EXCEPT ![o] = "releasing"] /\ UNCHANGED refs
    BY <1>7 DEF Unregister
  <2>3. life' = [life EXCEPT ![o] = LifeOf("releasing")]
    BY <1>1, <2>2, LifeStep, Zenon
  <2>4. Contract!Destroy(o)
    BY <2>1, <2>2, <2>3, LifeFacts, Zenon DEF Contract!Destroy
  <2>. QED BY <2>4 DEF Contract!Next
<1>8. CASE Release(o)
  <2>1. phase[o] = "releasing" /\ phase \in [Object -> Phases]
    BY <1>8, <1>1 DEF Release, TypeOK
  <2>2. CASE o \in Tag /\ plcOf[o] # None
    <3>. DEFINE p == plcOf[o]
    <3>1. p \in Plc /\ p \in Object /\ p # o
      BY <1>1, <2>2, KindsDisjoint DEF TypeOK, Object
    <3>2. o \in refs[p]
      BY <2>1, <2>2, <3>1 DEF IInv, TagsHoldTheirPlc
    <3>3. phase[p] = "live"
      BY <3>1, <3>2 DEF IInv, LiveIsHeld
    <3>4. count[p] > 0 /\ (count[p] = 1 <=> refs[p] = {o})
      BY <3>1, <3>2, CountFacts, Zenon
    <3>5. /\ refs' = [refs EXCEPT ![p] = @ \ {o}]
          /\ phase' = IF refs[p] = {o}
                        THEN [[phase EXCEPT ![o] = "freeing"] EXCEPT ![p] = "dead"]
                        ELSE [phase EXCEPT ![o] = "freeing"]
      BY <1>8, <2>2, <3>4 DEF Release, rc_dec
    <3>6. life' = [life EXCEPT ![p] = IF refs[p] = {o} THEN "doomed" ELSE @]
      BY <2>1, <3>1, <3>5, LifeFacts
    <3>7. Contract!GiveUp(p, o)
      BY <3>1, <3>2, <3>3, <3>5, <3>6, LifeFacts DEF Contract!GiveUp
    <3>. QED BY <2>2, <3>1, <3>7, <1>1 DEF Contract!Next
  <2>3. CASE ~ (o \in Tag /\ plcOf[o] # None)
    BY <1>2, <1>8, <2>1, <2>3, LifeFacts DEF Release
  <2>. QED BY <2>2, <2>3
<1>. QED BY <1>3, <1>4, <1>5, <1>6, <1>7, <1>8 DEF Cleanup

\* Every step of every thread is one of the contract, or hidden from it.
LEMMA StepImplements ==
  IInv /\ [Next]_vars => [Contract!Next]_(Contract!vars)
<1>. SUFFICES ASSUME IInv, [Next]_vars
              PROVE  Contract!Next \/ UNCHANGED <<life, refs>>
  BY DEF Contract!vars, life
<1>1. CASE ClientCall
  BY <1>1, CallStep
<1>2. ASSUME NEW o \in Object, Cleanup(o)
      PROVE  Contract!Next \/ UNCHANGED <<life, refs>>
  BY <1>2, CleanupStep
<1>3. ASSUME NEW t \in Thread, TakeHead(t) PROVE UNCHANGED <<life, refs>>
  <2>1. phase[Head(queue)] = "queued" /\ Head(queue) \in Object /\ TypeOK
    <3>1. phase[Head(queue)] = "queued"
      BY <1>3, TakeHeadKeepsIInv
    <3>2. TypeOK /\ queue \in Seq(Object) /\ queue # << >>
      BY <1>3 DEF IInv, TypeOK, TakeHead
    <3>. QED BY <3>1, <3>2
  <2>2. phase' = [phase EXCEPT ![Head(queue)] = "cleaning"] /\ UNCHANGED refs
    BY <1>3 DEF TakeHead
  <2>3. life' = [life EXCEPT ![Head(queue)] = LifeOf("cleaning")]
    BY <2>1, <2>2, LifeStep, Zenon
  <2>. QED BY <2>1, <2>2, <2>3, LifeFacts DEF life
<1>4. CASE CleanerTakes
  BY <1>4, <1>3 DEF CleanerTakes, Thread
<1>5. CASE TeardownTakes
  <2>1. admin \in Thread
    BY <1>5 DEF IInv, TypeOK, Thread, TeardownTakes
  <2>. QED BY <1>5, <2>1, <1>3 DEF TeardownTakes
<1>6. CASE \/ CleanerTests \/ CleanerWakes \/ CleanerLoops \/ refcount_startup
           \/ (\E c \in Client : TeardownStops(c)) \/ TeardownJoins \/ TeardownEnds
           \/ UNCHANGED vars
  BY <1>6 DEF CleanerTests, CleanerWakes, CleanerLoops, refcount_startup,
              TeardownStops, TeardownJoins, TeardownEnds, vars, life
<1>. QED BY <1>1, <1>2, <1>4, <1>5, <1>6 DEF Next, CleanerStep, Teardown

-----------------------------------------------------------------------------
\* The inductive invariant holds throughout.
THEOREM Invariance == Spec => []IInv
BY InitIInv, NextIInv, PTL DEF Spec

\* rc.c's state stays well typed: no count goes below zero.
THEOREM TypeCorrect == Spec => []TypeOK
<1>1. IInv => TypeOK
  BY DEF IInv
<1>. QED BY <1>1, Invariance, PTL

\* The count of rc_inc and rc_dec is the number of places that hold a
\* reference, for any number of threads, tags and PLC objects.
THEOREM CountCorrect == Spec => []CountIsExact
<1>1. IInv => CountIsExact
  BY DEF IInv
<1>. QED BY <1>1, Invariance, PTL

\* No strong or weak pointer and no queue entry leads to freed memory.
THEOREM MemorySafe == Spec => []NoUseAfterFree
<1>1. IInv => NoUseAfterFree
  <2>. SUFFICES ASSUME IInv, NEW o \in Object, phase[o] = "freed"
                PROVE  /\ refs[o] = {}
                       /\ o \notin registry
                       /\ \A i \in DOMAIN queue : queue[i] # o
                       /\ \A t \in Tag : plcOf[t] = o => phase[t] \in {"freeing", "freed"}
    BY DEF NoUseAfterFree
  <2>1. refs[o] = {}
    BY DEF IInv, LiveIsHeld
  <2>2. o \notin registry
    BY DEF IInv, RegisteredIsAllocated
  <2>3. \A i \in DOMAIN queue : queue[i] # o
    BY DEF IInv, QueueIsSound
  <2>4. ASSUME NEW t \in Tag, plcOf[t] = o PROVE phase[t] \in {"freeing", "freed"}
    <3>1. o \in Plc
      BY <2>4, KindsDisjoint DEF IInv, TypeOK, Object
    <3>. QED BY <2>1, <2>4, <3>1 DEF IInv, TagsHoldTheirPlc
  <2>. QED BY <2>1, <2>2, <2>3, <2>4
<1>. QED BY <1>1, Invariance, PTL

\* An object in the hands of any place is not being destroyed.
THEOREM HeldCorrect == Spec => []HeldIsLive
<1>1. IInv => HeldIsLive
  BY DEF IInv, LiveIsHeld, HeldIsLive
<1>. QED BY <1>1, Invariance, PTL

\* Destructors run at most once, and before mem_free.
THEOREM CleanupCorrect == Spec => []CleanedOnce
<1>1. IInv => CleanedOnce
  BY DEF IInv, CleanupsByPhase, CleanedOnce
<1>. QED BY <1>1, Invariance, PTL

\* Counts, spin locks, the queue and the cleanup thread implement the contract.
THEOREM Refinement == Spec => ImplementsContract
<1>1. Init => Contract!Init
  BY LifeFacts DEF Init, Contract!Init
<1>. QED BY <1>1, StepImplements, Invariance, PTL DEF Spec, ImplementsContract, Contract!Spec

-----------------------------------------------------------------------------
(***************************************************************************)
(* The requests of a tag (TagOps), for any threads, calls and options.     *)
(***************************************************************************)

\* OneRequest of any tag t, and that the fields it is about are there.
One(t) ==
  /\ "rip" \in DOMAIN t /\ "wip" \in DOMAIN t /\ "req" \in DOMAIN t
  /\ ~ (t.rip /\ t.wip)
  /\ t.req # "none" <=> t.rip \/ t.wip

LEMMA SettledIsOne == ASSUME NEW t, One(t) PROVE One(Settled(t))
BY DEF One, Settled

LEMMA DroppedIsOne ==
  ASSUME NEW t, One(t)
  PROVE  LET u == ab_tag_abort_request_only(t) IN One(u) /\ ~ u.rip /\ ~ u.wip
BY DEF One, ab_tag_abort_request_only

LEMMA AbortRequestIsOne == ASSUME NEW t, One(t) PROVE One(ab_tag_abort_request(t).tag)
BY DroppedIsOne, SettledIsOne DEF ab_tag_abort_request, Result

LEMMA AbortIsOne == ASSUME NEW t, One(t) PROVE One(ab_tag_abort(t).tag)
<1>1. CASE t.req = "none"
  BY <1>1 DEF ab_tag_abort, Result
<1>2. CASE t.req # "none"
  <2> DEFINE u == [ab_tag_abort_request_only(t) EXCEPT !.status = "abort"]
  <2>1. One(u)
    BY DEF One, ab_tag_abort_request_only
  <2>2. ab_tag_abort(t).tag = Settled(u)
    BY <1>2 DEF ab_tag_abort, Result
  <2> QED BY <2>1, <2>2, SettledIsOne
<1> QED BY <1>1, <1>2

LEMMA ReadStartIsOne ==
  ASSUME NEW t, One(t), NEW r \in tag_read_start(t)
  PROVE  One(r.tag)
<1>1. CASE r.tag = t BY <1>1
<1>2. CASE ~ (t.rip \/ t.wip) /\ r.tag = [t EXCEPT !.rip = TRUE, !.req = "sent"]
  BY <1>2 DEF One
<1> QED BY <1>1, <1>2 DEF tag_read_start, Unstarted, Result

LEMMA WriteStartIsOne ==
  ASSUME NEW t, One(t), NEW r \in tag_write_start(t)
  PROVE  One(r.tag)
<1>1. CASE r.tag = t BY <1>1
<1>2. CASE ~ (t.rip \/ t.wip) /\ r.tag = [t EXCEPT !.wip = TRUE, !.req = "sent"]
  BY <1>2 DEF One
<1>3. CASE r \in tag_read_start([t EXCEPT !.pre = TRUE])
  <2>1. One([t EXCEPT !.pre = TRUE]) BY DEF One
  <2> QED BY <1>3, <2>1, ReadStartIsOne
<1> QED BY <1>1, <1>2, <1>3 DEF tag_write_start, Unstarted, Result

LEMMA CheckReadIsOne ==
  ASSUME NEW t, One(t), NEW r \in check_read_status(t)
  PROVE  One(r.tag)
<1> DEFINE u == [ab_tag_abort_request_only(t) EXCEPT !.data = @ \/ t.req # "cip_error"]
<1>1. One(u) BY DEF One, ab_tag_abort_request_only
<1>2. CASE r.tag = u BY <1>1, <1>2
<1>3. CASE r \in tag_write_start([u EXCEPT !.pre = FALSE])
  <2>1. One([u EXCEPT !.pre = FALSE]) BY <1>1 DEF One
  <2> QED BY <1>3, <2>1, WriteStartIsOne
<1>4. CASE r \in tag_read_start(u) BY <1>1, <1>4, ReadStartIsOne
<1>5. CASE r.tag = [u EXCEPT !.got = App] BY <1>1, <1>5 DEF One
<1> QED BY <1>2, <1>3, <1>4, <1>5 DEF check_read_status, Result

LEMMA CheckWriteIsOne ==
  ASSUME NEW t, One(t), NEW r \in check_write_status(t)
  PROVE  One(r.tag)
<1> DEFINE u == ab_tag_abort_request_only(t)
<1>1. One(u) BY DroppedIsOne
<1>2. CASE r.tag = u BY <1>1, <1>2
<1>3. CASE r \in tag_write_start(u) BY <1>1, <1>3, WriteStartIsOne
<1> QED BY <1>2, <1>3 DEF check_write_status, Result

LEMMA CheckRequestIsOne == ASSUME NEW t, One(t) PROVE One(check_request_status(t))
<1>1. CASE check_request_status(t) = t BY <1>1
<1>2. CASE check_request_status(t) = ab_tag_abort(t).tag BY <1>2, AbortIsOne
<1>3. CASE check_request_status(t) = Settled(ab_tag_abort_request_only(t))
  BY <1>3, DroppedIsOne, SettledIsOne
<1>4. CASE check_request_status(t)
             = Settled([ab_tag_abort_request_only(t) EXCEPT !.abortReq = FALSE])
  <2>1. One([ab_tag_abort_request_only(t) EXCEPT !.abortReq = FALSE])
    BY DEF One, ab_tag_abort_request_only
  <2> QED BY <1>4, <2>1, SettledIsOne
<1> QED BY <1>1, <1>2, <1>3, <1>4 DEF check_request_status

LEMMA TicklerIsOne == ASSUME NEW t, One(t), NEW u \in tag_tickler(t) PROVE One(u)
<1>1. CASE u = check_request_status(t) BY <1>1, CheckRequestIsOne
<1>2. ASSUME NEW v, One(v), NEW rc
      PROVE  /\ One(Settled([v EXCEPT !.status = rc]))
             /\ One(Settled([v EXCEPT !.status = rc, !.first = FALSE, !.rcomp = TRUE]))
             /\ One(Settled([v EXCEPT !.status = rc, !.wcomp = TRUE]))
  <2>1. One([v EXCEPT !.status = rc]) BY <1>2 DEF One
  <2>2. One([v EXCEPT !.status = rc, !.first = FALSE, !.rcomp = TRUE])
    BY <1>2 DEF One
  <2>3. One([v EXCEPT !.status = rc, !.wcomp = TRUE]) BY <1>2 DEF One
  <2> QED BY <2>1, <2>2, <2>3, SettledIsOne
<1>3. CASE ~ RequestNotReady(t) /\ t.rip
  <2> DEFINE After(r) == IF r.tag.rip
                          THEN [r.tag EXCEPT !.status = r.rc]
                          ELSE [r.tag EXCEPT !.status = r.rc, !.first = FALSE, !.rcomp = TRUE]
  <2>1. tag_tickler(t) = {Settled(After(r)) : r \in check_read_status(t)}
    BY <1>3, Zenon DEF tag_tickler
  <2>2. PICK r \in check_read_status(t) : u = Settled(After(r)) BY <2>1, Zenon
  <2>3. One(r.tag) BY <2>2, CheckReadIsOne, Zenon
  <2>4. CASE r.tag.rip BY <1>2, <2>2, <2>3, <2>4, Zenon
  <2>5. CASE ~ r.tag.rip BY <1>2, <2>2, <2>3, <2>5, Zenon
  <2> QED BY <2>4, <2>5
<1>4. CASE ~ RequestNotReady(t) /\ ~ t.rip
  <2> DEFINE After(r) == IF r.tag.wip
                          THEN [r.tag EXCEPT !.status = r.rc]
                          ELSE [r.tag EXCEPT !.status = r.rc, !.wcomp = TRUE]
  <2>1. tag_tickler(t) = {Settled(After(r)) : r \in check_write_status(t)}
    BY <1>4, Zenon DEF tag_tickler
  <2>2. PICK r \in check_write_status(t) : u = Settled(After(r)) BY <2>1, Zenon
  <2>3. One(r.tag) BY <2>2, CheckWriteIsOne, Zenon
  <2>4. CASE r.tag.wip BY <1>2, <2>2, <2>3, <2>4, Zenon
  <2>5. CASE ~ r.tag.wip BY <1>2, <2>2, <2>3, <2>5, Zenon
  <2> QED BY <2>4, <2>5
<1>5. CASE RequestNotReady(t) BY <1>1, <1>5, Zenon DEF tag_tickler
<1> QED BY <1>3, <1>4, <1>5

LEMMA AbortBlockIsOne == ASSUME NEW t, One(t) PROVE One(AbortBlock(t).tag)
<1> DEFINE u == [t EXCEPT !.abortReq = FALSE, !.rcomp = t.rif, !.rif = FALSE,
                          !.wcomp = t.wif, !.wif = FALSE]
<1>1. One(u) BY DEF One
<1>2. AbortBlock(t).tag \in {t, ab_tag_abort_request(u).tag} BY DEF AbortBlock, Result
<1> QED BY <1>1, <1>2, AbortRequestIsOne

LEMMA StartedIsOne == ASSUME NEW r, One(r.tag) PROVE One(Started(r))
<1>1. One([r.tag EXCEPT !.status = r.rc]) BY DEF One
<1> QED BY <1>1, SettledIsOne DEF Started

LEMMA AutoReadIsOne ==
  ASSUME NEW t, One(t), NEW due, NEW u \in AutoReadOf(t, due)
  PROVE  One(u)
<1>1. One([t EXCEPT !.rif = TRUE]) BY DEF One
<1>2. AutoReadOf(t, due) = {t}
        \/ AutoReadOf(t, due) = {Started(r) : r \in tag_read_start([t EXCEPT !.rif = TRUE])}
  BY Zenon DEF AutoReadOf
<1>3. CASE u = t BY <1>3
<1>4. ASSUME NEW r \in tag_read_start([t EXCEPT !.rif = TRUE]), u = Started(r)
      PROVE  One(u)
  <2>1. One(r.tag) BY <1>1, <1>4, ReadStartIsOne, Zenon
  <2> QED BY <1>4, <2>1, StartedIsOne, Zenon
<1> QED BY <1>2, <1>3, <1>4, Zenon

LEMMA AutoWriteIsOne ==
  ASSUME NEW t, One(t), NEW due, NEW v \in AutoWriteOf(t, due)
  PROVE  One(v)
<1>0. PICK x : x = ab_tag_abort_request(t).tag /\ One(x) BY AbortRequestIsOne, Zenon
<1>1. PICK u : /\ u = IF t.rif THEN [x EXCEPT !.rcomp = FALSE, !.rif = FALSE] ELSE t
               /\ One(u)
  <2>1. One([x EXCEPT !.rcomp = FALSE, !.rif = FALSE]) BY <1>0, Zenon DEF One
  <2> QED BY <2>1, Zenon
<1>2. PICK w : /\ w = [u EXCEPT !.dirty = FALSE, !.wif = TRUE, !.nextWrite = FALSE,
                                !.want = TRUE]
               /\ One(w)
  <2>1. One([u EXCEPT !.dirty = FALSE, !.wif = TRUE, !.nextWrite = FALSE, !.want = TRUE])
    BY <1>1, Zenon DEF One
  <2> QED BY <2>1, Zenon
<1>3. One([u EXCEPT !.nextWrite = TRUE]) BY <1>1, Zenon DEF One
<1>4. \/ AutoWriteOf(t, due) \in {{t}, {u}, {[u EXCEPT !.nextWrite = TRUE]}}
      \/ AutoWriteOf(t, due) = {Started(r) : r \in tag_write_start(w)}
  <2>1. AutoWriteOf(t, due)
          = IF ~ (AutoWrite /\ t.dirty) THEN {t}
            ELSE IF ~ u.nextWrite THEN {[u EXCEPT !.nextWrite = TRUE]}
            ELSE IF u.wif \/ ~ due THEN {u}
            ELSE {Started(r) : r \in tag_write_start(w)}
    BY <1>0, <1>1, <1>2, Zenon DEF AutoWriteOf
  <2> QED BY <2>1, Zenon
<1>5. CASE v \in {t, u, [u EXCEPT !.nextWrite = TRUE]} BY <1>1, <1>3, <1>5, Zenon
<1>6. ASSUME NEW r \in tag_write_start(w), v = Started(r) PROVE One(v)
  <2>1. One(r.tag) BY <1>2, <1>6, WriteStartIsOne, Zenon
  <2> QED BY <1>6, <2>1, StartedIsOne, Zenon
<1> QED BY <1>4, <1>5, <1>6, Zenon

LEMMA GenericIsOne ==
  ASSUME NEW t, One(t), NEW due, NEW u \in plc_tag_generic_tickler(t, due)
  PROVE  One(u)
<1>1. CASE t.abortReq
  <2>1. PICK x : x = ab_tag_abort_request(t).tag /\ One(x) BY AbortRequestIsOne, Zenon
  <2>2. u = [x EXCEPT !.rcomp = FALSE, !.rif = FALSE, !.wcomp = FALSE, !.wif = FALSE,
                      !.abortReq = FALSE]
    BY <1>1, <2>1, Zenon DEF plc_tag_generic_tickler
  <2> QED BY <2>1, <2>2, Zenon DEF One
<1>2. CASE ~ t.abortReq
  <2>1. PICK v \in AutoWriteOf(t, due) : u \in AutoReadOf(v, due)
    BY <1>2 DEF plc_tag_generic_tickler
  <2> QED BY <2>1, AutoWriteIsOne, AutoReadIsOne
<1> QED BY <1>1, <1>2

-----------------------------------------------------------------------------
LEMMA CallKeepsOne ==
  ASSUME One(tag), NEW a \in App,
         Call(a) \/ Proceed(a) \/ TimedOut(a)
  PROVE  One(tag')
<1>1. CASE UNCHANGED tag BY <1>1 DEF One
<1>2. ASSUME NEW w, plc_tag_read(a, w) PROVE One(tag')
  <2> DEFINE t == [tag EXCEPT !.rif = TRUE, !.status = "pending", !.got = @ \ {a}]
  <2>1. One(t) BY DEF One
  <2>2. PICK r \in tag_read_start(t) :
          \/ tag' = r.tag
          \/ tag' = [AbortBlock([r.tag EXCEPT !.abortReq = TRUE]).tag EXCEPT !.rif = FALSE]
    <3>1. PICK r \in tag_read_start(t) :
            IF r.rc = "pending"
              THEN /\ tag' = r.tag /\ cond' = FALSE
                   /\ Goto(a, IF w THEN "wait" ELSE "idle", "read", "pending")
              ELSE LET x == AbortBlock([r.tag EXCEPT !.abortReq = TRUE]) IN
                   /\ tag' = [x.tag EXCEPT !.rif = FALSE] /\ cond' = TRUE
                   /\ Return(a, "read", x.rc)
      BY <1>2, Zenon DEF plc_tag_read
    <3>2. CASE r.rc = "pending" BY <3>1, <3>2, Zenon
    <3>3. CASE r.rc # "pending" BY <3>1, <3>3, Zenon
    <3> QED BY <3>2, <3>3, Zenon
  <2>3. One(r.tag) BY <2>1, ReadStartIsOne
  <2>4. One([r.tag EXCEPT !.abortReq = TRUE]) BY <2>3 DEF One
  <2>5. One(AbortBlock([r.tag EXCEPT !.abortReq = TRUE]).tag) BY <2>4, AbortBlockIsOne
  <2>6. CASE tag' = r.tag BY <2>3, <2>6
  <2> QED BY <2>2, <2>5, <2>6, Zenon DEF One
<1>3. ASSUME NEW w, plc_tag_write(a, w) PROVE One(tag')
  <2> DEFINE t == [tag EXCEPT !.wif = TRUE, !.status = "ok", !.want = TRUE]
  <2>1. One(t) BY DEF One
  <2>2. PICK r \in tag_write_start(t) :
          \/ tag' = r.tag
          \/ tag' = [ab_tag_abort_request(r.tag).tag EXCEPT !.wif = FALSE]
    BY <1>3 DEF plc_tag_write
  <2>3. One(r.tag) BY <2>1, WriteStartIsOne
  <2>4. One(ab_tag_abort_request(r.tag).tag) BY <2>3, AbortRequestIsOne
  <2> QED BY <2>2, <2>3, <2>4 DEF One
<1>4. CASE CheckStatus(a)
  <2>1. PICK t \in tag_tickler(tag) : tag' = t \/ tag' = [t EXCEPT !.abortReq = TRUE]
    BY <1>4 DEF CheckStatus
  <2>2. One(t) BY TicklerIsOne
  <2> QED BY <2>1, <2>2 DEF One
<1>5. CASE Abort(a) BY <1>5, AbortBlockIsOne DEF Abort
<1>6. CASE Finish(a) BY <1>6 DEF Finish, One
<1>7. CASE plc_tag_status(a) BY <1>7, TicklerIsOne DEF plc_tag_status
<1>8. CASE SetData(a) BY <1>8 DEF SetData, One
<1>9. CASE plc_tag_abort(a) \/ TimedOut(a)
  BY <1>9 DEF plc_tag_abort, TimedOut, Flag, One
<1>10. CASE Refused(a) \/ Woken(a) BY <1>1, <1>10 DEF Refused, Woken
<1> QED BY <1>2, <1>3, <1>4, <1>5, <1>6, <1>7, <1>8, <1>9, <1>10 DEF Call, Proceed

\* Whoever starts, completes, aborts or times out: the tag has a request out
\* exactly while it reads or writes, and never does both (lib.c, eip_cip.c).
THEOREM RequestIsOne == OpsSpec => []OneRequest
<1>1. OpsInit => One(tag)
  BY DEF OpsInit, One
<1>2. One(tag) /\ [OpsNext]_opsVars => One(tag)'
  <2> SUFFICES ASSUME One(tag), [OpsNext]_opsVars PROVE One(tag')
    OBVIOUS
  <2>1. CASE UNCHANGED opsVars BY <2>1 DEF opsVars, One
  <2>2. ASSUME NEW a \in App, Call(a) \/ Proceed(a) \/ TimedOut(a) PROVE One(tag')
    BY <2>2, CallKeepsOne
  <2>3. ASSUME NEW due \in BOOLEAN, Tickler(due) PROVE One(tag')
    <3>1. PICK u \in plc_tag_generic_tickler(tag, due) :
            \E v \in tag_tickler(u) : tag' = Completed(v)
      BY <2>3 DEF Tickler
    <3>2. PICK v \in tag_tickler(u) : tag' = Completed(v) BY <3>1
    <3>3. One(v) BY GenericIsOne, TicklerIsOne
    <3> QED BY <3>2, <3>3 DEF Completed, One
  <2>4. CASE SessionAnswers
    <3>1. PICK r \in Answers : tag.req = "sent" /\ tag' = [tag EXCEPT !.req = r]
      BY <2>4 DEF SessionAnswers, Answer
    <3>2. r # "none" BY TagOpsAssumption
    <3> QED BY <3>1, <3>2 DEF One
  <2> QED BY <2>1, <2>2, <2>3, <2>4 DEF OpsNext
<1>3. One(tag) => OneRequest BY DEF One, OneRequest
<1> QED BY <1>1, <1>2, <1>3, PTL DEF OpsSpec
=============================================================================
