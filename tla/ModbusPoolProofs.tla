-------------------------- MODULE ModbusPoolProofs --------------------------
(***************************************************************************)
(* Proofs about the sharing of Modbus PLCs, for any number of tags,        *)
(* connections and failures.  The inductive invariant relates the          *)
(* references, the list, the handler threads and plc_count.                *)
(***************************************************************************)
EXTENDS ModbusPool, ListLemmas

\* Which provers to try on a step that names none, and for how many seconds.
USE SMTT(30), ZenonT(30), Z3T(30)

\* The PLCs that plc_count counts: their handler was started, and their
\* destructor has not run to its end.
Active == {p \in Plc : phase[p] \notin {"none", "freed"} /\ handler[p] # "none"}

\* The references are those of the tags, and only a PLC with references is live.
RefsAgree ==
  /\ \A t \in Tag, p \in Plc : t \in refs[p] <=> plcOf[t] = p
  /\ \A t \in Tag, p \in Plc : t \in members[p] => plcOf[t] = p /\ pc[t] \in {"attached", "queued"}
  /\ \A p \in Plc : phase[p] = "live" <=> refs[p] # {}

\* The list has each PLC once, the one with references among them.
ListAgrees ==
  /\ Distinct(plcs)
  /\ \A p \in Plc : refs[p] # {} => p \in Elements(plcs)
  /\ \A p, q \in Plc : refs[p] # {} /\ refs[q] # {} => p = q
  /\ \A p \in Elements(plcs) : phase[p] # "none"

HandlersAgree ==
  /\ \A p \in Plc : phase[p] = "none" => handler[p] = "none"
  /\ \A p \in Plc : phase[p] = "freed" => handler[p] \in {"none", "exited"}
  /\ \A t \in Tag : pc[t] = "new" => handler[plcOf[t]] = "none"
  /\ \A t, u \in Tag : pc[t] = "new" /\ pc[u] = "new" /\ plcOf[t] = plcOf[u] => t = u
  /\ lib # "up" => \A t \in Tag : pc[t] # "new"

\* While no thread_create has failed, plc_count is exact, and a teardown that
\* has waited for it to fall to zero has waited for every destructor.
CountAgrees ==
  failures = 0 =>
    /\ IsFiniteSet(Active) /\ plc_count = Cardinality(Active)
    /\ \A p \in Plc : phase[p] \notin {"none", "freed"} /\ handler[p] = "none" =>
         \E t \in Tag : pc[t] = "new" /\ plcOf[t] = p
    /\ lib \in {"polling", "down"} => \A p \in Plc : phase[p] \in {"none", "freed"}

ListedAgree ==
  lib # "down" \/ failures = 0 => \A p \in Elements(plcs) : phase[p] \in {"live", "dying"}

ModbusInv == TypeOK /\ RefsAgree /\ ListAgrees /\ HandlersAgree

\* What needs the waits of mb_teardown to have no end.
PatientInv == CountAgrees /\ ListedAgree

LEMMA ListedElements ==
  ASSUME plcs \in Seq(Plc)
  PROVE  Listed = Elements(plcs) /\ Elements(plcs) \subseteq Plc
BY DEF Listed, Elements

LEMMA ModbusInvInit == Init => ModbusInv
<1> SUFFICES ASSUME Init PROVE ModbusInv
  OBVIOUS
<1>1. TypeOK
  BY PoolAssumption DEF Init, TypeOK, TagPc
<1>2. RefsAgree
  BY PoolAssumption DEF Init, RefsAgree
<1>3. ListAgrees
  BY DEF Init, ListAgrees, Distinct, Elements
<1>4. HandlersAgree
  BY DEF Init, HandlersAgree
<1> QED BY <1>1, <1>2, <1>3, <1>4 DEF ModbusInv

LEMMA FindPlcKeeps ==
  ASSUME ModbusInv, NEW t \in Tag, FindPlc(t)
  PROVE  ModbusInv'
<1>1. PICK p \in Plc :
        /\ refs[p] # {}
        /\ plcOf' = [plcOf EXCEPT ![t] = p]
        /\ refs' = [refs EXCEPT ![p] = @ \cup {t}]
  <2>1. PICK i \in DOMAIN plcs :
          /\ Usable(plcs[i])
          /\ plcOf' = [plcOf EXCEPT ![t] = plcs[i]]
          /\ refs' = [refs EXCEPT ![plcs[i]] = @ \cup {t}]
    BY Zenon DEF FindPlc
  <2>2. plcs[i] \in Plc
    BY DEF ModbusInv, TypeOK
  <2> QED BY <2>1, <2>2, Zenon DEF Usable
<1>2. /\ lib = "up" /\ pc[t] = "none" /\ pc' = [pc EXCEPT ![t] = "found"]
      /\ UNCHANGED <<members, phase, plcs, terminate, handler, plc_count, queue, job, lib, failures>>
  BY DEF FindPlc
<1>3. plcOf[t] = None
  BY <1>2 DEF ModbusInv, TypeOK
<1>4. TypeOK'
  BY <1>1, <1>2, PoolAssumption DEF ModbusInv, TypeOK, TagPc
<1>5. RefsAgree'
  BY <1>1, <1>2, <1>3, PoolAssumption DEF ModbusInv, TypeOK, RefsAgree
<1>6. ListAgrees'
  BY <1>1, <1>2 DEF ModbusInv, TypeOK, ListAgrees
<1>7. HandlersAgree'
  BY <1>1, <1>2 DEF ModbusInv, TypeOK, HandlersAgree
<1> QED BY <1>4, <1>5, <1>6, <1>7 DEF ModbusInv

LEMMA CreatePlcKeeps ==
  ASSUME ModbusInv, NEW t \in Tag, CreatePlc(t)
  PROVE  ModbusInv'
<1>1. PICK p \in Plc :
        /\ phase[p] = "none" /\ phase' = [phase EXCEPT ![p] = "live"]
        /\ plcs' = <<p>> \o plcs
        /\ plcOf' = [plcOf EXCEPT ![t] = p]
        /\ refs' = [refs EXCEPT ![p] = {t}]
  BY Zenon DEF CreatePlc
<1>2. /\ lib = "up" /\ pc[t] = "none" /\ pc' = [pc EXCEPT ![t] = "new"]
      /\ UNCHANGED <<members, terminate, handler, plc_count, queue, job, lib, failures>>
  BY DEF CreatePlc
<1>3. plcOf[t] = None
  BY <1>2 DEF ModbusInv, TypeOK
<1>4. \A q \in Plc : refs[q] = {}
  BY ListedElements DEF CreatePlc, Usable, ModbusInv, TypeOK, ListAgrees
<1>5. \A u \in Tag : plcOf[u] # p
  BY <1>4 DEF ModbusInv, RefsAgree
<1>6. p \notin Elements(plcs) /\ plcs \in Seq(Plc) /\ Distinct(plcs)
  BY <1>1 DEF ModbusInv, ListAgrees, TypeOK
<1>7. plcs' \in Seq(Plc) /\ Distinct(plcs') /\ Elements(plcs') = Elements(plcs) \cup {p}
  BY <1>1, <1>6, ConsElements
<1>8. TypeOK'
  BY <1>1, <1>2, <1>7, PoolAssumption DEF ModbusInv, TypeOK, TagPc
<1>9. RefsAgree'
  BY <1>1, <1>2, <1>3, <1>4, <1>5, PoolAssumption DEF ModbusInv, TypeOK, RefsAgree
<1>10. ListAgrees'
  BY <1>1, <1>2, <1>4, <1>7, ListedElements, Zenon DEF ModbusInv, TypeOK, ListAgrees
<1>11. HandlersAgree'
  BY <1>1, <1>2, <1>5 DEF ModbusInv, TypeOK, HandlersAgree
<1> QED BY <1>8, <1>9, <1>10, <1>11 DEF ModbusInv

LEMMA StartHandlerKeeps ==
  ASSUME ModbusInv, NEW t \in Tag, StartHandler(t)
  PROVE  ModbusInv'
<1>1. plcOf[t] \in Plc /\ phase[plcOf[t]] = "live"
  BY DEF ModbusInv, TypeOK, RefsAgree, StartHandler
<1>2. TypeOK'
  BY <1>1 DEF ModbusInv, TypeOK, TagPc, StartHandler
<1>3. RefsAgree'
  BY DEF ModbusInv, TypeOK, RefsAgree, StartHandler
<1>4. ListAgrees'
  BY DEF ModbusInv, TypeOK, ListAgrees, StartHandler
<1>5. HandlersAgree'
  BY <1>1 DEF ModbusInv, TypeOK, HandlersAgree, StartHandler
<1> QED BY <1>2, <1>3, <1>4, <1>5 DEF ModbusInv

\* A tag that no tag list of a PLC has gives up its reference.
LEMMA ReleaseKeeps ==
  ASSUME ModbusInv, NEW t \in Tag, Release(t, queue), pc[t] \in {"new", "removed"},
         pc' = [pc EXCEPT ![t] = "gone"],
         UNCHANGED <<members, plcs, terminate, handler, plc_count, lib>>,
         failures' \in 0 .. MaxThreadFailures, job' \in Tag \cup Plc \cup {None}
  PROVE  ModbusInv'
<1> DEFINE p == plcOf[t]
<1>1. p \in Plc /\ t \in refs[p] /\ phase[p] = "live"
  BY DEF ModbusInv, TypeOK, RefsAgree
<1>2. /\ refs' = [refs EXCEPT ![p] = @ \ {t}] /\ plcOf' = [plcOf EXCEPT ![t] = None]
      /\ phase' = [phase EXCEPT ![p] = IF refs[p] = {t} THEN "dying" ELSE @]
      /\ queue' = IF refs[p] = {t} THEN Append(queue, p) ELSE queue
  BY DEF Release
<1>3. \A q \in Plc : t \notin members[q]
  BY DEF ModbusInv, RefsAgree
<1> HIDE DEF p
<1>4. TypeOK'
  BY <1>1, <1>2, PoolAssumption DEF ModbusInv, TypeOK, TagPc
<1>5. RefsAgree'
  <2>1. \A u \in Tag, q \in Plc : (u \in refs[q] <=> plcOf[u] = q)'
    BY <1>1, <1>2, PoolAssumption DEF ModbusInv, TypeOK, RefsAgree
  <2>2. \A u \in Tag, q \in Plc :
          (u \in members[q] => plcOf[u] = q /\ pc[u] \in {"attached", "queued"})'
    BY <1>2, <1>3 DEF ModbusInv, TypeOK, RefsAgree
  <2>3. \A q \in Plc : (phase[q] = "live" <=> refs[q] # {})'
    BY <1>1, <1>2 DEF ModbusInv, TypeOK, RefsAgree
  <2> QED BY <2>1, <2>2, <2>3 DEF RefsAgree
<1>6. ListAgrees'
  BY <1>1, <1>2, ListedElements DEF ModbusInv, TypeOK, ListAgrees
<1>7. HandlersAgree'
  BY <1>1, <1>2 DEF ModbusInv, TypeOK, HandlersAgree
<1> QED BY <1>4, <1>5, <1>6, <1>7 DEF ModbusInv

LEMMA StopHandlerKeeps ==
  ASSUME ModbusInv, NEW p \in Plc, StopHandler(p)
  PROVE  ModbusInv'
<1>1. phase[p] = "dying" /\ refs[p] = {}
  BY DEF StopHandler, ModbusInv, RefsAgree
<1>2. /\ plcs' \in Seq(Plc) /\ Distinct(plcs')
      /\ Elements(plcs') = IF lib = "down" THEN Elements(plcs) ELSE Elements(plcs) \ {p}
  <2>1. plcs \in Seq(Plc) /\ Distinct(plcs)
    BY DEF ModbusInv, TypeOK, ListAgrees
  <2>2. /\ Unlinked(plcs, p) \in Seq(Plc) /\ Distinct(Unlinked(plcs, p))
        /\ Elements(Unlinked(plcs, p)) = Elements(plcs) \ {p}
    BY <2>1, UnlinkedOrder
  <2> QED BY <2>1, <2>2, Zenon DEF StopHandler
<1>3. TypeOK'
  BY <1>2 DEF ModbusInv, TypeOK, StopHandler
<1>4. RefsAgree'
  BY <1>1 DEF ModbusInv, TypeOK, RefsAgree, StopHandler
<1>5. ListAgrees'
  BY <1>1, <1>2, ListedElements, Zenon DEF ModbusInv, TypeOK, ListAgrees, StopHandler
<1>6. HandlersAgree'
  BY <1>1 DEF ModbusInv, TypeOK, HandlersAgree, StopHandler
<1> QED BY <1>3, <1>4, <1>5, <1>6 DEF ModbusInv

\* Steps that leave the references, the list and the PLCs' phases alone.
LEMMA OtherStepsKeep ==
  ASSUME ModbusInv,
         \/ \E t \in Tag : add_tag(t) \/ DestroyTag(t) \/ remove_tag(t)
         \/ CleanerTakes \/ Teardown \/ UNCHANGED vars
         \/ \E p \in Plc : DestroyPlc(p) \/ Handler(p)
  PROVE  ModbusInv'
<1>1. ASSUME NEW t \in Tag, add_tag(t) PROVE ModbusInv'
  <2>1. plcOf[t] \in Plc
    BY <1>1, Zenon DEF ModbusInv, TypeOK, add_tag
  <2>2. TypeOK'
    BY <1>1, <2>1 DEF ModbusInv, TypeOK, TagPc, add_tag
  <2>3. RefsAgree'
    BY <1>1, <2>1 DEF ModbusInv, TypeOK, RefsAgree, add_tag
  <2>4. ListAgrees' /\ HandlersAgree'
    BY <1>1 DEF ModbusInv, TypeOK, ListAgrees, HandlersAgree, add_tag
  <2> QED BY <2>2, <2>3, <2>4 DEF ModbusInv
<1>2. ASSUME NEW t \in Tag, DestroyTag(t) PROVE ModbusInv'
  <2>1. TypeOK'
    BY <1>2 DEF ModbusInv, TypeOK, TagPc, DestroyTag
  <2>2. RefsAgree'
    BY <1>2 DEF ModbusInv, TypeOK, RefsAgree, DestroyTag
  <2>3. ListAgrees' /\ HandlersAgree'
    BY <1>2 DEF ModbusInv, TypeOK, ListAgrees, HandlersAgree, DestroyTag
  <2> QED BY <2>1, <2>2, <2>3 DEF ModbusInv
<1>3. ASSUME NEW t \in Tag, remove_tag(t) PROVE ModbusInv'
  <2>1. TypeOK'
    BY <1>3, Zenon DEF ModbusInv, TypeOK, TagPc, remove_tag
  <2>2. RefsAgree'
    BY <1>3 DEF ModbusInv, TypeOK, RefsAgree, remove_tag
  <2>3. ListAgrees' /\ HandlersAgree'
    BY <1>3 DEF ModbusInv, TypeOK, ListAgrees, HandlersAgree, remove_tag
  <2> QED BY <2>1, <2>2, <2>3 DEF ModbusInv
<1>4. ASSUME CleanerTakes PROVE ModbusInv'
  <2>1. Head(queue) \in Tag \cup Plc /\ Tail(queue) \in Seq(Tag \cup Plc)
    BY <1>4 DEF ModbusInv, TypeOK, CleanerTakes
  <2>2. TypeOK'
    BY <1>4, <2>1 DEF ModbusInv, TypeOK, CleanerTakes
  <2>3. RefsAgree' /\ ListAgrees' /\ HandlersAgree'
    BY <1>4 DEF ModbusInv, RefsAgree, ListAgrees, HandlersAgree, CleanerTakes
  <2> QED BY <2>2, <2>3 DEF ModbusInv
<1>5. ASSUME Teardown PROVE ModbusInv'
  <2>1. TypeOK'
    BY <1>5, Zenon DEF ModbusInv, TypeOK, Teardown, Shutdown, TeardownStops, TeardownCounts, TeardownEnds
  <2>2. RefsAgree' /\ ListAgrees'
    BY <1>5 DEF ModbusInv, RefsAgree, ListAgrees, Teardown, Shutdown, TeardownStops,
                TeardownCounts, TeardownEnds
  <2>3. HandlersAgree'
    BY <1>5 DEF ModbusInv, HandlersAgree, Teardown, Shutdown, TeardownStops, TeardownCounts,
                TeardownEnds
  <2> QED BY <2>1, <2>2, <2>3 DEF ModbusInv
<1>6. ASSUME UNCHANGED vars PROVE ModbusInv'
  BY <1>6 DEF ModbusInv, TypeOK, RefsAgree, ListAgrees, HandlersAgree, vars
<1>7. ASSUME NEW p \in Plc, DestroyPlc(p) PROVE ModbusInv'
  <2>1. TypeOK'
    BY <1>7 DEF ModbusInv, TypeOK, DestroyPlc
  <2>2. RefsAgree'
    BY <1>7 DEF ModbusInv, TypeOK, RefsAgree, DestroyPlc
  <2>3. ListAgrees'
    BY <1>7, ListedElements DEF ModbusInv, TypeOK, ListAgrees, DestroyPlc
  <2>4. HandlersAgree'
    BY <1>7 DEF ModbusInv, TypeOK, HandlersAgree, DestroyPlc
  <2> QED BY <2>1, <2>2, <2>3, <2>4 DEF ModbusInv
<1>8. ASSUME NEW p \in Plc, Handler(p) PROVE ModbusInv'
  <2>1. TypeOK'
    BY <1>8 DEF ModbusInv, TypeOK, Handler, HandlerStarts, HandlerExits
  <2>2. RefsAgree' /\ ListAgrees'
    BY <1>8 DEF ModbusInv, RefsAgree, ListAgrees, Handler, HandlerStarts, HandlerExits
  <2>3. HandlersAgree'
    BY <1>8 DEF ModbusInv, TypeOK, HandlersAgree, Handler, HandlerStarts, HandlerExits
  <2> QED BY <2>1, <2>2, <2>3 DEF ModbusInv
<1> QED BY <1>1, <1>2, <1>3, <1>4, <1>5, <1>6, <1>7, <1>8

LEMMA ModbusInvNext == ModbusInv /\ [Next]_vars => ModbusInv'
<1> SUFFICES ASSUME ModbusInv, [Next]_vars PROVE ModbusInv'
  OBVIOUS
<1>1. ASSUME NEW t \in Tag, Create(t) PROVE ModbusInv'
  <2>1. CASE FindPlc(t)
    BY <2>1, FindPlcKeeps
  <2>2. CASE CreatePlc(t)
    BY <2>2, CreatePlcKeeps
  <2>3. CASE StartHandler(t)
    BY <2>3, StartHandlerKeeps
  <2>4. CASE StartFails(t)
    <3>1. failures' \in 0 .. MaxThreadFailures /\ job' \in Tag \cup Plc \cup {None}
      BY <2>4, PoolAssumption DEF StartFails, ModbusInv, TypeOK
    <3> QED BY <2>4, <3>1, ReleaseKeeps, Zenon DEF StartFails
  <2>5. CASE add_tag(t)
    BY <2>5, OtherStepsKeep
  <2> QED BY <1>1, <2>1, <2>2, <2>3, <2>4, <2>5 DEF Create
<1>2. ASSUME NEW t \in Tag, ReleasePlc(t) PROVE ModbusInv'
  <2>1. failures' \in 0 .. MaxThreadFailures /\ job' \in Tag \cup Plc \cup {None}
    BY <1>2 DEF ReleasePlc, ModbusInv, TypeOK
  <2> QED BY <1>2, <2>1, ReleaseKeeps, Zenon DEF ReleasePlc
<1>3. ASSUME NEW p \in Plc, StopHandler(p) PROVE ModbusInv'
  BY <1>3, StopHandlerKeeps
<1> QED BY <1>1, <1>2, <1>3, OtherStepsKeep DEF Next, Cleanup

\* Spec gives the invariant.
LEMMA ModbusInvHolds == Spec => []ModbusInv
BY ModbusInvInit, ModbusInvNext, PTL DEF Spec

\* Active gains at most what a step starts, and loses what it frees.
LEMMA ActiveGrows ==
  ASSUME Counting, NEW p, p \notin Active, IsFiniteSet(Active), Active' = Active \cup {p}
  PROVE  IsFiniteSet(Active') /\ Cardinality(Active') = Cardinality(Active) + 1
BY Zenon DEF Counting, Counted

LEMMA ActiveShrinks ==
  ASSUME Counting, NEW p, p \in Active, IsFiniteSet(Active), Active' = Active \ {p}
  PROVE  IsFiniteSet(Active') /\ Cardinality(Active') = Cardinality(Active) - 1
BY Zenon DEF Counting, Counted

LEMMA PatientInvInit == ASSUME Counting PROVE Init => PatientInv
<1> SUFFICES ASSUME Init PROVE PatientInv
  OBVIOUS
<1>1. Active = {}
  BY DEF Init, Active
<1>2. CountAgrees
  BY <1>1 DEF Init, CountAgrees, Counting
<1>3. ListedAgree
  BY DEF Init, ListedAgree, Elements
<1> QED BY <1>2, <1>3 DEF PatientInv

LEMMA FailuresKept ==
  ASSUME [Next]_vars
  PROVE  failures' = failures \/ \E t \in Tag : StartFails(t)
<1>1. ASSUME NEW t \in Tag, Create(t), ~ StartFails(t) PROVE failures' = failures
  BY <1>1 DEF Create, FindPlc, CreatePlc, StartHandler, add_tag
<1>2. Cleanup => failures' = failures
  BY DEF Cleanup, CleanerTakes, remove_tag, ReleasePlc, StopHandler, DestroyPlc
<1>3. Teardown => failures' = failures
  BY DEF Teardown, Shutdown, TeardownStops, TeardownCounts, TeardownEnds
<1>4. \A p \in Plc : Handler(p) => failures' = failures
  BY DEF Handler, HandlerStarts, HandlerExits
<1> QED BY <1>1, <1>2, <1>3, <1>4 DEF Next, DestroyTag, vars

\* plc_count counts the handlers, and the teardown waits for all of them.
LEMMA CountNext ==
  ASSUME Counting, ~ Timeouts, ModbusInv, CountAgrees, [Next]_vars
  PROVE  CountAgrees'
<1> SUFFICES ASSUME failures' = 0 PROVE CountAgrees'
  BY DEF CountAgrees
<1>0. failures = 0
  BY FailuresKept, PoolAssumption DEF ModbusInv, TypeOK, StartFails
<1>00. /\ IsFiniteSet(Active) /\ plc_count = Cardinality(Active)
       /\ \A p \in Plc : phase[p] \notin {"none", "freed"} /\ handler[p] = "none" =>
            \E t \in Tag : pc[t] = "new" /\ plcOf[t] = p
       /\ lib \in {"polling", "down"} => \A p \in Plc : phase[p] \in {"none", "freed"}
  BY <1>0 DEF CountAgrees
<1>1. ASSUME NEW t \in Tag, FindPlc(t) PROVE CountAgrees'
  <2>1. Active' = Active /\ plc_count' = plc_count
    BY <1>1 DEF FindPlc, Active
  <2>2. \A p \in Plc : (phase[p] \notin {"none", "freed"} /\ handler[p] = "none")' =>
          (\E u \in Tag : pc[u] = "new" /\ plcOf[u] = p)'
    BY <1>1, <1>00 DEF FindPlc, ModbusInv, TypeOK
  <2> QED BY <1>00, <1>1, <2>1, <2>2 DEF FindPlc, CountAgrees
<1>2. ASSUME NEW t \in Tag, CreatePlc(t) PROVE CountAgrees'
  <2>1. PICK p \in Plc :
          /\ phase[p] = "none" /\ phase' = [phase EXCEPT ![p] = "live"]
          /\ plcOf' = [plcOf EXCEPT ![t] = p]
    BY <1>2, Zenon DEF CreatePlc
  <2>2. handler[p] = "none" /\ UNCHANGED handler
    BY <1>2, <2>1 DEF CreatePlc, ModbusInv, HandlersAgree
  <2>3. Active' = Active /\ plc_count' = plc_count
    BY <1>2, <2>1, <2>2 DEF CreatePlc, Active, ModbusInv, TypeOK
  <2>4. \A q \in Plc : (phase[q] \notin {"none", "freed"} /\ handler[q] = "none")' =>
          (\E u \in Tag : pc[u] = "new" /\ plcOf[u] = q)'
    BY <1>2, <1>00, <2>1, <2>2 DEF CreatePlc, ModbusInv, TypeOK
  <2> QED BY <1>00, <1>2, <2>3, <2>4 DEF CreatePlc, CountAgrees
<1>3. ASSUME NEW t \in Tag, StartHandler(t) PROVE CountAgrees'
  <2>1. plcOf[t] \in Plc /\ phase[plcOf[t]] = "live" /\ handler[plcOf[t]] = "none"
    BY <1>3 DEF ModbusInv, TypeOK, RefsAgree, HandlersAgree, StartHandler
  <2>2. Active' = Active \cup {plcOf[t]} /\ plcOf[t] \notin Active
    BY <1>3, <2>1 DEF StartHandler, Active, ModbusInv, TypeOK
  <2>3. IsFiniteSet(Active') /\ Cardinality(Active') = plc_count'
    BY <1>00, <1>3, <2>2, ActiveGrows DEF StartHandler
  <2>4. \A q \in Plc : (phase[q] \notin {"none", "freed"} /\ handler[q] = "none")' =>
          (\E u \in Tag : pc[u] = "new" /\ plcOf[u] = q)'
    BY <1>3, <1>00, <2>1 DEF StartHandler, ModbusInv, TypeOK
  <2>5. lib' \notin {"polling", "down"}
    BY <1>3, <1>00, <2>1 DEF StartHandler
  <2> QED BY <2>3, <2>4, <2>5 DEF CountAgrees
<1>4. ASSUME NEW t \in Tag, StartFails(t) PROVE FALSE
  BY <1>4, <1>0 DEF StartFails
<1>5. ASSUME NEW t \in Tag, add_tag(t) \/ DestroyTag(t) \/ remove_tag(t) PROVE CountAgrees'
  <2>1. Active' = Active /\ plc_count' = plc_count
    BY <1>5 DEF add_tag, DestroyTag, remove_tag, Active
  <2>2. \A q \in Plc : (phase[q] \notin {"none", "freed"} /\ handler[q] = "none")' =>
          (\E u \in Tag : pc[u] = "new" /\ plcOf[u] = q)'
    BY <1>5, <1>00 DEF add_tag, DestroyTag, remove_tag, ModbusInv, TypeOK
  <2> QED BY <1>00, <1>5, <2>1, <2>2 DEF add_tag, DestroyTag, remove_tag, CountAgrees
<1>6. ASSUME CleanerTakes \/ UNCHANGED vars PROVE CountAgrees'
  <2>1. UNCHANGED <<pc, plcOf, phase, handler, plc_count, lib>>
    BY <1>6 DEF CleanerTakes, vars
  <2>2. Active' = Active
    BY <2>1 DEF Active
  <2> QED BY <1>00, <2>1, <2>2 DEF CountAgrees
<1>7. ASSUME NEW t \in Tag, ReleasePlc(t) PROVE CountAgrees'
  <2>1. plcOf[t] \in Plc /\ phase[plcOf[t]] = "live"
    BY <1>7 DEF ModbusInv, TypeOK, RefsAgree, ReleasePlc
  <2>2. \A q \in Plc : phase'[q] \in {"none", "freed"} <=> phase[q] \in {"none", "freed"}
    BY <1>7, <2>1 DEF ReleasePlc, Release, ModbusInv, TypeOK
  <2>3. Active' = Active /\ plc_count' = plc_count
    BY <1>7, <2>2 DEF ReleasePlc, Active
  <2>4. \A q \in Plc : (phase[q] \notin {"none", "freed"} /\ handler[q] = "none")' =>
          (\E u \in Tag : pc[u] = "new" /\ plcOf[u] = q)'
    BY <1>7, <1>00, <2>2 DEF ReleasePlc, Release, ModbusInv, TypeOK
  <2> QED BY <1>00, <1>7, <2>2, <2>3, <2>4 DEF ReleasePlc, CountAgrees
<1>8. ASSUME NEW p \in Plc, StopHandler(p) PROVE CountAgrees'
  <2>1. \A q \in Plc : phase'[q] \in {"none", "freed"} <=> phase[q] \in {"none", "freed"}
    BY <1>8 DEF StopHandler, ModbusInv, TypeOK
  <2>2. Active' = Active /\ plc_count' = plc_count
    BY <1>8, <2>1 DEF StopHandler, Active
  <2>3. \A q \in Plc : (phase[q] \notin {"none", "freed"} /\ handler[q] = "none")' =>
          (\E u \in Tag : pc[u] = "new" /\ plcOf[u] = q)'
    BY <1>8, <1>00, <2>1 DEF StopHandler
  <2> QED BY <1>00, <1>8, <2>1, <2>2, <2>3 DEF StopHandler, CountAgrees
<1>9. ASSUME NEW p \in Plc, DestroyPlc(p) PROVE CountAgrees'
  <2>1. phase[p] = "joining" /\ phase' = [phase EXCEPT ![p] = "freed"]
    BY <1>9 DEF DestroyPlc
  <2>2. handler[p] # "none"
    BY <2>1, <1>00 DEF ModbusInv, TypeOK, RefsAgree
  <2>3. p \in Active /\ Active' = Active \ {p}
    BY <1>9, <2>1, <2>2 DEF DestroyPlc, Active, ModbusInv, TypeOK
  <2>4. IsFiniteSet(Active') /\ Cardinality(Active') = plc_count'
    BY <1>00, <1>9, <2>3, ActiveShrinks DEF DestroyPlc
  <2>5. \A q \in Plc : (phase[q] \notin {"none", "freed"} /\ handler[q] = "none")' =>
          (\E u \in Tag : pc[u] = "new" /\ plcOf[u] = q)'
    BY <1>9, <1>00, <2>1 DEF DestroyPlc, ModbusInv, TypeOK
  <2>6. lib' \in {"polling", "down"} => \A q \in Plc : phase'[q] \in {"none", "freed"}
    BY <1>9, <1>00, <2>1 DEF DestroyPlc
  <2> QED BY <2>4, <2>5, <2>6 DEF CountAgrees
<1>10. ASSUME NEW p \in Plc, Handler(p) PROVE CountAgrees'
  <2>1. \A q \in Plc : handler'[q] = "none" <=> handler[q] = "none"
    BY <1>10 DEF Handler, HandlerStarts, HandlerExits, ModbusInv, TypeOK
  <2>2. Active' = Active /\ plc_count' = plc_count
    BY <1>10, <2>1 DEF Handler, HandlerStarts, HandlerExits, Active
  <2>3. \A q \in Plc : (phase[q] \notin {"none", "freed"} /\ handler[q] = "none")' =>
          (\E u \in Tag : pc[u] = "new" /\ plcOf[u] = q)'
    BY <1>10, <1>00, <2>1 DEF Handler, HandlerStarts, HandlerExits
  <2> QED BY <1>00, <1>10, <2>2, <2>3 DEF Handler, HandlerStarts, HandlerExits, CountAgrees
<1>11. ASSUME TeardownCounts PROVE CountAgrees'
  <2>1. Cardinality(Active) = 0
    BY <1>11, <1>00 DEF TeardownCounts, Counting, Counted
  <2>2. Active = {}
    BY <2>1, <1>00, Zenon DEF Counting, Counted
  <2>3. \A p \in Plc : phase[p] \in {"none", "freed"}
    BY <1>00, <1>11, <2>2 DEF Active, TeardownCounts, ModbusInv, HandlersAgree
  <2> QED BY <1>00, <1>11, <2>3 DEF TeardownCounts, CountAgrees, Active
<1>12. ASSUME Shutdown \/ TeardownStops \/ TeardownEnds PROVE CountAgrees'
  BY <1>12, <1>00 DEF Shutdown, TeardownStops, TeardownEnds, CountAgrees, Active
<1> QED BY <1>1, <1>2, <1>3, <1>4, <1>5, <1>6, <1>7, <1>8, <1>9, <1>10, <1>11, <1>12
        DEF Next, Create, Cleanup, Teardown

\* The list keeps no PLC whose destructor has begun, while mb_mutex exists.
LEMMA ListedNext ==
  ASSUME ModbusInv, CountAgrees, ListedAgree, [Next]_vars
  PROVE  ListedAgree'
<1>00. Elements(plcs) \subseteq Plc
  BY ListedElements DEF ModbusInv, TypeOK
<1>0. failures' = failures \/ \E t \in Tag : StartFails(t)
  BY FailuresKept
<1>1. ASSUME NEW t \in Tag, CreatePlc(t) PROVE ListedAgree'
  <2>1. PICK p \in Plc :
          /\ phase[p] = "none" /\ phase' = [phase EXCEPT ![p] = "live"] /\ plcs' = <<p>> \o plcs
    BY <1>1, Zenon DEF CreatePlc
  <2>2. Elements(plcs') = Elements(plcs) \cup {p}
    BY <2>1, ConsElements DEF ModbusInv, ListAgrees, TypeOK
  <2> QED BY <1>00, <1>1, <2>1, <2>2 DEF CreatePlc, ListedAgree, ModbusInv, TypeOK
<1>2. ASSUME NEW t \in Tag, Release(t, queue), UNCHANGED <<plcs, lib>>, failures' = 0 => failures = 0
      PROVE  ListedAgree'
  <2>1. \A q \in Plc : phase[q] \in {"live", "dying"} => phase'[q] \in {"live", "dying"}
    BY <1>2 DEF Release, ModbusInv, TypeOK
  <2> QED BY <1>00, <1>2, <2>1 DEF ListedAgree
<1>3. ASSUME NEW p \in Plc, StopHandler(p) PROVE ListedAgree'
  <2>1. plcs \in Seq(Plc) /\ Distinct(plcs)
    BY DEF ModbusInv, TypeOK, ListAgrees
  <2>2. Elements(Unlinked(plcs, p)) = Elements(plcs) \ {p}
    BY <2>1, UnlinkedOrder
  <2>3. CASE lib = "down"
    <3>1. failures # 0
      BY <1>3, <2>3 DEF StopHandler, CountAgrees
    <3> QED BY <1>3, <2>3, <3>1 DEF StopHandler, ListedAgree
  <2>4. CASE lib # "down"
    BY <1>00, <1>3, <2>2, <2>4 DEF StopHandler, ListedAgree, ModbusInv, TypeOK
  <2> QED BY <2>3, <2>4
<1>4. ASSUME NEW p \in Plc, DestroyPlc(p) PROVE ListedAgree'
  BY <1>00, <1>4 DEF DestroyPlc, ListedAgree, ModbusInv, TypeOK
<1>5. ASSUME UNCHANGED <<plcs, phase, failures>>, lib = "down" => lib' = "down" PROVE ListedAgree'
  BY <1>5 DEF ListedAgree
<1>6. ASSUME NEW t \in Tag, Create(t) PROVE ListedAgree'
  <2>1. CASE StartFails(t)
    <3>1. failures' = 0 => failures = 0
      BY <2>1, PoolAssumption DEF StartFails, ModbusInv, TypeOK
    <3> QED BY <2>1, <3>1, <1>2 DEF StartFails
  <2> QED BY <1>6, <1>1, <1>5, <2>1 DEF Create, FindPlc, StartHandler, add_tag
<1>7. ASSUME Cleanup PROVE ListedAgree'
  <2>1. ASSUME NEW t \in Tag, ReleasePlc(t) PROVE ListedAgree'
    BY <2>1, <1>2 DEF ReleasePlc
  <2>2. ASSUME NEW t \in Tag, remove_tag(t) PROVE ListedAgree'
    BY <2>2, <1>5 DEF remove_tag
  <2>3. CASE CleanerTakes
    BY <2>3, <1>5 DEF CleanerTakes
  <2> QED BY <1>7, <1>3, <1>4, <2>1, <2>2, <2>3 DEF Cleanup
<1>8. ASSUME NEW p \in Plc, Handler(p) PROVE ListedAgree'
  BY <1>8, <1>5 DEF Handler, HandlerStarts, HandlerExits
<1>9. ASSUME Teardown PROVE ListedAgree'
  BY <1>9 DEF Teardown, Shutdown, TeardownStops, TeardownCounts, TeardownEnds, ListedAgree,
              CountAgrees, ModbusInv, TypeOK
<1>10. ASSUME NEW t \in Tag, DestroyTag(t) PROVE ListedAgree'
  BY <1>10, <1>5 DEF DestroyTag
<1>11. ASSUME UNCHANGED vars PROVE ListedAgree'
  BY <1>11, <1>5 DEF vars
<1> QED BY <1>6, <1>7, <1>8, <1>9, <1>10, <1>11 DEF Next

LEMMA OneUsable == ASSUME Counting PROVE ModbusInv => OnePlc
<1> SUFFICES ASSUME ModbusInv PROVE OnePlc
  OBVIOUS
<1> DEFINE U == {p \in Plc : Usable(p)}
<1>1. U = {} \/ \E p \in Plc : U = {p}
  BY DEF ModbusInv, ListAgrees, Usable
<1>2. Cardinality(U) \in {0, 1}
  BY <1>1, Zenon DEF Counting
<1> QED BY <1>2 DEF OnePlc
=============================================================================
