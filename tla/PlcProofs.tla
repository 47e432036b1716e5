----------------------------- MODULE PlcProofs ------------------------------
(***************************************************************************)
(* Theorems about the handler of a Modbus PLC, for one request at a time    *)
(* (max_requests_in_flight = 1, the default) and without plc_tag_abort.     *)
(* Every step keeps the invariant of PlcSteps.                              *)
(***************************************************************************)
EXTENDS PlcSteps, ListLemmas, FiniteSetTheorems

\* Which provers to try on a step that names none, and for how many seconds.
USE SMTT(30), ZenonT(30), Z3T(30)

LEMMA TickleNextKeepsInv ==
  ASSUME PlcInv, max_requests_in_flight = 1, TickleNext
  PROVE  PlcInv'
<1>1. /\ pass \in [pc: {"top", "tickle", "deferred", "leftover", "switch"},
                    i: Nat \ {0}, last: Nat, deferred: Tag \cup {None}]
      /\ order \in Seq(Tag) /\ Elements(order) = Tag /\ pass.last <= Len(order)
      /\ pass.pc = "tickle" /\ pass.i <= pass.last
  BY DEF PlcInv, Typed, TickleNext
<1>2. pass.i \in 1 .. Len(order) /\ order[pass.i] \in Tag BY <1>1
<1>3. PICK t \in Tag : t = order[pass.i] BY <1>2
<1>4. /\ tickle_tag(t) /\ state' = state /\ aborting' = aborting /\ aborts' = aborts
      /\ atPlc' = atPlc /\ inbox' = inbox
      /\ IF tag[t].op \in Waiting /\ tag'[t].op = "IDLE"
           THEN /\ order' = Append(Without(order, pass.i), t)
                /\ pass' = [pass EXCEPT !.last = @ - 1]
           ELSE pass' = [pass EXCEPT !.i = @ + 1] /\ order' = order
  BY <1>3, Zenon DEF TickleNext, netVars, bounds
<1>5. PICK x, g : abortReq' = abortReq /\ Outcome(t, x, g) BY <1>4, TickleOutcome
<1>6. tag' \in [Tag -> TagState] /\ got' \in [Tag -> SUBSET Nat] /\ seq' \in SeqId
  BY <1>5, OutcomeTyped
<1>7. OneInFlight' BY <1>4, <1>5, OutcomeFlight
<1>8. NoAborts' /\ AllProgress' BY <1>4, <1>5, SameAborts, OutcomeProgress
<1>9. /\ rbuf' # None => rbuf' = rbuf
      /\ rbuf # None /\ rbuf.req.tag = t => rbuf' = None
      /\ tag[t].op \in Waiting /\ tag'[t].op = "IDLE" => rbuf' = None
      /\ wbuf' = wbuf \/ (state = "READY" /\ wbuf' # None)
      /\ rbuf' = rbuf \/ state = "READY"
  BY <1>5, OutcomeBuffers
<1>10. CASE tag[t].op \in Waiting /\ tag'[t].op = "IDLE"
  <2>1. rbuf' = None BY <1>9, <1>10
  <2>2. order' \in Seq(Tag) /\ Len(order') = Len(order) /\ Elements(order') = Tag
    <3>1. order' = Append(Without(order, pass.i), order[pass.i]) BY <1>3, <1>4, <1>10
    <3>2. PICK k \in 1 .. Len(order) : k = pass.i BY <1>2
    <3>3. order' = Append(Without(order, k), order[k]) /\ order \in Seq(Tag) BY <1>1, <3>1, <3>2
    <3>4. order' \in Seq(Tag) /\ Len(order') = Len(order) /\ Elements(order') = Elements(order)
      BY <3>3, MovedToEnd, Zenon
    <3> QED BY <1>1, <3>4
  <2>3. pass' = [pass EXCEPT !.last = pass.last - 1] BY <1>4, <1>10
  <2>4. pass.last - 1 \in Nat /\ pass.last - 1 <= Len(order) BY <1>1
  <2>5. /\ pass'.last = pass.last - 1
        /\ pass' \in [pc: {"top", "tickle", "deferred", "leftover", "switch"},
                      i: Nat \ {0}, last: Nat, deferred: Tag \cup {None}]
    BY <1>1, <2>3, <2>4
  <2>6. Typed' BY <1>6, <2>2, <2>4, <2>5 DEF Typed
  <2>7. Handled' BY <1>4, <1>9, <2>1 DEF PlcInv, Handled, Nothing
  <2>8. OwnerAhead' BY <2>1 DEF OwnerAhead
  <2> QED BY <1>7, <1>8, <2>6, <2>7, <2>8, Zenon DEF PlcInv
<1>11. CASE ~(tag[t].op \in Waiting /\ tag'[t].op = "IDLE")
  <2>1. pass' = [pass EXCEPT !.i = pass.i + 1] /\ order' = order BY <1>4, <1>11
  <2>2. /\ pass'.pc = "tickle" /\ pass'.i = pass.i + 1 /\ pass'.last = pass.last
        /\ pass'.deferred = pass.deferred
        /\ pass' \in [pc: {"top", "tickle", "deferred", "leftover", "switch"},
                      i: Nat \ {0}, last: Nat, deferred: Tag \cup {None}]
    BY <1>1, <2>1
  <2>3. Typed' BY <1>1, <1>6, <2>1, <2>2 DEF Typed
  <2>4. Handled' BY <1>4, <1>9, <2>2 DEF PlcInv, Handled, Nothing
  <2>5. ASSUME rbuf' # None
        PROVE  \/ pass.deferred = rbuf.req.tag
               \/ /\ pass.deferred = None
                  /\ \E i \in pass.i + 1 .. pass.last : order[i] = rbuf.req.tag
    <3>1. rbuf' = rbuf /\ rbuf # None /\ rbuf.req.tag # t BY <1>9, <2>5
    <3>2. \/ pass.deferred = rbuf.req.tag
          \/ pass.deferred = None /\ \E i \in pass.i .. pass.last : order[i] = rbuf.req.tag
      BY <1>1, <3>1 DEF PlcInv, OwnerAhead
    <3>3. \A i \in pass.i .. pass.last : i = pass.i \/ i \in pass.i + 1 .. pass.last
      BY <1>1
    <3> QED BY <1>3, <3>1, <3>2, <3>3
  <2>6. OwnerAhead' BY <1>9, <2>1, <2>2, <2>5 DEF OwnerAhead
  <2> QED BY <1>7, <1>8, <2>3, <2>4, <2>6, Zenon DEF PlcInv
<1> QED BY <1>10, <1>11

\* reset_plc: a tag that waits gives up its transaction with its request; one
\* that had already gone back to its REQUEST state keeps it.
LEMMA ResetKeepsInv ==
  ASSUME PlcInv, NEW s, InState(s), reset_plc,
         state' \in {"READY", "CONNECT_WAIT", "ERR_WAIT", "IDLE_WAIT"}
  PROVE  PlcInv'
<1> DEFINE pending == {t \in Tag : tag[t].op \in Waiting /\ tag[t].ptid # 0}
           n == Cardinality(pending)
           new(t) == IF tag[t].op \in Waiting
                       THEN [tag[t] EXCEPT !.ptid = 0,
                               !.op = IF @ = "READ_RESPONSE" THEN "READ_REQUEST"
                                                             ELSE "WRITE_REQUEST"]
                       ELSE tag[t]
<1>1. /\ tag' = [t \in Tag |-> new(t)] /\ count' = (IF count > n THEN count - n ELSE 0)
      /\ Nothing' /\ rbuf' = None
  BY Zenon DEF reset_plc, Nothing
<1>2. tag \in [Tag -> TagState] BY DEF PlcInv, Typed
<1>3. ASSUME NEW t \in Tag
      PROVE  /\ new(t) \in TagState /\ new(t).op \notin Waiting /\ new(t).num = tag[t].num
             /\ tag[t].op \notin Waiting => new(t) = tag[t]
             /\ tag[t].op \in Waiting =>
                  /\ new(t).ptid = 0
                  /\ \E k \in Kinds : tag[t].op = ResponseOp(k) /\ new(t).op = RequestOp(k)
  <2>1. tag[t] \in TagState BY <1>2
  <2>2. CASE tag[t].op \notin Waiting BY <2>1, <2>2
  <2>3. CASE tag[t].op = "READ_RESPONSE"
    <3>1. new(t) = [tag[t] EXCEPT !.ptid = 0, !.op = "READ_REQUEST"]
      BY <2>3 DEF Waiting
    <3>2. /\ new(t) \in TagState /\ new(t).op = "READ_REQUEST" /\ new(t).ptid = 0
          /\ new(t).num = tag[t].num
      <4>1. 0 \in SeqId BY PlcAssumption DEF SeqId
      <4> QED BY <2>1, <3>1, <4>1, Zenon DEF TagState, Ops
    <3> QED BY <2>3, <3>2 DEF Waiting, Kinds, ResponseOp, RequestOp
  <2>4. CASE tag[t].op = "WRITE_RESPONSE"
    <3>1. new(t) = [tag[t] EXCEPT !.ptid = 0, !.op = "WRITE_REQUEST"]
      BY <2>4 DEF Waiting
    <3>2. /\ new(t) \in TagState /\ new(t).op = "WRITE_REQUEST" /\ new(t).ptid = 0
          /\ new(t).num = tag[t].num
      <4>1. 0 \in SeqId BY PlcAssumption DEF SeqId
      <4> QED BY <2>1, <3>1, <4>1, Zenon DEF TagState, Ops
    <3> QED BY <2>4, <3>2 DEF Waiting, Kinds, ResponseOp, RequestOp
  <2> QED BY <2>2, <2>3, <2>4 DEF Waiting
<1> HIDE DEF new
<1>4. \A t \in Tag : tag'[t] = new(t) BY <1>1
<1>5. tag' \in [Tag -> TagState] BY <1>1, <1>3
<1>6. Typed' BY <1>5, InStateFacts DEF Typed
<1>7. NoAborts' /\ got' = got /\ pass'.pc = "top" BY InStateFacts
<1>8. AllProgress'
  <2> SUFFICES ASSUME NEW t \in Tag PROVE Progress(tag'[t].op, tag'[t].num, got[t], t)
    BY <1>7 DEF AllProgress
  <2>1. Progress(tag[t].op, tag[t].num, got[t], t) BY DEF PlcInv, AllProgress
  <2>2. CASE tag[t].op \notin Waiting BY <1>3, <1>4, <2>1, <2>2
  <2>3. CASE tag[t].op \in Waiting
    <3>1. PICK k \in Kinds : tag[t].op = ResponseOp(k) /\ tag'[t].op = RequestOp(k)
      BY <1>3, <1>4, <2>3
    <3>2. tag'[t].num = tag[t].num BY <1>3, <1>4
    <3> QED BY <2>1, <3>1, <3>2, Zenon DEF Progress, Kinds, RequestOp, ResponseOp
  <2> QED BY <2>2, <2>3
<1>9. OneInFlight'
  <2>1. ASSUME NEW S, Only(S), \A t \in Tag \cap S : tag[t].op \notin Waiting
        PROVE  count \in Nat => count' = count
    <3>1. pending = {} BY <2>1 DEF Only
    <3>2. n = 0 BY <3>1, FS_EmptySet
    <3> HIDE DEF n
    <3> QED BY <1>1, <3>2
  <2>2. ASSUME NEW S, Only(S) PROVE Only(S)'
    BY <1>3, <1>4, <2>2 DEF Only
  <2>3. CASE Quiet
    <3>1. count = 0 /\ Only({}) BY <2>3 DEF Quiet
    <3>2. count' = 0 BY <2>1, <3>1
    <3> QED BY <1>1, <2>2, <3>1, <3>2, Zenon DEF Quiet, OneInFlight
  <2>4. ASSUME NEW r \in Request, Flying(r) PROVE OneInFlight'
    <3>1. r.tag \in Tag /\ r.seq # 0 /\ r.kind \in Kinds BY DEF Request, Kinds
    <3>2. count = 1 /\ Only({r.tag}) /\ Owns(r) BY <2>4 DEF Flying
    <3>3. CASE tag[r.tag].op \in Waiting
      <4>1. pending = {r.tag} BY <3>1, <3>2, <3>3 DEF Only, Owns
      <4>2. n = 1 BY <4>1, FS_Singleton, Zenon
      <4> HIDE DEF n
      <4>3. count' = 0 BY <1>1, <3>2, <4>2
      <4>4. Only({})' BY <1>3, <1>4, <2>2, <3>1, <3>2, <3>3 DEF Only
      <4> QED BY <1>1, <4>3, <4>4 DEF Quiet, OneInFlight
    <3>4. CASE tag[r.tag].op \notin Waiting
      <4>1. count' = 1 BY <2>1, <3>2, <3>4
      <4>2. Only({r.tag})' BY <2>2, <3>2
      <4>3. tag'[r.tag].ptid # 0 /\ tag'[r.tag].op \notin Waiting
        BY <1>3, <1>4, <3>1, <3>2, <3>4 DEF Owns
      <4> QED BY <1>1, <3>1, <4>1, <4>2, <4>3, Zenon DEF Stuck, OneInFlight
    <3> QED BY <3>3, <3>4
  <2>5. ASSUME NEW t \in Tag, Stuck(t) PROVE OneInFlight'
    <3>1. count = 1 /\ Only({t}) /\ tag[t].ptid # 0 /\ tag[t].op \notin Waiting
      BY <2>5 DEF Stuck
    <3>2. count' = 1 BY <2>1, <3>1
    <3>3. Only({t})' BY <2>2, <3>1
    <3>4. tag'[t].ptid # 0 /\ tag'[t].op \notin Waiting BY <1>3, <1>4, <3>1
    <3> QED BY <1>1, <3>2, <3>3, <3>4, Zenon DEF Stuck, OneInFlight
  <2> QED BY <2>3, <2>4, <2>5, Zenon DEF PlcInv, OneInFlight
<1>10. Handled' BY <1>1 DEF Handled
<1>11. OwnerAhead' BY <1>1, Zenon DEF OwnerAhead
<1> QED BY <1>6, <1>7, <1>8, <1>9, <1>10, <1>11, Zenon DEF PlcInv

LEMMA ResetSteps ==
  ASSUME PlcInv, ConnectStart \/ ReadyInactive
  PROVE  PlcInv'
<1>1. CASE ConnectStart
  <2>1. /\ InState("CONNECT_START") /\ reset_plc
        /\ state' \in {"READY", "CONNECT_WAIT", "ERR_WAIT", "IDLE_WAIT"}
    BY <1>1 DEF ConnectStart
  <2> QED BY <2>1, ResetKeepsInv
<1>2. CASE ReadyInactive
  <2>1. /\ InState("READY") /\ reset_plc
        /\ state' \in {"READY", "CONNECT_WAIT", "ERR_WAIT", "IDLE_WAIT"}
    BY <1>2 DEF ReadyInactive
  <2> QED BY <2>1, ResetKeepsInv
<1> QED BY <1>1, <1>2

\* The request moves on: its tag waits for it wherever it is.
LEMMA FlightMoves ==
  ASSUME PlcInv, NEW r \in Request, Flying(r), Holds(r)', tag' = tag, count' = count,
         state' = state \/ state # "CONNECT_START"
  PROVE  OneInFlight'
<1>1. Only({r.tag})' BY DEF Flying, Only
<1>2. Owns(r)' BY Zenon DEF Flying, Owns
<1>3. Flying(r)' BY <1>1, <1>2 DEF Flying
<1> QED BY <1>3 DEF OneInFlight

LEMMA SendKeepsInv ==
  ASSUME PlcInv, SendRequest, sock # "broken"
  PROVE  PlcInv'
<1>1. /\ InState("SEND_REQUEST") /\ state' = "READY" /\ atPlc' = Append(atPlc, wbuf)
      /\ wbuf' = None /\ tag' = tag /\ count' = count /\ rbuf' = rbuf /\ inbox' = inbox
  BY DEF SendRequest
<1>2. state = "SEND_REQUEST" /\ rbuf = None BY <1>1, InStateFacts
<1>3. wbuf # None BY <1>2 DEF PlcInv, Handled
<1>4. PICK r \in Request : Flying(r)
  BY <1>3, Zenon DEF PlcInv, OneInFlight, Quiet, Stuck, Nothing
<1>5. wbuf = r /\ atPlc = << >> /\ inbox = << >>
  BY <1>3, <1>4 DEF Flying, Holds, InWbuf, AtPlc, InInbox, InRbuf
<1>6. atPlc' = <<r>> BY <1>1, <1>5
<1>7. Holds(r)' BY <1>1, <1>2, <1>5, <1>6 DEF Holds, AtPlc
<1>8. OneInFlight' BY <1>1, <1>2, <1>4, <1>7, FlightMoves
<1>9. Typed' BY <1>1, InStateFacts DEF Typed
<1>10. NoAborts' /\ AllProgress' BY <1>1, InStateFacts, SameProgress
<1>11. Handled' /\ OwnerAhead' BY <1>1, <1>2 DEF Handled, OwnerAhead
<1> QED BY <1>8, <1>9, <1>10, <1>11, Zenon DEF PlcInv

LEMMA ReceiveKeepsInv ==
  ASSUME PlcInv, ReceiveResponse, sock # "broken"
  PROVE  PlcInv'
<1>1. /\ InState("RECEIVE_RESPONSE") /\ state' = "READY" /\ rbuf' = Head(inbox)
      /\ inbox' = Tail(inbox)
      /\ tag' = tag /\ count' = count /\ wbuf' = wbuf /\ atPlc' = atPlc
  BY DEF ReceiveResponse
<1>2. state = "RECEIVE_RESPONSE" /\ rbuf = None /\ pass'.pc = "top" BY <1>1, InStateFacts
<1>3. inbox # << >> BY <1>2 DEF PlcInv, Handled
<1>4. PICK r \in Request : Flying(r)
  BY <1>3, Zenon DEF PlcInv, OneInFlight, Quiet, Stuck, Nothing
<1>5. /\ wbuf = None /\ atPlc = << >>
      /\ \E x \in Response : inbox = <<x>> /\ x.req = r
  BY <1>3, <1>4 DEF Flying, Holds, InWbuf, AtPlc, InInbox, InRbuf
<1>6. rbuf' \in Response /\ rbuf'.req = r /\ inbox' = << >> BY <1>1, <1>5
<1>7. Holds(r)' BY <1>1, <1>5, <1>6 DEF Holds, InRbuf
<1>8. OneInFlight' BY <1>1, <1>2, <1>4, <1>7, FlightMoves
<1>9. Typed' BY <1>1, InStateFacts DEF Typed
<1>10. NoAborts' /\ AllProgress' BY <1>1, InStateFacts, SameProgress
<1>11. Handled' /\ OwnerAhead' BY <1>1, <1>2 DEF Handled, OwnerAhead
<1> QED BY <1>8, <1>9, <1>10, <1>11, Zenon DEF PlcInv

(***************************************************************************)
(* The steps of the application, the PLC and the network.                   *)
(***************************************************************************)
LEMMA StillKeepsInv ==
  ASSUME PlcInv, state' = state, seq' = seq, wbuf' = wbuf, rbuf' = rbuf, order' = order,
         pass' = pass, tag' = tag, count' = count, got' = got, atPlc' = atPlc, inbox' = inbox,
         abortReq' = abortReq, aborting' = aborting, aborts' = aborts
  PROVE  PlcInv'
<1>1. Typed' BY DEF PlcInv, Typed
<1>2. OneInFlight' BY SameFlight
<1>3. NoAborts' /\ AllProgress' BY SameAborts, SameProgress
<1>4. Handled' BY DEF PlcInv, Handled, Nothing
<1>5. OwnerAhead' BY DEF PlcInv, OwnerAhead
<1> QED BY <1>1, <1>2, <1>3, <1>4, <1>5, Zenon DEF PlcInv

LEMMA StartOutcome ==
  ASSUME PlcInv, NEW t \in Tag, NEW k \in Kinds, start_op(t, k)
  PROVE  \E x, g : Outcome(t, x, g)
<1>1. tag \in [Tag -> TagState] /\ got \in [Tag -> SUBSET Nat] BY DEF PlcInv, Typed
<1>2. tag[t] \in TagState BY <1>1
<1> DEFINE st == IF k = "read" THEN "pending" ELSE "ok"
           x == [tag[t] EXCEPT !.op = RequestOp(k), !.status = st]
<1>3. /\ tag' = [tag EXCEPT ![t].op = RequestOp(k), ![t].status = st]
      /\ got' = [got EXCEPT ![t] = {}] /\ tag[t].op = "IDLE" /\ Same /\ seq' = seq
  BY Zenon DEF start_op, AppUnchanged, Same, RequestOp
<1>4. st \in {"ok", "pending", "error", "abort"} /\ RequestOp(k) \in Ops BY DEF RequestOp, Ops
<1> HIDE DEF st
<1>5. tag' = [tag EXCEPT ![t] = x] BY <1>1, <1>3, Zenon
<1>6. /\ x \in TagState /\ x.op = RequestOp(k) /\ x.ptid = tag[t].ptid /\ x.seq = tag[t].seq
      /\ x.num = tag[t].num
  BY <1>2, <1>4, Zenon DEF TagState
<1> HIDE DEF x
<1>7. Changes(t, x, {}) BY <1>3, <1>5, <1>6, Zenon DEF Changes
<1>8. Begins(t, x, {}, k) BY <1>3, <1>6 DEF Begins
<1> QED BY <1>7, <1>8, Zenon DEF Outcome

LEMMA StartKeepsInv ==
  ASSUME PlcInv, NEW t \in Tag, NEW k \in Kinds, start_op(t, k)
  PROVE  PlcInv'
<1>1. /\ state' = state /\ wbuf' = wbuf /\ rbuf' = rbuf /\ order' = order /\ pass' = pass
      /\ atPlc' = atPlc /\ inbox' = inbox /\ abortReq' = abortReq /\ aborting' = aborting
      /\ aborts' = aborts
  BY DEF start_op, AppUnchanged, plcVars, netVars, appVars
<1>2. PICK x, g : Outcome(t, x, g) BY StartOutcome
<1>3. tag' \in [Tag -> TagState] /\ got' \in [Tag -> SUBSET Nat] /\ seq' \in SeqId
  BY <1>2, OutcomeTyped
<1>4. OneInFlight' BY <1>1, <1>2, OutcomeFlight
<1>5. NoAborts' /\ AllProgress' BY <1>1, <1>2, SameAborts, OutcomeProgress
<1>6. Typed' BY <1>1, <1>3 DEF PlcInv, Typed
<1>7. Handled' BY <1>1 DEF PlcInv, Handled, Nothing
<1>8. OwnerAhead' BY <1>1 DEF PlcInv, OwnerAhead
<1> QED BY <1>4, <1>5, <1>6, <1>7, <1>8, Zenon DEF PlcInv

LEMMA AppKeepsInv ==
  ASSUME PlcInv, MaxAborts = 0, App \/ \E t \in Tag : AppFinishes(t)
  PROVE  PlcInv'
<1>1. \A t \in Tag : aborting[t].pc = "no" /\ ~(aborts < MaxAborts)
  BY DEF PlcInv, NoAborts, NoAbort
<1>2. PICK t \in Tag :
        \/ start_op(t, "read") \/ start_op(t, "write")
        \/ SetDirty(t) \/ LockTag(t) \/ RequestAbort(t)
        \/ UnlockTag(t) \/ mb_abort(t) \/ AbortStores(t)
  BY Zenon DEF App, AppFinishes
<1>3. CASE start_op(t, "read") BY <1>3, StartKeepsInv DEF Kinds
<1>4. CASE start_op(t, "write") BY <1>4, StartKeepsInv DEF Kinds
<1>5. CASE SetDirty(t)
  BY <1>5, StillKeepsInv DEF SetDirty, AppUnchanged, plcVars, netVars
<1>6. CASE LockTag(t)
  BY <1>6, StillKeepsInv DEF LockTag, AppUnchanged, plcVars, netVars
<1>7. CASE UnlockTag(t)
  BY <1>7, StillKeepsInv DEF UnlockTag, AppUnchanged, plcVars, netVars
<1>8. ~RequestAbort(t) /\ ~mb_abort(t) /\ ~AbortStores(t)
  BY <1>1 DEF RequestAbort, mb_abort, AbortStores
<1> QED BY <1>2, <1>3, <1>4, <1>5, <1>6, <1>7, <1>8

LEMMA AnswerKeepsInv ==
  ASSUME PlcInv, PlcAnswers
  PROVE  PlcInv'
<1>1. /\ state' = state /\ seq' = seq /\ wbuf' = wbuf /\ rbuf' = rbuf /\ order' = order
      /\ pass' = pass /\ tag' = tag /\ count' = count /\ got' = got /\ abortReq' = abortReq
      /\ aborting' = aborting /\ aborts' = aborts
  BY DEF PlcAnswers, NetUnchanged, appVars
<1>2. PICK i \in DOMAIN atPlc, a \in Answers :
        /\ atPlc' = Without(atPlc, i)
        /\ inbox' = Append(inbox, [req |-> atPlc[i], answer |-> a])
  BY DEF PlcAnswers
<1>3. atPlc # << >> BY <1>2
<1>4. PICK r \in Request : Flying(r)
  BY <1>3, Zenon DEF PlcInv, OneInFlight, Quiet, Stuck, Nothing
<1>5. AtPlc(r)
  BY <1>3, <1>4 DEF Flying, Holds, InWbuf, AtPlc, InInbox, InRbuf
<1>6. atPlc = <<r>> /\ inbox = << >> /\ wbuf = None /\ rbuf = None BY <1>5 DEF AtPlc
<1>7. i = 1 /\ atPlc[i] = r BY <1>2, <1>6
<1>8. atPlc' = << >> BY <1>2, <1>6, <1>7 DEF Without
<1>9. a \in {"ok", "error", "ack"} BY PlcAssumption
<1>10. PICK x : x = [req |-> r, answer |-> a] BY Zenon
<1>11. x \in Response /\ x.req = r BY <1>9, <1>10 DEF Response
<1>12. inbox' = <<x>> BY <1>2, <1>6, <1>7, <1>10
<1>13. Holds(r)' BY <1>1, <1>6, <1>8, <1>11, <1>12 DEF Holds, InInbox
<1>14. OneInFlight' BY <1>1, <1>4, <1>13, FlightMoves
<1>15. Typed' BY <1>1 DEF PlcInv, Typed
<1>16. NoAborts' /\ AllProgress' BY <1>1, SameAborts, SameProgress
<1>17. inbox' # << >> BY <1>12
<1>18. Handled' BY <1>1, <1>3, <1>17 DEF PlcInv, Handled, Nothing
<1>19. OwnerAhead' BY <1>1, Zenon DEF PlcInv, OwnerAhead
<1> QED BY <1>14, <1>15, <1>16, <1>18, <1>19, Zenon DEF PlcInv

LEMMA DisconnectKeepsInv ==
  ASSUME PlcInv, Disconnect
  PROVE  PlcInv'
BY StillKeepsInv DEF Disconnect, NetUnchanged, netVars, appVars

LEMMA HandlerKeepsInv ==
  ASSUME PlcInv, max_requests_in_flight = 1, Handler
  PROVE  PlcInv'
BY BeginPassKeepsInv, TickleNextKeepsInv, SkipLockedKeepsInv, EndPassKeepsInv,
   DeferredKeepsInv, LeftoverKeepsInv, ConnectionSteps, ResetSteps, SendKeepsInv,
   ReceiveKeepsInv, Zenon DEF Handler

LEMMA PlcStep ==
  ASSUME max_requests_in_flight = 1, MaxAborts = 0
  PROVE  PlcInv /\ [Next]_vars => PlcInv'
<1>1. ASSUME PlcInv, Next PROVE PlcInv'
  BY <1>1, HandlerKeepsInv, AppKeepsInv, AnswerKeepsInv, DisconnectKeepsInv, Zenon DEF Next
<1>2. ASSUME PlcInv, vars' = vars PROVE PlcInv'
  BY <1>2, StillKeepsInv DEF vars, plcVars, netVars, appVars, bounds
<1> QED BY <1>1, <1>2

LEMMA PlcInit == Init => PlcInv
<1> SUFFICES ASSUME Init PROVE PlcInv
  OBVIOUS
<1>1. 0 \in SeqId /\ \A t \in Tag : Chunks[t] \in Nat /\ Chunks[t] > 0
  BY PlcAssumption DEF SeqId
<1>2. Cardinality(Tag) \in Nat BY PlcAssumption, FS_CardinalityType
<1>3. order \in Seq(Tag) /\ Elements(order) = Tag /\ Len(order) = Cardinality(Tag)
  BY <1>2 DEF Init
<1>4. tag = [t \in Tag |-> [op |-> "IDLE", seq |-> 0, ptid |-> 0, num |-> 0, status |-> "ok"]]
  BY Zenon DEF Init
<1>5. tag \in [Tag -> TagState] BY <1>1, <1>4 DEF TagState, Ops
<1>6. \A t \in Tag : tag[t].op = "IDLE" /\ tag[t].ptid = 0 /\ tag[t].num = 0 BY <1>4
<1>7. Typed BY <1>1, <1>3, <1>5 DEF Init, Typed
<1>8. NoAborts BY DEF Init, NoAborts
<1>9. OneInFlight BY <1>6 DEF Init, OneInFlight, Quiet, Nothing, Only, Waiting
<1>10. Handled /\ OwnerAhead BY DEF Init, Handled, OwnerAhead, Nothing
<1>11. AllProgress BY <1>6 DEF AllProgress, Progress
<1> QED BY <1>7, <1>8, <1>9, <1>10, <1>11, Zenon DEF PlcInv

(***************************************************************************)
(* What follows from the invariant.                                         *)
(***************************************************************************)
LEMMA InvInStep ==
  ASSUME max_requests_in_flight = 1, PlcInv
  PROVE  RequestsInStep
<1> DEFINE there == InBuffer \cup OnWire
           counted == {t \in Tag : tag[t].ptid # 0}
<1>1. ASSUME Nothing PROVE there = {}
  BY <1>1 DEF Nothing, InBuffer, OnWire, Answered, Elements
<1>2. ASSUME NEW r \in Request, Holds(r) PROVE there = {r}
  <2>1. r # None /\ None \notin Response BY NoneAssumption
  <2>2. CASE InWbuf(r)
    BY <2>1, <2>2 DEF InWbuf, InBuffer, OnWire, Answered, Elements
  <2>3. CASE AtPlc(r)
    <3>1. Elements(<<r>>) = {r} BY DEF Elements
    <3> QED BY <2>3, <3>1 DEF AtPlc, InBuffer, OnWire, Answered
  <2>4. CASE InInbox(r)
    <3>1. PICK x \in Response : inbox = <<x>> /\ x.req = r BY <2>4 DEF InInbox
    <3>2. {inbox[j].req : j \in DOMAIN inbox} = {r} BY <3>1
    <3>3. Elements(atPlc) = {} BY <2>4 DEF InInbox, Elements
    <3> QED BY <2>4, <3>2, <3>3 DEF InInbox, InBuffer, OnWire, Answered
  <2>5. CASE InRbuf(r)
    <3>1. {rbuf} \ {None} = {rbuf} /\ rbuf.req = r BY <2>1, <2>5 DEF InRbuf
    <3>2. Elements(atPlc) = {} /\ DOMAIN inbox = {} BY <2>5 DEF InRbuf, Elements
    <3> QED BY <2>5, <3>1, <3>2 DEF InRbuf, InBuffer, OnWire, Answered
  <2> QED BY <1>2, <2>2, <2>3, <2>4, <2>5 DEF Holds
<1> HIDE DEF there
<1>3. CASE Quiet
  <2>1. there = {} /\ counted = {} /\ count = 0 /\ \A t \in Tag : tag[t].op \notin Waiting
    BY <1>1, <1>3 DEF Quiet, Only
  <2>2. Cardinality(there) = 0 /\ Cardinality(counted) = 0 BY <2>1, FS_EmptySet
  <2> HIDE DEF counted
  <2>3. Cardinality(there) <= max_requests_in_flight /\ count = Cardinality(counted) BY <2>1, <2>2
  <2> QED BY <2>1, <2>3, Zenon
          DEF RequestsInStep, NoOrphanWait, InFlightLimit, CountIsPending, there, counted
<1>4. ASSUME NEW r \in Request, Flying(r) PROVE RequestsInStep
  <2>1. there = {r} BY <1>2, <1>4 DEF Flying
  <2>2. r.tag \in Tag /\ r.seq # 0 BY DEF Request
  <2>3. counted = {r.tag} BY <1>4, <2>2 DEF Flying, Only, Owns
  <2>4. count = 1 BY <1>4 DEF Flying
  <2>5. Cardinality(there) = 1 /\ Cardinality(counted) = 1 BY <2>1, <2>3, FS_Singleton, Zenon
  <2> HIDE DEF counted
  <2>6. Cardinality(there) <= max_requests_in_flight /\ count = Cardinality(counted) BY <2>4, <2>5
  <2>7. \A t \in Tag : tag[t].op \in Waiting => t = r.tag /\ r.seq = tag[t].seq
    BY <1>4 DEF Flying, Only, Owns
  <2> QED BY <2>1, <2>6, <2>7, Zenon
          DEF RequestsInStep, NoOrphanWait, InFlightLimit, CountIsPending, there, counted
<1>5. ASSUME NEW t \in Tag, Stuck(t) PROVE RequestsInStep
  <2>1. there = {} BY <1>1, <1>5 DEF Stuck
  <2>2. counted = {t} BY <1>5 DEF Stuck, Only
  <2>3. count = 1 BY <1>5 DEF Stuck
  <2>4. Cardinality(there) = 0 /\ Cardinality(counted) = 1
    BY <2>1, <2>2, FS_EmptySet, FS_Singleton, Zenon
  <2> HIDE DEF counted
  <2>5. Cardinality(there) <= max_requests_in_flight /\ count = Cardinality(counted) BY <2>3, <2>4
  <2>6. \A u \in Tag : tag[u].op \notin Waiting BY <1>5 DEF Stuck, Only
  <2> QED BY <2>5, <2>6, Zenon
          DEF RequestsInStep, NoOrphanWait, InFlightLimit, CountIsPending, there, counted
<1> QED BY <1>3, <1>4, <1>5, Zenon DEF PlcInv, OneInFlight

\* With one request at a time, as the code does by default (modbus.c:549), and no
\* plc_tag_abort: through every disconnect and reconnect, whatever the PLC
\* answers and whoever holds the mutexes of the tags, a tag that waits has its
\* request under way, only one is, and pending_request_count is right
\* (tickle_all_tags, reset_plc).
THEOREM HandlerInStep ==
  ASSUME max_requests_in_flight = 1, MaxAborts = 0
  PROVE  Spec => []RequestsInStep
<1>1. Init => PlcInv BY PlcInit
<1>2. PlcInv /\ [Next]_vars => PlcInv' BY PlcStep
<1>3. PlcInv => RequestsInStep BY InvInStep
<1> QED BY <1>1, <1>2, <1>3, PTL DEF Spec
LEMMA StillMoves ==
  ASSUME PlcInv, got' = got, tag' = tag \/ rbuf = None
  PROVE  Moved /\ ReadDone /\ WriteDone
BY DEF Moved, ReadDone, WriteDone, Completes

LEMMA StepMoves ==
  ASSUME max_requests_in_flight = 1, MaxAborts = 0, PlcInv, [Next]_vars
  PROVE  Moved /\ ReadDone /\ WriteDone
<1>1. CASE TickleNext
  <2>1. pass.i \in 1 .. Len(order) /\ order \in Seq(Tag)
    BY <1>1 DEF PlcInv, Typed, TickleNext
  <2>2. PICK t \in Tag : t = order[pass.i] BY <2>1
  <2>3. tickle_tag(t) BY <1>1, <2>2 DEF TickleNext
  <2> QED BY <2>3, TickleOutcome, OutcomeMoves
<1>2. CASE Deferred
  <2>1. CASE rbuf # None /\ tag[pass.deferred].ptid # 0 /\ tag[pass.deferred].ptid = rbuf.req.seq
    <3>1. tickle_tag(pass.deferred) BY <1>2, <2>1 DEF Deferred
    <3>2. pass.deferred \in Tag
      BY <1>2, <2>1, ResponseHasOwner DEF Deferred, PlcInv, OwnerAhead
    <3> QED BY <3>1, <3>2, TickleOutcome, OutcomeMoves
  <2>2. CASE ~(rbuf # None /\ tag[pass.deferred].ptid # 0 /\ tag[pass.deferred].ptid = rbuf.req.seq)
    <3>1. tag' = tag /\ got' = got BY <1>2, <2>2 DEF Deferred
    <3> QED BY <3>1, StillMoves
  <2> QED BY <2>1, <2>2
<1>3. CASE BeginPass \/ SkipLocked \/ EndPass \/ Leftover
  <2>1. tag' = tag /\ got' = got BY <1>3 DEF BeginPass, SkipLocked, EndPass, Leftover
  <2> QED BY <2>1, StillMoves
<1>4. CASE \/ ConnectStart \/ ConnectWait \/ ErrWait \/ ReadyError \/ ReadyCanWrite
           \/ ReadyCanRead \/ ReadyNothing \/ ReadyInactive \/ SendRequest
           \/ ReceiveResponse \/ IdleWait
  <2>1. \E s : InState(s)
    BY <1>4, Zenon DEF ConnectStart, ConnectWait, ErrWait, ReadyError, ReadyCanWrite, ReadyCanRead,
                ReadyNothing, ReadyInactive, SendRequest, ReceiveResponse, IdleWait
  <2>2. rbuf = None /\ got' = got BY <2>1, InStateFacts
  <2> QED BY <2>2, StillMoves
<1>5. CASE App \/ \E t \in Tag : AppFinishes(t)
  <2>1. \A t \in Tag : aborting[t].pc = "no" /\ ~(aborts < MaxAborts)
    BY DEF PlcInv, NoAborts, NoAbort
  <2>2. PICK t \in Tag :
          \/ start_op(t, "read") \/ start_op(t, "write")
          \/ SetDirty(t) \/ LockTag(t) \/ RequestAbort(t)
          \/ UnlockTag(t) \/ mb_abort(t) \/ AbortStores(t)
    BY <1>5, Zenon DEF App, AppFinishes
  <2>3. CASE start_op(t, "read") \/ start_op(t, "write")
    BY <2>3, StartOutcome, OutcomeMoves DEF Kinds
  <2>4. CASE SetDirty(t) \/ LockTag(t) \/ UnlockTag(t)
    <3>1. tag' = tag /\ got' = got BY <2>4 DEF SetDirty, LockTag, UnlockTag
    <3> QED BY <3>1, StillMoves
  <2>5. ~RequestAbort(t) /\ ~mb_abort(t) /\ ~AbortStores(t)
    BY <2>1 DEF RequestAbort, mb_abort, AbortStores
  <2> QED BY <2>2, <2>3, <2>4, <2>5
<1>6. CASE PlcAnswers \/ Disconnect
  <2>1. tag' = tag /\ got' = got BY <1>6 DEF PlcAnswers, Disconnect, NetUnchanged
  <2> QED BY <2>1, StillMoves
<1>7. CASE vars' = vars
  <2>1. tag' = tag /\ got' = got BY <1>7 DEF vars
  <2> QED BY <2>1, StillMoves
<1> QED BY <1>1, <1>2, <1>3, <1>4, <1>5, <1>6, <1>7, Zenon DEF Next, Handler

\* Under the same conditions a response only moves the data that its request
\* asked for, to the tag that asked, and a read or a write that ends well has
\* moved every piece of the tag's data, however often the connection broke in
\* between (take_response, check_tag_auto_read, check_tag_auto_write).
THEOREM HandlerTransfers ==
  ASSUME max_requests_in_flight = 1, MaxAborts = 0
  PROVE  Spec => TransfersWhole
<1>1. Init => PlcInv BY PlcInit
<1>2. PlcInv /\ [Next]_vars => PlcInv' BY PlcStep
<1>3. PlcInv /\ [Next]_vars => [Moved]_vars /\ [ReadDone]_vars /\ [WriteDone]_vars
  BY StepMoves
<1>4. Spec => [][Moved]_vars /\ [][ReadDone]_vars /\ [][WriteDone]_vars
  BY <1>1, <1>2, <1>3, PTL DEF Spec
<1> QED BY <1>4 DEF TransfersWhole, DataWhereAsked, ReadIsWhole, WriteIsWhole, Moved, ReadDone, WriteDone
=============================================================================
