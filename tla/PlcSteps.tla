------------------------------ MODULE PlcSteps ------------------------------
(***************************************************************************)
(* The handler of a Modbus PLC, for one request at a time                   *)
(* (max_requests_in_flight = 1, the default) and without plc_tag_abort: the *)
(* inductive invariant PlcInv, what one call of a tag's tickler may do      *)
(* (Outcome), and what that does to each part of the invariant.  PlcProofs  *)
(* has the steps of the handler and the theorems.                           *)
(***************************************************************************)
EXTENDS ModbusPlc, TLAPS

\* Which provers to try on a step that names none, and for how many seconds.
USE SMTT(30), ZenonT(30), Z3T(30)

Kinds == {"read", "write"}
RequestOp(kind) == IF kind = "read" THEN "READ_REQUEST" ELSE "WRITE_REQUEST"
ResponseOp(kind) == IF kind = "read" THEN "READ_RESPONSE" ELSE "WRITE_RESPONSE"

(***************************************************************************)
(* The invariant.  The one request is in the write buffer, at the PLC, on   *)
(* its way back or in the read buffer.                                      *)
(***************************************************************************)
Nothing == wbuf = None /\ atPlc = << >> /\ inbox = << >> /\ rbuf = None

InWbuf(r) == wbuf = r /\ atPlc = << >> /\ inbox = << >> /\ rbuf = None
AtPlc(r) == wbuf = None /\ atPlc = <<r>> /\ inbox = << >> /\ rbuf = None
InInbox(r) == /\ wbuf = None /\ atPlc = << >> /\ rbuf = None
              /\ \E x \in Response : inbox = <<x>> /\ x.req = r
InRbuf(r) == /\ wbuf = None /\ atPlc = << >> /\ inbox = << >>
             /\ rbuf \in Response /\ rbuf.req = r

Holds(r) == InWbuf(r) \/ AtPlc(r) \/ InInbox(r) \/ InRbuf(r)

\* No other tag has a transaction pending or waits for a response.
Only(S) == \A t \in Tag \ S : tag[t].ptid = 0 /\ tag[t].op \notin Waiting

\* The tag of the request waits for it; while the connection is down it may be
\* back in its REQUEST state.
Owns(r) ==
  /\ tag[r.tag].ptid = r.seq /\ tag[r.tag].seq = r.seq /\ tag[r.tag].num = r.num
  /\ \/ tag[r.tag].op = ResponseOp(r.kind)
     \/ state = "CONNECT_START" /\ tag[r.tag].op = RequestOp(r.kind)

Quiet == Nothing /\ count = 0 /\ Only({})
Flying(r) == Holds(r) /\ count = 1 /\ Only({r.tag}) /\ Owns(r)

\* The request is gone and the tag has kept its transaction: the connection was
\* reset after the tag had gone back to its REQUEST state.
Stuck(t) == /\ Nothing /\ count = 1 /\ Only({t})
            /\ tag[t].ptid # 0 /\ tag[t].op \notin Waiting

OneInFlight == Quiet \/ (\E r \in Request : Flying(r)) \/ (\E t \in Tag : Stuck(t))

Typed ==
  /\ seq \in SeqId
  /\ tag \in [Tag -> TagState]
  /\ got \in [Tag -> SUBSET Nat]
  /\ order \in Seq(Tag) /\ Elements(order) = Tag
  /\ pass \in [pc: {"top", "tickle", "deferred", "leftover", "switch"},
               i: Nat \ {0}, last: Nat, deferred: Tag \cup {None}]
  /\ pass.last <= Len(order)

NoAborts ==
  /\ abortReq = [t \in Tag |-> FALSE]
  /\ aborting = [t \in Tag |-> NoAbort]
  /\ aborts = 0

\* What the handler relies on in each state, and that the pass over the tags
\* does not miss the owner of the response.
Handled ==
  /\ state = "SEND_REQUEST" => wbuf # None
  /\ state = "RECEIVE_RESPONSE" => inbox # << >>
  /\ state \in {"CONNECT_WAIT", "ERR_WAIT", "IDLE_WAIT"} => Nothing
  /\ rbuf # None => state = "READY" /\ pass.pc \in {"top", "tickle", "deferred"}

OwnerAhead ==
  /\ rbuf # None /\ pass.pc = "tickle" =>
       \/ pass.deferred = rbuf.req.tag
       \/ pass.deferred = None /\ \E i \in pass.i .. pass.last : order[i] = rbuf.req.tag
  /\ rbuf # None /\ pass.pc = "deferred" => pass.deferred = rbuf.req.tag

\* The chunks before the current one have been moved.
Progress(op, num, data, t) ==
  /\ op = "IDLE" => num = 0
  /\ op # "IDLE" => num < Chunks[t] /\ 0 .. num - 1 \subseteq data /\ data \subseteq 0 .. Chunks[t] - 1
  /\ t \in ReadOnly => op # "WRITE_RESPONSE"
  /\ t \in ReadOnly /\ op = "WRITE_REQUEST" => num = 0

AllProgress == \A t \in Tag : Progress(tag[t].op, tag[t].num, got[t], t)

PlcInv == Typed /\ NoAborts /\ OneInFlight /\ Handled /\ OwnerAhead /\ AllProgress

(***************************************************************************)
(* What one visit of the handler does to a tag: x is its new state, g what   *)
(* has been moved.                                                           *)
(***************************************************************************)
Changes(t, x, g) ==
  /\ x \in TagState /\ g \in SUBSET Nat
  /\ tag' = [tag EXCEPT ![t] = x]
  /\ got' = [got EXCEPT ![t] = g]

Same == count' = count /\ wbuf' = wbuf /\ rbuf' = rbuf

Stays(t, x, g) ==
  /\ x = tag[t] /\ g = got[t] /\ Same /\ seq' = seq
  /\ tag[t].op \in Waiting => rbuf = None /\ state \notin Disconnected

Begins(t, x, g, k) ==
  /\ tag[t].op = "IDLE" /\ x.op = RequestOp(k) /\ g = {}
  /\ x.ptid = tag[t].ptid /\ x.seq = tag[t].seq /\ x.num = tag[t].num
  /\ Same /\ seq' = seq

Refuses(t, x, g) ==
  /\ t \in ReadOnly /\ tag[t].op \in {"IDLE", "WRITE_REQUEST"} /\ count = 0
  /\ x = [tag[t] EXCEPT !.op = "IDLE", !.status = "error"] /\ g \in {{}, got[t]}
  /\ Same /\ seq' \in SeqId

Sends(t, x, g, k) ==
  /\ state = "READY" /\ count = 0 /\ wbuf = None /\ (t \in ReadOnly => k # "write")
  /\ \/ tag[t].op = RequestOp(k) /\ g = got[t]
     \/ tag[t].op = "IDLE" /\ g = {}
  /\ seq' \in SeqId \ {0}
  /\ x = [tag[t] EXCEPT !.seq = seq', !.ptid = seq', !.op = ResponseOp(k)]
  /\ wbuf' = [seq |-> seq', tag |-> t, kind |-> k, num |-> tag[t].num]
  /\ count' = 1 /\ rbuf' = rbuf

Returns(t, x, g, k) ==
  /\ state \in Disconnected /\ tag[t].op = ResponseOp(k)
  /\ x = [tag[t] EXCEPT !.op = RequestOp(k)] /\ g = got[t]
  /\ Same /\ seq' = seq

Goes(t, x, g, k) ==
  /\ rbuf.answer = "ok" /\ tag[t].num + 1 < Chunks[t]
  /\ x.op = RequestOp(k) /\ x.num = tag[t].num + 1 /\ g = got[t] \cup {tag[t].num}

Repeats(t, x, g, k) == rbuf.answer = "ack" /\ x.op = RequestOp(k) /\ x.num = 0 /\ g = got[t]

Ends(t, x, g, k) ==
  /\ rbuf.answer = "ok" => tag[t].num + 1 >= Chunks[t]
  /\ x.op = "IDLE" /\ x.num = 0
  /\ k = "write" /\ x.status = "ok" => rbuf.answer = "ok"
  /\ g = got[t] \cup (IF rbuf.answer = "ok" THEN {tag[t].num} ELSE {})

Takes(t, x, g, k) ==
  /\ tag[t].op = ResponseOp(k) /\ rbuf \in Response /\ state = "READY"
  /\ rbuf.req.tag = t /\ rbuf.req.num = tag[t].num /\ rbuf.req.kind = k
  /\ x.ptid = 0 /\ (Goes(t, x, g, k) \/ Repeats(t, x, g, k) \/ Ends(t, x, g, k))
  /\ count' = 0 /\ wbuf' = wbuf /\ rbuf' = None /\ seq' = seq

Outcome(t, x, g) ==
  /\ Changes(t, x, g)
  /\ \/ Stays(t, x, g) \/ Refuses(t, x, g)
     \/ \E k \in Kinds : Begins(t, x, g, k) \/ Sends(t, x, g, k)
                           \/ Returns(t, x, g, k) \/ Takes(t, x, g, k)

LEMMA NextSeqIsId ==
  ASSUME seq \in SeqId
  PROVE  NextSeq \in SeqId \ {0}
<1>1. IdMod \in Nat /\ IdMod > 2 BY PlcAssumption
<1>2. CASE seq = IdMod - 1
  <2>1. IdMod % IdMod = 0 BY <1>1
  <2> QED BY <1>1, <1>2, <2>1 DEF NextSeq, SeqId
<1>3. CASE seq + 1 < IdMod
  <2>1. (seq + 1) % IdMod = seq + 1 BY <1>1, <1>3 DEF SeqId
  <2> QED BY <1>1, <1>3, <2>1 DEF NextSeq, SeqId
<1> QED BY <1>1, <1>2, <1>3 DEF SeqId

\* A response in the read buffer is that of the only tag that waits.
LEMMA ResponseIsOwn ==
  ASSUME PlcInv, rbuf # None, NEW t \in Tag, tag[t].op \in Waiting
  PROVE  /\ rbuf \in Response /\ state = "READY" /\ count = 1
         /\ rbuf.req.tag = t /\ rbuf.req.num = tag[t].num /\ rbuf.req.seq = tag[t].seq
         /\ tag[t].op = ResponseOp(rbuf.req.kind) /\ rbuf.req.kind \in Kinds
<1>1. PICK r \in Request : Flying(r)
  BY Zenon DEF PlcInv, OneInFlight, Quiet, Stuck, Nothing
<1>2. rbuf \in Response /\ rbuf.req = r
  BY <1>1 DEF Flying, Holds, InWbuf, AtPlc, InInbox, InRbuf
<1>3. r.tag = t
  BY <1>1 DEF Flying, Only
<1>4. r.kind \in Kinds BY DEF Request, Kinds
<1>5. state = "READY" BY DEF PlcInv, Handled
<1> QED BY <1>1, <1>2, <1>3, <1>4, <1>5 DEF Flying, Owns

LEMMA RequestOutcome ==
  ASSUME PlcInv, max_requests_in_flight = 1, NEW t \in Tag, NEW k \in Kinds,
         NEW b, b = [tag[t] EXCEPT !.op = RequestOp(k)], tag[t].op \in {"IDLE", RequestOp(k)},
         NEW g, g = (IF tag[t].op = "IDLE" THEN {} ELSE got[t]), got' = [got EXCEPT ![t] = g],
         tag_op_request(t, b, k), rbuf' = rbuf
  PROVE  \E x, h : Outcome(t, x, h)
<1>1. tag[t] \in TagState /\ got[t] \in SUBSET Nat /\ seq \in SeqId
  BY DEF PlcInv, Typed
<1>2. b \in TagState /\ g \in SUBSET Nat /\ b.num = tag[t].num
  BY <1>1 DEF TagState, Ops, RequestOp
<1>3. count \in {0, 1} /\ max_requests_in_flight = 1
  BY Zenon DEF PlcInv, OneInFlight, Quiet, Flying, Stuck
<1>4. CASE wbuf # None \/ state # "READY" \/ count >= max_requests_in_flight
  <2>1. tag' = [tag EXCEPT ![t] = b] /\ Same /\ seq' = seq
    BY <1>4 DEF tag_op_request, Same
  <2>2. Changes(t, b, g)
    BY <1>2, <2>1 DEF Changes
  <2>3. CASE tag[t].op = "IDLE"
    <3>1. /\ b.op = RequestOp(k) /\ b.ptid = tag[t].ptid /\ b.seq = tag[t].seq
          /\ b.num = tag[t].num
      BY <1>1 DEF TagState
    <3> QED BY <2>1, <2>2, <2>3, <3>1, Zenon DEF Outcome, Begins
  <2>4. CASE tag[t].op = RequestOp(k)
    <3>1. b = tag[t] BY <1>1, <2>4 DEF TagState
    <3>2. tag[t].op # "IDLE" /\ tag[t].op \notin Waiting BY <2>4 DEF RequestOp, Waiting
    <3> QED BY <2>1, <2>2, <3>1, <3>2 DEF Outcome, Stays
  <2> QED BY <2>3, <2>4
<1>5. CASE ~(wbuf # None \/ state # "READY" \/ count >= max_requests_in_flight)
  <2>1. /\ wbuf = None /\ state = "READY" /\ count = 0 /\ seq' = NextSeq
        /\ NextSeq \in SeqId /\ NextSeq # 0
    BY <1>1, <1>3, <1>5, NextSeqIsId DEF tag_op_request
  <2>2. CASE k = "write" /\ t \in ReadOnly
    <3> DEFINE x == [b EXCEPT !.op = "IDLE", !.status = "error"]
    <3>1. tag' = [tag EXCEPT ![t] = x] /\ Same
      BY <1>5, <2>2 DEF tag_op_request, Same
    <3>2. x \in TagState /\ x = [tag[t] EXCEPT !.op = "IDLE", !.status = "error"]
      BY <1>1, <1>2, Zenon DEF TagState, Ops
    <3>3. Changes(t, x, g) BY <1>2, <3>1, <3>2 DEF Changes
    <3>4. Refuses(t, x, g)
      BY <2>1, <2>2, <3>1, <3>2 DEF Refuses, RequestOp
    <3> QED BY <3>3, <3>4 DEF Outcome
  <2>3. CASE ~(k = "write" /\ t \in ReadOnly)
    <3> DEFINE x == [b EXCEPT !.seq = NextSeq, !.ptid = NextSeq, !.op = ResponseOp(k)]
    <3>1. /\ tag' = [tag EXCEPT ![t] = x]
          /\ wbuf' = [seq |-> NextSeq, tag |-> t, kind |-> k, num |-> tag[t].num]
          /\ count' = 1
      BY <1>2, <1>5, <2>1, <2>3 DEF tag_op_request, ResponseOp
    <3>2. x \in TagState
          /\ x = [tag[t] EXCEPT !.seq = NextSeq, !.ptid = NextSeq, !.op = ResponseOp(k)]
      BY <1>1, <1>2, <2>1, Zenon DEF TagState, Ops, ResponseOp
    <3>3. Changes(t, x, g) BY <1>2, <3>1, <3>2 DEF Changes
    <3>4. RequestOp(k) # "IDLE" BY DEF RequestOp
    <3>5. Sends(t, x, g, k)
      BY <2>1, <2>3, <3>1, <3>2, <3>4 DEF Sends
    <3> QED BY <3>3, <3>5 DEF Outcome
  <2> QED BY <2>2, <2>3
<1> QED BY <1>4, <1>5

LEMMA TakeOutcome ==
  ASSUME PlcInv, rbuf # None, NEW t \in Tag, NEW k \in Kinds, tag[t].op = ResponseOp(k),
         NEW done \in {"ok", "error"}, k = "write" /\ done = "ok" => rbuf.answer = "ok",
         take_response(t, tag[t], k, done), seq' = seq, wbuf' = wbuf
  PROVE  \E x, h : Outcome(t, x, h)
<1>1. tag[t] \in TagState /\ got[t] \in SUBSET Nat /\ tag[t].num \in Nat /\ tag[t].seq \in SeqId
  BY DEF PlcInv, Typed, TagState
<1>2. /\ rbuf \in Response /\ state = "READY" /\ count = 1
      /\ rbuf.req.tag = t /\ rbuf.req.num = tag[t].num
      /\ tag[t].op = ResponseOp(rbuf.req.kind) /\ rbuf.req.kind \in Kinds
  BY ResponseIsOwn DEF ResponseOp, Waiting
<1>3. rbuf.req.kind = k
  BY <1>2 DEF Kinds, ResponseOp
<1>4. count' = 0 /\ rbuf' = None
  BY <1>2 DEF take_response, Less
<1>5. 0 \in SeqId /\ Chunks[t] \in Nat
  BY PlcAssumption DEF SeqId
<1> DEFINE sent == {tag[t].num}
<1>6. sent \in SUBSET Nat /\ got[t] \cup sent \in SUBSET Nat /\ got[t] \cup {} = got[t]
  BY <1>1
<1>7. CASE rbuf.answer = "ok" /\ tag[t].num + 1 < Chunks[t]
  <2> DEFINE x == [op |-> RequestOp(k), seq |-> tag[t].seq, ptid |-> 0, num |-> tag[t].num + 1,
                   status |-> "pending"]
  <2>1. tag' = [tag EXCEPT ![t] = x] /\ got' = [got EXCEPT ![t] = got[t] \cup sent]
    BY <1>7 DEF take_response, RequestOp
  <2>2. x \in TagState
    BY <1>1, <1>5 DEF TagState, Ops, RequestOp
  <2>3. Changes(t, x, got[t] \cup sent) BY <1>6, <2>1, <2>2 DEF Changes
  <2>4. Goes(t, x, got[t] \cup sent, k) /\ x.ptid = 0 BY <1>7 DEF Goes
  <2>5. Takes(t, x, got[t] \cup sent, k) BY <1>2, <1>3, <1>4, <2>4 DEF Takes
  <2> QED BY <2>3, <2>5 DEF Outcome
<1>8. CASE rbuf.answer = "ack"
  <2> DEFINE x == [op |-> RequestOp(k), seq |-> 0, ptid |-> 0, num |-> 0, status |-> "error"]
  <2>1. tag' = [tag EXCEPT ![t] = x] /\ got' = got
    BY <1>8 DEF take_response, RequestOp
  <2>2. x \in TagState
    BY <1>1, <1>5 DEF TagState, Ops, RequestOp
  <2>3. Changes(t, x, got[t]) BY <1>6, <2>1, <2>2 DEF Changes, PlcInv, Typed
  <2>4. Repeats(t, x, got[t], k) /\ x.ptid = 0 BY <1>8 DEF Repeats
  <2>5. Takes(t, x, got[t], k) BY <1>2, <1>3, <1>4, <2>4 DEF Takes
  <2> QED BY <2>3, <2>5 DEF Outcome
<1>9. CASE ~(rbuf.answer = "ok" /\ tag[t].num + 1 < Chunks[t]) /\ rbuf.answer # "ack"
  <2> DEFINE x == [op |-> "IDLE", seq |-> 0, ptid |-> 0, num |-> 0, status |-> done]
             g == got[t] \cup (IF rbuf.answer = "ok" THEN sent ELSE {})
  <2>1. tag' = [tag EXCEPT ![t] = x] /\ got' = [got EXCEPT ![t] = g]
    BY <1>9 DEF take_response
  <2>2. x \in TagState /\ g \in SUBSET Nat
    BY <1>1, <1>5, <1>6 DEF TagState, Ops
  <2>3. Changes(t, x, g) BY <2>1, <2>2 DEF Changes
  <2>4. Ends(t, x, g, k) /\ x.ptid = 0 BY <1>1, <1>5, <1>9 DEF Ends
  <2>5. Takes(t, x, g, k) BY <1>2, <1>3, <1>4, <2>4 DEF Takes
  <2> QED BY <2>3, <2>5 DEF Outcome
<1> QED BY <1>7, <1>8, <1>9

\* Every way through tickle_tag, when no abort is requested.
LEMMA TickleOutcome ==
  ASSUME PlcInv, max_requests_in_flight = 1, NEW t \in Tag, tickle_tag(t)
  PROVE  abortReq' = abortReq /\ \E x, g : Outcome(t, x, g)
<1>1. tag \in [Tag -> TagState] /\ got \in [Tag -> SUBSET Nat] /\ ~abortReq[t]
  BY DEF PlcInv, Typed, NoAborts
<1>2. tag[t] \in TagState /\ tag[t].op \in Ops /\ got[t] \in SUBSET Nat
  BY <1>1 DEF TagState
<1>3. PICK op \in OpsToRun(t) :
        /\ CASE op = "IDLE" -> UNCHANGED <<tag, count, seq, wbuf, rbuf, got>>
             [] op \in {"READ_REQUEST", "WRITE_REQUEST"} ->
                  /\ got' = [got EXCEPT ![t] = IF op # tag[t].op THEN {} ELSE @]
                  /\ tag_op_request(t, [tag[t] EXCEPT !.op = op],
                                    IF op = "READ_REQUEST" THEN "read" ELSE "write")
                  /\ UNCHANGED rbuf
             [] op = "READ_RESPONSE" -> /\ tag_op_read_response(t, [tag[t] EXCEPT !.op = op])
                                        /\ UNCHANGED <<seq, wbuf>>
             [] op = "WRITE_RESPONSE" -> /\ tag_op_write_response(t, [tag[t] EXCEPT !.op = op])
                                         /\ UNCHANGED <<seq, wbuf>>
        /\ UNCHANGED abortReq
  BY <1>1, Zenon DEF tickle_tag
<1>4. \/ op = tag[t].op
      \/ tag[t].op = "IDLE" /\ op \in {"READ_REQUEST", "WRITE_REQUEST"}
  BY DEF OpsToRun
<1>5. Changes(t, tag[t], got[t]) <=> tag' = tag /\ got' = got
  BY <1>1, <1>2 DEF Changes
<1>6. CASE op = "IDLE"
  <2>1. tag' = tag /\ got' = got /\ Same /\ seq' = seq BY <1>3, <1>6 DEF Same
  <2>2. tag[t].op = "IDLE" BY <1>4, <1>6
  <2>3. Stays(t, tag[t], got[t]) BY <2>1, <2>2 DEF Stays, Waiting
  <2> QED BY <1>3, <1>5, <2>1, <2>3 DEF Outcome
<1>7. ASSUME NEW k \in Kinds, op = RequestOp(k) PROVE \E x, g : Outcome(t, x, g)
  <2> DEFINE b == [tag[t] EXCEPT !.op = op]
             g == IF tag[t].op = "IDLE" THEN {} ELSE got[t]
  <2>1. /\ op \in {"READ_REQUEST", "WRITE_REQUEST"} /\ op # "IDLE"
        /\ k = IF op = "READ_REQUEST" THEN "read" ELSE "write"
    BY <1>7 DEF RequestOp, Kinds
  <2>2. /\ got' = [got EXCEPT ![t] = IF op # tag[t].op THEN {} ELSE got[t]]
        /\ tag_op_request(t, b, k) /\ rbuf' = rbuf
    BY <1>3, <2>1, Zenon
  <2>3. tag[t].op \in {"IDLE", RequestOp(k)} BY <1>4, <1>7, <2>1
  <2>4. (op # tag[t].op) <=> tag[t].op = "IDLE" BY <1>4, <2>1
  <2>5. got' = [got EXCEPT ![t] = g] BY <2>2, <2>4, Zenon
  <2>6. b = [tag[t] EXCEPT !.op = RequestOp(k)] BY <1>7
  <2> HIDE DEF b, g
  <2>7. g = IF tag[t].op = "IDLE" THEN {} ELSE got[t] BY DEF g
  <2> QED BY <2>2, <2>3, <2>5, <2>6, <2>7, RequestOutcome, Zenon
<1>8. ASSUME NEW k \in Kinds, op = ResponseOp(k) PROVE \E x, g : Outcome(t, x, g)
  <2>1. tag[t].op = op /\ op \in Waiting BY <1>4, <1>8 DEF ResponseOp, Waiting
  <2>2. [tag[t] EXCEPT !.op = op] = tag[t] BY <1>2, <2>1 DEF TagState
  <2>3. /\ k = "read" => tag_op_read_response(t, tag[t])
        /\ k = "write" => tag_op_write_response(t, tag[t])
        /\ seq' = seq /\ wbuf' = wbuf
    BY <1>3, <1>8, <2>2, Zenon DEF ResponseOp, Kinds
  <2>4. CASE state \in Disconnected
    <3> DEFINE x == [tag[t] EXCEPT !.op = RequestOp(k)]
    <3>1. tag' = [tag EXCEPT ![t] = x] /\ got' = got /\ count' = count /\ rbuf' = rbuf
      BY <2>3, <2>4 DEF tag_op_read_response, tag_op_write_response, RequestOp, Kinds
    <3>2. x \in TagState BY <1>2 DEF TagState, RequestOp, Ops
    <3>3. Changes(t, x, got[t]) BY <1>1, <1>2, <3>1, <3>2 DEF Changes
    <3>4. Returns(t, x, got[t], k)
      BY <1>8, <2>1, <2>3, <2>4, <3>1 DEF Returns, Same
    <3> QED BY <3>3, <3>4 DEF Outcome
  <2>5. CASE state \notin Disconnected /\ rbuf = None
    <3>1. tag' = tag /\ got' = got /\ count' = count /\ rbuf' = rbuf
      BY <2>3, <2>5 DEF tag_op_read_response, tag_op_write_response, Kinds
    <3>2. Stays(t, tag[t], got[t]) BY <2>3, <2>5, <3>1 DEF Stays, Same
    <3> QED BY <1>5, <3>1, <3>2 DEF Outcome
  <2>6. CASE state \notin Disconnected /\ rbuf # None
    <3>1. rbuf.req.seq = tag[t].seq BY <2>1, <2>6, ResponseIsOwn
    <3>2. CASE k = "read"
      <4>1. take_response(t, tag[t], "read", "ok")
        BY <2>3, <2>6, <3>1, <3>2 DEF tag_op_read_response
      <4> QED BY <1>8, <2>1, <2>3, <2>6, <3>2, <4>1, TakeOutcome
    <3>3. CASE k = "write"
      <4> DEFINE done == IF rbuf.answer = "ok" THEN "ok" ELSE "error"
      <4>1. take_response(t, tag[t], "write", done)
        BY <2>3, <2>6, <3>1, <3>3 DEF tag_op_write_response
      <4>2. done \in {"ok", "error"} /\ (done = "ok" => rbuf.answer = "ok") OBVIOUS
      <4> HIDE DEF done
      <4> QED BY <1>8, <2>1, <2>3, <2>6, <3>3, <4>1, <4>2, TakeOutcome
    <3> QED BY <3>2, <3>3 DEF Kinds
  <2> QED BY <2>4, <2>5, <2>6
<1>9. op \in Ops BY <1>2, <1>4 DEF Ops
<1>10. op = "IDLE" \/ \E k \in Kinds : op = RequestOp(k) \/ op = ResponseOp(k)
  BY <1>9 DEF Ops, Kinds, RequestOp, ResponseOp
<1> QED BY <1>3, <1>6, <1>7, <1>8, <1>10

LEMMA OutcomeTyped ==
  ASSUME PlcInv, NEW t \in Tag, NEW x, NEW g, Outcome(t, x, g)
  PROVE  /\ x \in TagState /\ g \in SUBSET Nat
         /\ tag' \in [Tag -> TagState] /\ got' \in [Tag -> SUBSET Nat] /\ seq' \in SeqId
         /\ tag'[t] = x /\ got'[t] = g
         /\ \A u \in Tag \ {t} : tag'[u] = tag[u] /\ got'[u] = got[u]
<1>1. tag \in [Tag -> TagState] /\ got \in [Tag -> SUBSET Nat] /\ seq \in SeqId
  BY DEF PlcInv, Typed
<1>2. Changes(t, x, g) BY DEF Outcome
<1>3. seq' \in SeqId
  BY <1>1, Zenon DEF Outcome, Stays, Begins, Refuses, Sends, Returns, Takes
<1> QED BY <1>1, <1>2, <1>3 DEF Changes

\* The tag of a request does not go back to the beginning of it while the
\* request is out.
LEMMA OutcomeFlight ==
  ASSUME PlcInv, NEW t \in Tag, NEW x, NEW g, Outcome(t, x, g),
         state' = state, atPlc' = atPlc, inbox' = inbox
  PROVE  OneInFlight'
<1>1. /\ tag[t] \in TagState /\ tag'[t] = x /\ x \in TagState
      /\ \A u \in Tag \ {t} : tag'[u] = tag[u]
  BY OutcomeTyped DEF PlcInv, Typed
<1>2. \A k \in Kinds : /\ RequestOp(k) \notin Waiting /\ RequestOp(k) # "IDLE"
                       /\ ResponseOp(k) \in Waiting /\ ResponseOp(k) # RequestOp(k)
  BY DEF RequestOp, ResponseOp, Waiting
<1>3. "IDLE" \notin Waiting BY DEF Waiting
<1>4. ASSUME Stays(t, x, g) PROVE OneInFlight'
  <2>1. \A u \in Tag : tag'[u] = tag[u] BY <1>1, <1>4 DEF Stays
  <2>2. Nothing' = Nothing /\ count' = count BY <1>4 DEF Stays, Same, Nothing
  <2>3. Quiet => Quiet' BY <2>1, <2>2 DEF Quiet, Only
  <2>4. ASSUME NEW r \in Request, Flying(r) PROVE Flying(r)'
    <3>1. Holds(r)' BY <1>4, <2>4 DEF Stays, Same, Flying, Holds, InWbuf, AtPlc, InInbox, InRbuf
    <3>2. r.tag \in Tag BY DEF Request
    <3> QED BY <2>1, <2>2, <2>4, <3>1, <3>2 DEF Flying, Only, Owns
  <2>5. ASSUME NEW u \in Tag, Stuck(u) PROVE Stuck(u)'
    BY <2>1, <2>2, <2>5 DEF Stuck, Only
  <2> QED BY <2>3, <2>4, <2>5 DEF PlcInv, OneInFlight
<1>5. ASSUME NEW k \in Kinds, Begins(t, x, g, k) PROVE OneInFlight'
  <2>1. x.ptid = tag[t].ptid /\ x.op = RequestOp(k) /\ tag[t].op = "IDLE" /\ x.op \notin Waiting
    BY <1>1, <1>2, <1>5 DEF Begins, TagState
  <2>2. Nothing' = Nothing /\ count' = count BY <1>5 DEF Begins, Same, Nothing
  <2>3. Quiet => Quiet' BY <1>1, <2>1, <2>2 DEF Quiet, Only
  <2>4. ASSUME NEW r \in Request, Flying(r) PROVE Flying(r)'
    <3>1. Holds(r)' BY <1>5, <2>4 DEF Begins, Same, Flying, Holds, InWbuf, AtPlc, InInbox, InRbuf
    <3>2. r.tag \in Tag /\ r.kind \in Kinds BY DEF Request, Kinds
    <3>3. r.tag # t BY <1>2, <1>3, <2>1, <2>4, <3>2 DEF Flying, Owns
    <3> QED BY <1>1, <2>1, <2>2, <2>4, <3>1, <3>2, <3>3 DEF Flying, Only, Owns
  <2>5. ASSUME NEW u \in Tag, Stuck(u) PROVE Stuck(u)'
    BY <1>1, <2>1, <2>2, <2>5 DEF Stuck, Only
  <2> QED BY <2>3, <2>4, <2>5 DEF PlcInv, OneInFlight
<1>6. ASSUME count = 0 PROVE Quiet
  BY <1>6 DEF PlcInv, OneInFlight, Flying, Stuck
<1>7. ASSUME Refuses(t, x, g) PROVE OneInFlight'
  <2>1. x.ptid = tag[t].ptid /\ x.op = "IDLE" /\ count = 0 /\ Same
    BY <1>1, <1>7 DEF Refuses, TagState
  <2>2. Quiet' BY <1>1, <1>3, <1>6, <2>1 DEF Quiet, Only, Same, Nothing
  <2> QED BY <2>2 DEF OneInFlight
<1>8. ASSUME NEW k \in Kinds, Sends(t, x, g, k) PROVE OneInFlight'
  <2>1. /\ x.ptid = seq' /\ x.seq = seq' /\ x.op = ResponseOp(k) /\ x.num = tag[t].num
        /\ wbuf' = [seq |-> seq', tag |-> t, kind |-> k, num |-> tag[t].num]
        /\ count = 0 /\ count' = 1 /\ rbuf' = rbuf /\ seq' \in SeqId \ {0} /\ tag[t].num \in Nat
    BY <1>1, <1>8 DEF Sends, TagState
  <2>2. PICK r : r = wbuf' OBVIOUS
  <2>3. r \in Request /\ r.tag = t /\ r.seq = seq' /\ r.kind = k /\ r.num = tag[t].num
    BY <2>1, <2>2 DEF Request, Kinds
  <2>4. Quiet BY <1>6, <2>1
  <2>5. Holds(r)' BY <2>1, <2>4, <2>2 DEF Quiet, Nothing, Holds, InWbuf
  <2>6. Only({t})' BY <1>1, <2>4 DEF Quiet, Only
  <2>7. Owns(r)' BY <1>1, <2>1, <2>3 DEF Owns
  <2>8. Flying(r)' BY <2>1, <2>3, <2>5, <2>6, <2>7 DEF Flying
  <2> QED BY <2>3, <2>8 DEF OneInFlight
<1>9. ASSUME NEW k \in Kinds, Returns(t, x, g, k) PROVE OneInFlight'
  <2>1. /\ tag[t].op = ResponseOp(k) /\ x.op = RequestOp(k) /\ x.ptid = tag[t].ptid
        /\ x.seq = tag[t].seq /\ x.num = tag[t].num /\ Same /\ state \in Disconnected
    BY <1>1, <1>9 DEF Returns, TagState
  <2>2. PICK r \in Request : Flying(r)
    BY <1>2, <2>1, Zenon DEF PlcInv, OneInFlight, Quiet, Stuck, Only
  <2>3. r.tag = t /\ r.kind \in Kinds
    BY <1>2, <2>1, <2>2 DEF Flying, Only, Request, Kinds
  <2>4. r.kind = k
    BY <2>1, <2>2, <2>3 DEF Flying, Owns, Kinds, RequestOp, ResponseOp
  <2>5. ~Nothing
    <3>1. None # r /\ None \notin Response BY NoneAssumption
    <3> QED BY <2>2, <3>1 DEF Flying, Holds, InWbuf, AtPlc, InInbox, InRbuf, Nothing
  <2>6. state = "CONNECT_START"
    BY <2>1, <2>5 DEF PlcInv, Handled, Disconnected
  <2>7. Holds(r)' BY <2>1, <2>2 DEF Same, Flying, Holds, InWbuf, AtPlc, InInbox, InRbuf
  <2>8. Only({r.tag})' BY <1>1, <2>2, <2>3 DEF Flying, Only
  <2>9. Owns(r)'
    <3>1. tag[t].ptid = r.seq /\ tag[t].seq = r.seq /\ tag[t].num = r.num
      BY <2>2, <2>3 DEF Flying, Owns
    <3> QED BY <1>1, <2>1, <2>3, <2>4, <2>6, <3>1 DEF Owns
  <2>10. Flying(r)' BY <2>1, <2>2, <2>7, <2>8, <2>9 DEF Flying, Same
  <2> QED BY <2>10 DEF OneInFlight
<1>10. ASSUME NEW k \in Kinds, Takes(t, x, g, k) PROVE OneInFlight'
  <2>1. /\ tag[t].op = ResponseOp(k) /\ x.op \notin Waiting /\ x.ptid = 0
        /\ count' = 0 /\ wbuf' = wbuf /\ rbuf' = None /\ rbuf \in Response
    BY <1>2, <1>3, <1>10 DEF Takes, Goes, Repeats, Ends
  <2>2. PICK r \in Request : Flying(r)
    BY <1>2, <2>1, Zenon DEF PlcInv, OneInFlight, Quiet, Stuck, Only
  <2>3. r.tag = t
    BY <1>2, <2>1, <2>2 DEF Flying, Only
  <2>4. rbuf # None BY <2>1, NoneAssumption
  <2>5. Nothing'
    BY <2>1, <2>2, <2>4 DEF Flying, Holds, InWbuf, AtPlc, InInbox, InRbuf, Nothing
  <2>6. Only({})' BY <1>1, <2>1, <2>2, <2>3 DEF Flying, Only
  <2> QED BY <2>1, <2>5, <2>6 DEF Quiet, OneInFlight
<1> QED BY <1>4, <1>5, <1>7, <1>8, <1>9, <1>10, Zenon DEF Outcome

LEMMA OutcomeProgress ==
  ASSUME PlcInv, NEW t \in Tag, NEW x, NEW g, Outcome(t, x, g)
  PROVE  AllProgress'
<1>1. /\ tag[t] \in TagState /\ x \in TagState /\ g \in SUBSET Nat
      /\ tag'[t] = x /\ got'[t] = g
      /\ \A u \in Tag \ {t} : tag'[u] = tag[u] /\ got'[u] = got[u]
  BY OutcomeTyped DEF PlcInv, Typed
<1>2. tag[t].num \in Nat /\ x.num \in Nat /\ Chunks[t] \in Nat /\ Chunks[t] > 0
  BY <1>1, PlcAssumption DEF TagState
<1>3. Progress(tag[t].op, tag[t].num, got[t], t) BY DEF PlcInv, AllProgress
<1>4. \A k \in Kinds : /\ RequestOp(k) # "IDLE" /\ ResponseOp(k) # "IDLE"
                       /\ RequestOp(k) # "WRITE_RESPONSE"
                       /\ RequestOp(k) = "WRITE_REQUEST" <=> k = "write"
                       /\ ResponseOp(k) = "WRITE_RESPONSE" <=> k = "write"
                       /\ ResponseOp(k) # "WRITE_REQUEST"
  BY DEF RequestOp, ResponseOp, Kinds
<1>5. ASSUME Stays(t, x, g) PROVE Progress(x.op, x.num, g, t)
  BY <1>3, <1>5 DEF Stays
<1>6. ASSUME NEW k \in Kinds, Begins(t, x, g, k) PROVE Progress(x.op, x.num, g, t)
  <2>1. x.op = RequestOp(k) /\ x.num = tag[t].num /\ tag[t].op = "IDLE" /\ g = {}
    BY <1>1, <1>6 DEF Begins, TagState
  <2>2. x.num = 0 BY <1>3, <2>1 DEF Progress
  <2> QED BY <1>2, <1>4, <2>1, <2>2 DEF Progress
<1>7. ASSUME Refuses(t, x, g) PROVE Progress(x.op, x.num, g, t)
  <2>1. x.op = "IDLE" /\ x.num = tag[t].num /\ tag[t].op \in {"IDLE", "WRITE_REQUEST"} /\ t \in ReadOnly
    BY <1>1, <1>7 DEF Refuses, TagState
  <2>2. x.num = 0 BY <1>3, <2>1 DEF Progress
  <2> QED BY <2>1, <2>2 DEF Progress
<1>8. ASSUME NEW k \in Kinds, Sends(t, x, g, k) PROVE Progress(x.op, x.num, g, t)
  <2>1. x.op = ResponseOp(k) /\ x.num = tag[t].num /\ (t \in ReadOnly => k # "write")
    BY <1>1, <1>8 DEF Sends, TagState
  <2>2. CASE tag[t].op = RequestOp(k) /\ g = got[t]
    BY <1>3, <1>4, <2>1, <2>2 DEF Progress
  <2>3. CASE tag[t].op = "IDLE" /\ g = {}
    <3>1. x.num = 0 BY <1>3, <2>1, <2>3 DEF Progress
    <3> QED BY <1>2, <1>4, <2>1, <2>3, <3>1 DEF Progress
  <2> QED BY <1>8, <2>2, <2>3 DEF Sends
<1>9. ASSUME NEW k \in Kinds, Returns(t, x, g, k) PROVE Progress(x.op, x.num, g, t)
  <2>1. x.op = RequestOp(k) /\ x.num = tag[t].num /\ g = got[t] /\ tag[t].op = ResponseOp(k)
    BY <1>1, <1>9 DEF Returns, TagState
  <2> QED BY <1>3, <1>4, <2>1 DEF Progress
<1>10. ASSUME NEW k \in Kinds, Takes(t, x, g, k) PROVE Progress(x.op, x.num, g, t)
  <2>1. tag[t].op = ResponseOp(k) /\ (Goes(t, x, g, k) \/ Repeats(t, x, g, k) \/ Ends(t, x, g, k))
    BY <1>10 DEF Takes
  <2>2. /\ tag[t].num < Chunks[t] /\ 0 .. tag[t].num - 1 \subseteq got[t]
        /\ got[t] \subseteq 0 .. Chunks[t] - 1 /\ (t \in ReadOnly => k # "write")
    BY <1>3, <1>4, <2>1, Zenon DEF Progress
  <2>3. CASE Goes(t, x, g, k)
    <3>1. /\ x.op = RequestOp(k) /\ x.num = tag[t].num + 1 /\ x.num < Chunks[t]
          /\ g = got[t] \cup {tag[t].num}
      BY <2>3 DEF Goes
    <3>2. 0 .. x.num - 1 \subseteq g BY <1>2, <2>2, <3>1
    <3>3. g \subseteq 0 .. Chunks[t] - 1 BY <1>2, <2>2, <3>1
    <3> QED BY <1>4, <2>2, <3>1, <3>2, <3>3 DEF Progress
  <2>4. CASE Repeats(t, x, g, k)
    <3>1. x.op = RequestOp(k) /\ x.num = 0 /\ g = got[t] BY <2>4 DEF Repeats
    <3> QED BY <1>2, <1>4, <2>2, <3>1 DEF Progress
  <2>5. CASE Ends(t, x, g, k)
    BY <2>5 DEF Ends, Progress
  <2> QED BY <2>1, <2>3, <2>4, <2>5, Zenon
<1>11. Progress(x.op, x.num, g, t)
  BY <1>5, <1>6, <1>7, <1>8, <1>9, <1>10, Zenon DEF Outcome
<1> QED BY <1>1, <1>11, Zenon DEF AllProgress, PlcInv

\* The read buffer is emptied by the tag whose response it holds, and only then.
LEMMA OutcomeBuffers ==
  ASSUME PlcInv, NEW t \in Tag, NEW x, NEW g, Outcome(t, x, g)
  PROVE  /\ rbuf' # None => rbuf' = rbuf
         /\ rbuf # None /\ rbuf.req.tag = t => rbuf' = None
         /\ tag[t].op \in Waiting /\ tag'[t].op = "IDLE" => rbuf' = None
         /\ wbuf' = wbuf \/ (state = "READY" /\ wbuf' # None)
         /\ rbuf' = rbuf \/ state = "READY"
<1>1. tag'[t] = x /\ tag[t] \in TagState /\ x \in TagState
  BY OutcomeTyped DEF PlcInv, Typed
<1>2. \A k \in Kinds : /\ RequestOp(k) \notin Waiting /\ RequestOp(k) # "IDLE"
                       /\ ResponseOp(k) \in Waiting /\ ResponseOp(k) # "IDLE"
  BY DEF RequestOp, ResponseOp, Waiting
<1>3. ASSUME rbuf # None, rbuf.req.tag = t
      PROVE  tag[t].op \in Waiting /\ state = "READY" /\ count = 1
  <2>1. PICK r \in Request : Flying(r)
    BY <1>3, Zenon DEF PlcInv, OneInFlight, Quiet, Stuck, Nothing
  <2>2. rbuf.req = r /\ r.kind \in Kinds
    BY <1>3, <2>1 DEF Flying, Holds, InWbuf, AtPlc, InInbox, InRbuf, Request, Kinds
  <2>3. state = "READY" BY <1>3 DEF PlcInv, Handled
  <2> QED BY <1>2, <1>3, <2>1, <2>2, <2>3 DEF Flying, Owns
<1>4. "IDLE" \notin Waiting BY DEF Waiting
<1>5. CASE Stays(t, x, g)
  BY <1>1, <1>3, <1>4, <1>5 DEF Stays, Same
<1>6. ASSUME NEW k \in Kinds, Begins(t, x, g, k)
      PROVE  Same /\ tag[t].op \notin Waiting
  BY <1>4, <1>6 DEF Begins
<1>7. ASSUME Refuses(t, x, g) PROVE Same /\ tag[t].op \notin Waiting
  BY <1>7 DEF Refuses, Waiting
<1>8. ASSUME NEW k \in Kinds, Sends(t, x, g, k)
      PROVE  /\ rbuf' = rbuf /\ tag[t].op \notin Waiting /\ state = "READY" /\ wbuf' # None
  <2>1. wbuf' \in Request
    BY <1>1, <1>8 DEF Sends, Request, TagState, Kinds
  <2> QED BY <1>2, <1>4, <1>8, <2>1, NoneAssumption DEF Sends
<1>9. ASSUME NEW k \in Kinds, Returns(t, x, g, k)
      PROVE  Same /\ x.op # "IDLE" /\ state # "READY"
  BY <1>1, <1>2, <1>9 DEF Returns, Disconnected, TagState
<1>10. ASSUME NEW k \in Kinds, Takes(t, x, g, k)
       PROVE  rbuf' = None /\ wbuf' = wbuf /\ state = "READY"
  BY <1>10 DEF Takes
<1>11. CASE Refuses(t, x, g)
  BY <1>3, <1>7, <1>11 DEF Same
<1>12. CASE \E k \in Kinds : Begins(t, x, g, k) \/ Sends(t, x, g, k)
                               \/ Returns(t, x, g, k) \/ Takes(t, x, g, k)
  BY <1>1, <1>3, <1>6, <1>8, <1>9, <1>10, <1>12 DEF Same
<1> QED BY <1>5, <1>11, <1>12, Zenon DEF Outcome

(***************************************************************************)
(* The steps that leave the tags alone.                                     *)
(***************************************************************************)
LEMMA SameFlight ==
  ASSUME PlcInv, tag' = tag, count' = count, wbuf' = wbuf, rbuf' = rbuf, atPlc' = atPlc,
         inbox' = inbox, state' = state \/ state # "CONNECT_START"
  PROVE  OneInFlight'
<1>1. Nothing' = Nothing BY DEF Nothing
<1>2. Quiet => Quiet' BY <1>1 DEF Quiet, Only
<1>3. \A t \in Tag : Stuck(t) => Stuck(t)' BY <1>1 DEF Stuck, Only
<1>4. ASSUME NEW r \in Request, Flying(r) PROVE Flying(r)'
  <2>1. Holds(r)' BY <1>4 DEF Flying, Holds, InWbuf, AtPlc, InInbox, InRbuf
  <2>2. Only({r.tag})' BY <1>4 DEF Flying, Only
  <2>3. Owns(r)' BY <1>4 DEF Flying, Owns
  <2> QED BY <1>4, <2>1, <2>2, <2>3 DEF Flying
<1> QED BY <1>2, <1>3, <1>4, Zenon DEF PlcInv, OneInFlight

LEMMA SameAborts ==
  ASSUME PlcInv, abortReq' = abortReq, aborting' = aborting, aborts' = aborts
  PROVE  NoAborts'
BY DEF PlcInv, NoAborts

LEMMA SameProgress ==
  ASSUME PlcInv, tag' = tag, got' = got
  PROVE  AllProgress'
BY DEF PlcInv, AllProgress

\* The owner of the response is one of the tags of the PLC.
LEMMA ResponseHasOwner ==
  ASSUME PlcInv, rbuf # None
  PROVE  /\ rbuf \in Response /\ rbuf.req \in Request /\ rbuf.req.tag \in Tag
         /\ Flying(rbuf.req)
         /\ \A t \in Tag : tag[t].ptid = rbuf.req.seq <=> t = rbuf.req.tag
<1>1. PICK r \in Request : Flying(r)
  BY Zenon DEF PlcInv, OneInFlight, Quiet, Stuck, Nothing
<1>2. rbuf \in Response /\ rbuf.req = r
  BY <1>1 DEF Flying, Holds, InWbuf, AtPlc, InInbox, InRbuf
<1>3. r.tag \in Tag /\ r.seq # 0 BY DEF Request
<1>4. \A t \in Tag : tag[t].ptid = r.seq <=> t = r.tag
  BY <1>1, <1>3 DEF Flying, Only, Owns
<1> QED BY <1>1, <1>2, <1>3, <1>4
LEMMA BeginPassKeepsInv ==
  ASSUME PlcInv, BeginPass
  PROVE  PlcInv'
<1>1. /\ tag' = tag /\ count' = count /\ wbuf' = wbuf /\ rbuf' = rbuf /\ atPlc' = atPlc
      /\ inbox' = inbox /\ state' = state /\ got' = got /\ order' = order /\ seq' = seq
      /\ abortReq' = abortReq /\ aborting' = aborting /\ aborts' = aborts
      /\ pass' = [pc |-> "tickle", i |-> 1, last |-> Len(order), deferred |-> None]
  BY Zenon DEF BeginPass, appVars, netVars, bounds
<1>2. /\ pass'.pc = "tickle" /\ pass'.i = 1 /\ pass'.last = Len(order) /\ pass'.deferred = None
  BY <1>1
<1>3. Typed' BY <1>1, <1>2 DEF PlcInv, Typed
<1>4. OneInFlight' BY <1>1, SameFlight
<1>5. NoAborts' /\ AllProgress' BY <1>1, SameAborts, SameProgress
<1>6. Handled' BY <1>1, <1>2 DEF PlcInv, Handled, Nothing
<1>7. OwnerAhead'
  <2>1. rbuf # None => rbuf.req.tag \in Elements(order)
    BY ResponseHasOwner DEF PlcInv, Typed
  <2>2. rbuf # None => \E i \in 1 .. Len(order) : order[i] = rbuf.req.tag
    BY <2>1 DEF Elements
  <2> QED BY <1>1, <1>2, <2>2 DEF OwnerAhead
<1> QED BY <1>3, <1>4, <1>5, <1>6, <1>7, Zenon DEF PlcInv

LEMMA SkipLockedKeepsInv ==
  ASSUME PlcInv, SkipLocked
  PROVE  PlcInv'
<1> DEFINE t == order[pass.i]
<1>1. /\ tag' = tag /\ count' = count /\ wbuf' = wbuf /\ rbuf' = rbuf /\ atPlc' = atPlc
      /\ inbox' = inbox /\ state' = state /\ got' = got /\ order' = order /\ seq' = seq
      /\ abortReq' = abortReq /\ aborting' = aborting /\ aborts' = aborts
      /\ pass.pc = "tickle" /\ pass.i <= pass.last
      /\ pass' = [pass EXCEPT !.i = @ + 1,
                    !.deferred = IF @ = None /\ rbuf # None /\ tag[t].ptid = rbuf.req.seq
                                   THEN t ELSE @]
  BY DEF SkipLocked, appVars, netVars, bounds, plcVars
<1>2. /\ pass \in [pc: {"top", "tickle", "deferred", "leftover", "switch"},
                    i: Nat \ {0}, last: Nat, deferred: Tag \cup {None}]
      /\ order \in Seq(Tag) /\ pass.last <= Len(order)
  BY DEF PlcInv, Typed
<1>3. t \in Tag BY <1>1, <1>2
<1> HIDE DEF t
<1>4. /\ pass'.pc = "tickle" /\ pass'.i = pass.i + 1 /\ pass'.last = pass.last
      /\ pass'.deferred = IF pass.deferred = None /\ rbuf # None /\ tag[t].ptid = rbuf.req.seq
                            THEN t ELSE pass.deferred
      /\ pass' \in [pc: {"top", "tickle", "deferred", "leftover", "switch"},
                    i: Nat \ {0}, last: Nat, deferred: Tag \cup {None}]
  <2> DEFINE d == IF pass.deferred = None /\ rbuf # None /\ tag[t].ptid = rbuf.req.seq
                    THEN t ELSE pass.deferred
  <2>1. d \in Tag \cup {None} BY <1>2, <1>3
  <2>2. pass' = [pass EXCEPT !.i = pass.i + 1, !.deferred = d] BY <1>1, Zenon
  <2>3. pass.i + 1 \in Nat \ {0} BY <1>2
  <2> HIDE DEF d
  <2>4. /\ pass'.pc = "tickle" /\ pass'.i = pass.i + 1 /\ pass'.last = pass.last
        /\ pass'.deferred = d
        /\ pass' \in [pc: {"top", "tickle", "deferred", "leftover", "switch"},
                      i: Nat \ {0}, last: Nat, deferred: Tag \cup {None}]
    BY <1>1, <1>2, <2>1, <2>2, <2>3, Zenon
  <2> QED BY <2>4 DEF d
<1>5. Typed' BY <1>1, <1>4 DEF PlcInv, Typed
<1>6. OneInFlight' BY <1>1, SameFlight
<1>7. NoAborts' /\ AllProgress' BY <1>1, SameAborts, SameProgress
<1>8. Handled' BY <1>1, <1>4 DEF PlcInv, Handled, Nothing
<1>9. OwnerAhead'
  <2> SUFFICES ASSUME rbuf # None
               PROVE  \/ pass'.deferred = rbuf.req.tag
                      \/ /\ pass'.deferred = None
                         /\ \E i \in pass.i + 1 .. pass.last : order[i] = rbuf.req.tag
    BY <1>1, <1>4 DEF OwnerAhead
  <2>1. tag[t].ptid = rbuf.req.seq <=> t = rbuf.req.tag BY <1>3, ResponseHasOwner
  <2>2. \/ pass.deferred = rbuf.req.tag
        \/ pass.deferred = None /\ \E i \in pass.i .. pass.last : order[i] = rbuf.req.tag
    BY <1>1 DEF PlcInv, OwnerAhead
  <2>3. rbuf.req.tag # None BY ResponseHasOwner, PlcAssumption
  <2>4. CASE t = rbuf.req.tag BY <1>4, <2>1, <2>2, <2>4
  <2>5. CASE t # rbuf.req.tag
    <3>1. pass'.deferred = pass.deferred BY <1>4, <2>1, <2>5
    <3>2. \A i \in pass.i .. pass.last : i = pass.i \/ i \in pass.i + 1 .. pass.last
      BY <1>2
    <3> QED BY <2>2, <2>5, <3>1, <3>2 DEF t
  <2> QED BY <2>4, <2>5
<1> QED BY <1>5, <1>6, <1>7, <1>8, <1>9, Zenon DEF PlcInv

LEMMA EndPassKeepsInv ==
  ASSUME PlcInv, EndPass
  PROVE  PlcInv'
<1>1. /\ tag' = tag /\ wbuf' = wbuf /\ atPlc' = atPlc
      /\ inbox' = inbox /\ state' = state /\ got' = got /\ order' = order /\ seq' = seq
      /\ abortReq' = abortReq /\ aborting' = aborting /\ aborts' = aborts
      /\ pass.pc = "tickle" /\ pass.i > pass.last
      /\ pass' = [pass EXCEPT !.pc = IF pass.deferred = None THEN "switch" ELSE "deferred"]
  BY DEF EndPass, appVars, netVars, bounds, plcVars
<1>2. /\ pass \in [pc: {"top", "tickle", "deferred", "leftover", "switch"},
                    i: Nat \ {0}, last: Nat, deferred: Tag \cup {None}]
  BY DEF PlcInv, Typed
<1>3. /\ pass'.pc = (IF pass.deferred = None THEN "switch" ELSE "deferred")
      /\ pass'.i = pass.i /\ pass'.last = pass.last /\ pass'.deferred = pass.deferred
      /\ pass' \in [pc: {"top", "tickle", "deferred", "leftover", "switch"},
                    i: Nat \ {0}, last: Nat, deferred: Tag \cup {None}]
  BY <1>1, <1>2
<1>4. rbuf # None => pass.deferred = rbuf.req.tag /\ pass.deferred # None
  <2> SUFFICES ASSUME rbuf # None PROVE pass.deferred = rbuf.req.tag /\ pass.deferred # None
    OBVIOUS
  <2>1. pass.i .. pass.last = {} BY <1>1, <1>2
  <2>2. pass.deferred = rbuf.req.tag BY <1>1, <2>1 DEF PlcInv, OwnerAhead
  <2> QED BY <2>2, ResponseHasOwner, PlcAssumption
<1>5. rbuf' = rbuf /\ count' = count BY <1>4 DEF EndPass, Discard
<1>6. Typed' BY <1>1, <1>3 DEF PlcInv, Typed
<1>7. OneInFlight' BY <1>1, <1>5, SameFlight
<1>8. NoAborts' /\ AllProgress' BY <1>1, SameAborts, SameProgress
<1>9. Handled' BY <1>1, <1>3, <1>4, <1>5 DEF PlcInv, Handled, Nothing
<1>10. OwnerAhead' BY <1>1, <1>3, <1>4, <1>5 DEF OwnerAhead
<1> QED BY <1>6, <1>7, <1>8, <1>9, <1>10, Zenon DEF PlcInv

LEMMA LeftoverKeepsInv ==
  ASSUME PlcInv, Leftover
  PROVE  PlcInv'
<1>1. /\ tag' = tag /\ wbuf' = wbuf /\ atPlc' = atPlc
      /\ inbox' = inbox /\ state' = state /\ got' = got /\ order' = order /\ seq' = seq
      /\ abortReq' = abortReq /\ aborting' = aborting /\ aborts' = aborts
      /\ pass.pc = "leftover" /\ pass' = [pass EXCEPT !.pc = "switch", !.deferred = None]
  BY DEF Leftover, appVars, netVars, bounds, plcVars
<1>2. rbuf = None BY <1>1 DEF PlcInv, Handled
<1>3. rbuf' = None /\ count' = count BY <1>2 DEF Leftover, Discard
<1>4. Typed' BY <1>1, Zenon DEF PlcInv, Typed
<1>5. OneInFlight' BY <1>1, <1>2, <1>3, SameFlight
<1>6. NoAborts' /\ AllProgress' BY <1>1, SameAborts, SameProgress
<1>7. Handled' BY <1>1, <1>2, <1>3 DEF PlcInv, Handled, Nothing
<1>8. OwnerAhead' BY <1>3 DEF OwnerAhead
<1> QED BY <1>4, <1>5, <1>6, <1>7, <1>8, Zenon DEF PlcInv

LEMMA DeferredKeepsInv ==
  ASSUME PlcInv, max_requests_in_flight = 1, Deferred
  PROVE  PlcInv'
<1>1. /\ pass.pc = "deferred" /\ pass' = [pass EXCEPT !.pc = "leftover"]
      /\ state' = state /\ aborting' = aborting /\ aborts' = aborts
      /\ atPlc' = atPlc /\ inbox' = inbox /\ order' = order
      /\ IF rbuf # None /\ tag[pass.deferred].ptid # 0 /\ tag[pass.deferred].ptid = rbuf.req.seq
           THEN tickle_tag(pass.deferred)
           ELSE UNCHANGED <<tag, count, seq, wbuf, rbuf, dirty, abortReq, got>>
  BY DEF Deferred, netVars, bounds, plcVars
<1>2. rbuf # None => pass.deferred = rbuf.req.tag BY <1>1 DEF PlcInv, OwnerAhead
<1>3. pass'.pc = "leftover" /\ pass'.last = pass.last
      /\ pass' \in [pc: {"top", "tickle", "deferred", "leftover", "switch"},
                     i: Nat \ {0}, last: Nat, deferred: Tag \cup {None}]
  BY <1>1 DEF PlcInv, Typed
<1>4. CASE rbuf = None
  <2>1. /\ tag' = tag /\ count' = count /\ seq' = seq /\ wbuf' = wbuf /\ rbuf' = rbuf
        /\ abortReq' = abortReq /\ got' = got
    BY <1>1, <1>4
  <2>2. Typed' BY <1>1, <1>3, <2>1 DEF PlcInv, Typed
  <2>3. OneInFlight' BY <1>1, <2>1, SameFlight
  <2>4. NoAborts' /\ AllProgress' BY <1>1, <2>1, SameAborts, SameProgress
  <2>5. Handled' BY <1>1, <1>4, <2>1 DEF PlcInv, Handled, Nothing
  <2>6. OwnerAhead' BY <1>4, <2>1 DEF OwnerAhead
  <2> QED BY <2>2, <2>3, <2>4, <2>5, <2>6, Zenon DEF PlcInv
<1>5. CASE rbuf # None
  <2>1. PICK t \in Tag : t = rbuf.req.tag BY <1>5, ResponseHasOwner
  <2>2. tag[t].ptid = rbuf.req.seq /\ rbuf.req.seq # 0
    BY <1>5, <2>1, ResponseHasOwner DEF Request
  <2>3. tickle_tag(t) BY <1>1, <1>2, <1>5, <2>1, <2>2
  <2>4. PICK x, g : abortReq' = abortReq /\ Outcome(t, x, g) BY <2>3, TickleOutcome
  <2>5. tag' \in [Tag -> TagState] /\ got' \in [Tag -> SUBSET Nat] /\ seq' \in SeqId
    BY <2>4, OutcomeTyped
  <2>6. OneInFlight' BY <1>1, <2>4, OutcomeFlight
  <2>7. NoAborts' /\ AllProgress' BY <1>1, <2>4, SameAborts, OutcomeProgress
  <2>8. rbuf' = None /\ (wbuf' = wbuf \/ wbuf' # None) BY <1>5, <2>1, <2>4, OutcomeBuffers
  <2>9. Typed' BY <1>1, <1>3, <2>5 DEF PlcInv, Typed
  <2>10. state = "READY" BY <1>5 DEF PlcInv, Handled
  <2>11. Handled' BY <1>1, <2>8, <2>10 DEF Handled
  <2>12. OwnerAhead' BY <2>8 DEF OwnerAhead
  <2> QED BY <2>6, <2>7, <2>9, <2>11, <2>12, Zenon DEF PlcInv
<1> QED BY <1>4, <1>5

(***************************************************************************)
(* The steps of the connection.                                             *)
(***************************************************************************)
LEMMA InStateFacts ==
  ASSUME PlcInv, NEW s, InState(s)
  PROVE  /\ state = s /\ rbuf = None /\ Typed /\ pass'.pc = "top"
         /\ seq' = seq /\ got' = got /\ order' = order
         /\ pass' \in [pc: {"top", "tickle", "deferred", "leftover", "switch"},
                       i: Nat \ {0}, last: Nat, deferred: Tag \cup {None}]
         /\ pass'.last = pass.last
         /\ NoAborts'
<1>1. /\ state = s /\ pass.pc = "switch" /\ pass' = [pass EXCEPT !.pc = "top", !.deferred = None]
      /\ seq' = seq /\ got' = got /\ order' = order
      /\ abortReq' = abortReq /\ aborting' = aborting /\ aborts' = aborts
  BY DEF InState, appVars
<1>2. rbuf = None BY <1>1 DEF PlcInv, Handled
<1>3. /\ pass \in [pc: {"top", "tickle", "deferred", "leftover", "switch"},
                    i: Nat \ {0}, last: Nat, deferred: Tag \cup {None}]
      /\ Typed
  BY DEF PlcInv, Typed
<1>4. /\ pass'.pc = "top" /\ pass'.last = pass.last
      /\ pass' \in [pc: {"top", "tickle", "deferred", "leftover", "switch"},
                    i: Nat \ {0}, last: Nat, deferred: Tag \cup {None}]
  BY <1>1, <1>3, Zenon
<1>5. NoAborts' BY <1>1, SameAborts
<1> QED BY <1>1, <1>2, <1>3, <1>4, <1>5

\* A step that only changes the state of the connection.
LEMMA ConnectionStep ==
  ASSUME PlcInv, NEW s, InState(s), tag' = tag, count' = count, wbuf' = wbuf, rbuf' = rbuf,
         atPlc' = atPlc, inbox' = inbox, state' = state \/ state # "CONNECT_START",
         state' = "SEND_REQUEST" => wbuf # None,
         state' = "RECEIVE_RESPONSE" => inbox # << >>,
         state' \in {"CONNECT_WAIT", "ERR_WAIT", "IDLE_WAIT"} => Nothing
  PROVE  PlcInv'
<1>1. Typed' BY InStateFacts DEF Typed
<1>2. OneInFlight' BY SameFlight
<1>3. NoAborts' /\ AllProgress' BY InStateFacts, SameProgress
<1>4. Handled' BY InStateFacts DEF Handled, Nothing
<1>5. OwnerAhead' BY InStateFacts DEF OwnerAhead
<1> QED BY <1>1, <1>2, <1>3, <1>4, <1>5, Zenon DEF PlcInv

LEMMA ConnectionSteps ==
  ASSUME PlcInv,
         \/ ConnectWait \/ ErrWait \/ IdleWait \/ ReadyError \/ ReadyCanWrite \/ ReadyCanRead
         \/ ReadyNothing \/ (SendRequest /\ sock = "broken")
         \/ (ReceiveResponse /\ sock = "broken")
  PROVE  PlcInv'
<1> DEFINE still == /\ tag' = tag /\ count' = count /\ wbuf' = wbuf /\ rbuf' = rbuf
                    /\ atPlc' = atPlc /\ inbox' = inbox
<1>1. CASE ConnectWait
  <2>1. InState("CONNECT_WAIT") /\ state' \in {"READY", "ERR_WAIT"} /\ still
    BY <1>1 DEF ConnectWait, netVars
  <2>2. Nothing /\ state = "CONNECT_WAIT" BY <2>1, InStateFacts DEF PlcInv, Handled
  <2> QED BY <2>1, <2>2, ConnectionStep
<1>2. CASE ErrWait
  <2>1. InState("ERR_WAIT") /\ state' = "CONNECT_START" /\ still BY <1>2 DEF ErrWait, netVars
  <2> QED BY <2>1, InStateFacts, ConnectionStep
<1>3. CASE IdleWait
  <2>1. InState("IDLE_WAIT") /\ state' \in {"CONNECT_START", "IDLE_WAIT"} /\ still
    BY <1>3 DEF IdleWait, netVars
  <2>2. Nothing /\ state = "IDLE_WAIT" BY <2>1, InStateFacts DEF PlcInv, Handled
  <2> QED BY <2>1, <2>2, ConnectionStep
<1>4. CASE ReadyError
  <2>1. InState("READY") /\ state' = "CONNECT_START" /\ still BY <1>4 DEF ReadyError, netVars
  <2> QED BY <2>1, InStateFacts, ConnectionStep
<1>5. CASE ReadyCanWrite
  <2>1. InState("READY") /\ state' = "SEND_REQUEST" /\ wbuf # None /\ still
    BY <1>5 DEF ReadyCanWrite, netVars
  <2> QED BY <2>1, InStateFacts, ConnectionStep
<1>6. CASE ReadyCanRead
  <2>1. InState("READY") /\ state' = "RECEIVE_RESPONSE" /\ inbox # << >> /\ still
    BY <1>6 DEF ReadyCanRead, netVars
  <2> QED BY <2>1, InStateFacts, ConnectionStep
<1>7. CASE ReadyNothing
  <2>1. InState("READY") /\ state' = state /\ still BY <1>7 DEF ReadyNothing, netVars
  <2>2. state' = "READY" BY <2>1, InStateFacts
  <2> QED BY <2>1, <2>2, ConnectionStep
<1>8. CASE SendRequest /\ sock = "broken"
  <2>1. InState("SEND_REQUEST") /\ state' = "CONNECT_START" /\ still BY <1>8 DEF SendRequest
  <2> QED BY <2>1, InStateFacts, ConnectionStep
<1>9. CASE ReceiveResponse /\ sock = "broken"
  <2>1. InState("RECEIVE_RESPONSE") /\ state' = "CONNECT_START" /\ still BY <1>9 DEF ReceiveResponse
  <2> QED BY <2>1, InStateFacts, ConnectionStep
<1> QED BY <1>1, <1>2, <1>3, <1>4, <1>5, <1>6, <1>7, <1>8, <1>9

\* What one step moves and completes.
Moved == \A t \in Tag : \A n \in got'[t] \ got[t] :
           /\ rbuf # None
           /\ rbuf.req.tag = t
           /\ rbuf.req.num = n
           /\ rbuf.req.kind = IF tag[t].op \in Reading THEN "read" ELSE "write"

ReadDone == \A t \in Tag :
              Completes(t, "READ_RESPONSE") /\ rbuf.answer = "ok" /\ aborts = 0
                => got'[t] = 0 .. Chunks[t] - 1

WriteDone == \A t \in Tag :
               Completes(t, "WRITE_RESPONSE") /\ tag'[t].status = "ok"
                 => got'[t] = 0 .. Chunks[t] - 1

LEMMA OutcomeMoves ==
  ASSUME PlcInv, NEW t \in Tag, NEW x, NEW g, Outcome(t, x, g)
  PROVE  Moved /\ ReadDone /\ WriteDone
<1>1. /\ tag[t] \in TagState /\ x \in TagState /\ g \in SUBSET Nat
      /\ tag'[t] = x /\ got'[t] = g
      /\ \A u \in Tag \ {t} : tag'[u] = tag[u] /\ got'[u] = got[u]
  BY OutcomeTyped DEF PlcInv, Typed
<1>2. \A u \in Tag \ {t} : ~Completes(u, "READ_RESPONSE") /\ ~Completes(u, "WRITE_RESPONSE")
  BY <1>1 DEF Completes
<1>3. CASE \E k \in Kinds : Takes(t, x, g, k)
  <2>1. PICK k \in Kinds : Takes(t, x, g, k) BY <1>3
  <2>2. /\ tag[t].op = ResponseOp(k) /\ rbuf \in Response /\ rbuf.req.tag = t
        /\ rbuf.req.num = tag[t].num /\ rbuf.req.kind = k
        /\ (Goes(t, x, g, k) \/ Repeats(t, x, g, k) \/ Ends(t, x, g, k))
    BY <2>1, Zenon DEF Takes
  <2>3. rbuf # None BY <2>2, NoneAssumption, Zenon
  <2>4. \A n \in g \ got[t] : n = tag[t].num
    BY <2>2, Zenon DEF Goes, Repeats, Ends
  <2>5. k = IF tag[t].op \in Reading THEN "read" ELSE "write"
    BY <2>2, Zenon DEF Reading, ResponseOp, Kinds
  <2>6. Moved BY <1>1, <2>2, <2>3, <2>4, <2>5, Zenon DEF Moved
  <2>7. ASSUME x.op = "IDLE", rbuf.answer = "ok" PROVE g = 0 .. Chunks[t] - 1
    <3>1. Ends(t, x, g, k) BY <2>2, <2>7, Zenon DEF Goes, Repeats, RequestOp
    <3>2. tag[t].num + 1 >= Chunks[t] /\ g = got[t] \cup {tag[t].num} BY <2>7, <3>1 DEF Ends
    <3>3. /\ tag[t].num < Chunks[t] /\ 0 .. tag[t].num - 1 \subseteq got[t]
          /\ got[t] \subseteq 0 .. Chunks[t] - 1
      BY <2>2, Zenon DEF PlcInv, AllProgress, Progress, ResponseOp
    <3>4. tag[t].num \in Nat /\ Chunks[t] \in Nat BY <1>1, PlcAssumption DEF TagState
    <3>5. tag[t].num = Chunks[t] - 1 BY <3>2, <3>3, <3>4
    <3>6. \A n \in 0 .. Chunks[t] - 1 : n \in 0 .. tag[t].num - 1 \/ n = tag[t].num
      BY <3>4, <3>5
    <3>7. tag[t].num \in 0 .. Chunks[t] - 1 BY <3>4, <3>5
    <3> QED BY <3>2, <3>3, <3>6, <3>7, Zenon
  <2>8. ReadDone BY <1>1, <1>2, <2>7 DEF ReadDone, Completes
  <2>9. Completes(t, "WRITE_RESPONSE") /\ x.status = "ok" => rbuf.answer = "ok" /\ x.op = "IDLE"
    <3> SUFFICES ASSUME Completes(t, "WRITE_RESPONSE"), x.status = "ok"
                 PROVE  rbuf.answer = "ok" /\ x.op = "IDLE"
      OBVIOUS
    <3>1. k = "write" /\ x.op = "IDLE" BY <1>1, <2>2 DEF Completes, ResponseOp, Kinds
    <3>2. Ends(t, x, g, k) BY <2>2, <3>1, Zenon DEF Goes, Repeats, RequestOp
    <3> QED BY <3>1, <3>2, Zenon DEF Ends
  <2>10. WriteDone BY <1>1, <1>2, <2>7, <2>9, Zenon DEF WriteDone
  <2> QED BY <2>6, <2>8, <2>10
<1>4. CASE ~ \E k \in Kinds : Takes(t, x, g, k)
  <2>1. g \in {{}, got[t]} /\ (tag[t].op \in Waiting => x.op # "IDLE")
    <3>1. \A k \in Kinds : RequestOp(k) # "IDLE" /\ RequestOp(k) \notin Waiting BY DEF RequestOp, Waiting
    <3>2. "IDLE" \notin Waiting /\ "WRITE_REQUEST" \notin Waiting BY DEF Waiting
    <3>3. ASSUME Stays(t, x, g) PROVE g = got[t] /\ (tag[t].op \in Waiting => x.op # "IDLE")
      BY <3>2, <3>3 DEF Stays
    <3>4. ASSUME Refuses(t, x, g) PROVE g \in {{}, got[t]} /\ tag[t].op \notin Waiting
      BY <3>2, <3>4 DEF Refuses
    <3>5. ASSUME NEW k \in Kinds, Begins(t, x, g, k) PROVE g = {} /\ tag[t].op \notin Waiting
      BY <3>2, <3>5 DEF Begins
    <3>6. ASSUME NEW k \in Kinds, Sends(t, x, g, k) PROVE g \in {{}, got[t]} /\ tag[t].op \notin Waiting
      BY <3>1, <3>2, <3>6 DEF Sends
    <3>7. ASSUME NEW k \in Kinds, Returns(t, x, g, k) PROVE g = got[t] /\ x.op # "IDLE"
      BY <1>1, <3>1, <3>7 DEF Returns, TagState
    <3> QED BY <1>4, <3>3, <3>4, <3>5, <3>6, <3>7, Zenon DEF Outcome
  <2>2. ~Completes(t, "READ_RESPONSE") /\ ~Completes(t, "WRITE_RESPONSE")
    BY <1>1, <2>1, Zenon DEF Completes, Waiting
  <2> QED BY <1>1, <1>2, <2>1, <2>2, Zenon DEF Moved, ReadDone, WriteDone
<1> QED BY <1>3, <1>4
=============================================================================
