----------------------------- MODULE ModbusPlc ------------------------------
(***************************************************************************)
(* One Modbus PLC: its handler thread, the tags attached to it and the     *)
(* connection (protocols/mb/modbus.c).                                     *)
(*                                                                         *)
(* The handler alternates between a pass over the tag vector               *)
(* (tickle_all_tags) and one step of the connection state machine.         *)
(* Application threads start reads and writes and abort them under the     *)
(* api_mutex of the tag; the handler only tries that mutex, so it skips a  *)
(* tag whose mutex is taken.  The library side of the calls is TagOps.     *)
(***************************************************************************)
EXTENDS Lists, FiniteSets

CONSTANTS
  Tag,          \* the tags in plc->tag_vector
  None,
  Chunks,       \* how many requests the data of each tag takes
  AutoRead,     \* tags with auto_sync_read_ms > 0
  AutoWrite,    \* tags with auto_sync_write_ms > 0
  MayWrite,     \* tags the application writes
  Contended,    \* tags whose mutex other API calls and callbacks take
  ReadOnly,     \* tags on input registers or discrete inputs
  Reorder,      \* whether the PLC may answer requests out of order
  Answers,      \* how the PLC may answer: subset of {"ok", "error", "ack"}
  max_requests_in_flight,
  IdMod,       \* transaction ids are 1 .. IdMod - 1; 2^16 in the code
  MaxFaults,    \* bound: disconnects and failed connection attempts
  MaxAborts     \* bound: calls of plc_tag_abort

ASSUME PlcAssumption ==
  /\ IsFiniteSet(Tag) /\ None \notin Tag
  /\ Chunks \in [Tag -> Nat \ {0}]
  /\ AutoRead \subseteq Tag /\ AutoWrite \subseteq Tag /\ MayWrite \subseteq Tag
  /\ ReadOnly \subseteq Tag /\ Contended \subseteq Tag
  /\ Answers \subseteq {"ok", "error", "ack"} /\ Reorder \in BOOLEAN
  /\ max_requests_in_flight \in Nat \ {0}
  /\ IdMod \in Nat /\ IdMod > 2
  /\ MaxFaults \in Nat /\ MaxAborts \in Nat

VARIABLES
  state,      \* plc->state
  sock,       \* the connection: "closed", "up" or "broken" under the handler
  count,      \* plc->pending_request_count
  seq,        \* plc->seq_id
  wbuf,       \* plc->write_data while flags.request_ready, else None
  rbuf,       \* plc->read_data while flags.response_ready, else None
  order,      \* plc->tag_vector
  need,       \* plc->tags_needing_connection > 0
  pass,       \* the handler's place in its loop: pc, i, last, deferred
  tag,        \* op, seq_id, pending_transaction_id, request_num, status
  abortReq,   \* tag->abort_requested
  dirty,      \* tag->tag_is_dirty
  held,       \* an API call of the application keeps tag->api_mutex
  aborting,   \* plc_tag_abort_impl: its place and the count it has loaded
  atPlc,      \* requests the PLC has received and not answered
  inbox,      \* answers on their way back, in TCP order
  got,        \* chunks moved by the tag's operation so far (ghost)
  faults, aborts

plcVars == <<state, sock, need>>
netVars == <<atPlc, inbox>>
appVars == <<abortReq, dirty, held, aborting>>
bounds == <<faults, aborts>>
vars == <<plcVars, count, seq, wbuf, rbuf, order, pass, tag, appVars, netVars,
          got, bounds>>

Ops == {"IDLE", "READ_REQUEST", "READ_RESPONSE", "WRITE_REQUEST",
        "WRITE_RESPONSE"}
Waiting == {"READ_RESPONSE", "WRITE_RESPONSE"}
States == {"CONNECT_START", "CONNECT_WAIT", "READY", "SEND_REQUEST",
           "RECEIVE_RESPONSE", "IDLE_WAIT", "ERR_WAIT"}
SeqId == 0 .. IdMod - 1
Request == [seq: SeqId \ {0}, tag: Tag, kind: {"read", "write"}, num: Nat]
Response == [req: Request, answer: {"ok", "error", "ack"}]

ASSUME NoneAssumption == None \notin Request /\ None \notin Response

TagState == [op: Ops, seq: SeqId, ptid: SeqId, num: Nat,
             status: {"ok", "pending", "error", "abort"}]

TypeOK ==
  /\ state \in States
  /\ sock \in {"closed", "up", "broken"}
  /\ count \in 0 .. max_requests_in_flight
  /\ seq \in SeqId
  /\ wbuf \in Request \cup {None}
  /\ rbuf \in Response \cup {None}
  /\ Len(order) = Cardinality(Tag) /\ Elements(order) = Tag
  /\ need \in BOOLEAN
  /\ pass \in [pc: {"top", "tickle", "deferred", "leftover", "switch"},
               i: 1 .. Cardinality(Tag) + 1, last: 0 .. Cardinality(Tag),
               deferred: Tag \cup {None}]
  /\ tag \in [Tag -> TagState]
  /\ abortReq \in [Tag -> BOOLEAN]
  /\ dirty \in [Tag -> BOOLEAN]
  /\ held \in [Tag -> BOOLEAN]
  /\ aborting \in [Tag -> [pc: {"no", "flagged", "storing"}, count: Nat]]
  /\ atPlc \in Seq(Request)
  /\ inbox \in Seq(Response)
  /\ got \in [Tag -> SUBSET Nat]
  /\ faults \in 0 .. MaxFaults
  /\ aborts \in 0 .. MaxAborts

NoAbort == [pc |-> "no", count |-> 0]

Init ==
  /\ state = "CONNECT_START"
  /\ sock = "closed"
  /\ count = 0
  /\ seq = 0
  /\ wbuf = None
  /\ rbuf = None
  /\ order \in {s \in [1 .. Cardinality(Tag) -> Tag] : Elements(s) = Tag}
  /\ need = FALSE
  /\ pass = [pc |-> "top", i |-> 1, last |-> 0, deferred |-> None]
  /\ tag = [t \in Tag |-> [op |-> "IDLE", seq |-> 0, ptid |-> 0, num |-> 0,
                           status |-> "ok"]]
  /\ abortReq = [t \in Tag |-> FALSE]
  /\ dirty = [t \in Tag |-> FALSE]
  /\ held = [t \in Tag |-> FALSE]
  /\ aborting = [t \in Tag |-> NoAbort]
  /\ atPlc = << >>
  /\ inbox = << >>
  /\ got = [t \in Tag |-> {}]
  /\ faults = 0
  /\ aborts = 0

Less(n) == IF n > 0 THEN n - 1 ELSE 0

\* seq_id = ++plc->seq_id, skipping zero when it wraps.
NextSeq == IF (seq + 1) % IdMod = 0 THEN 1 ELSE seq + 1

Answered == {inbox[i].req : i \in DOMAIN inbox}
              \cup {q.req : q \in {rbuf} \ {None}}
OnWire == Elements(atPlc) \cup Answered

\* An unanswered request does not see its id come round again: the code's
\* window is 2^16 - 1 requests.
SeqWindow == \A r \in OnWire : r.seq # NextSeq

\* tag->api_mutex is taken by an application thread.
Locked(t) == held[t] \/ aborting[t].pc = "storing"

-----------------------------------------------------------------------------
(* tickle_tag: one visit of the handler to a tag whose mutex it holds *)

\* check_tag_abort: the handler sees the flag before the aborting thread gets
\* the mutex.  seq_id and request_num keep their values.
check_tag_abort(t) ==
  /\ abortReq' = [abortReq EXCEPT ![t] = FALSE]
  /\ count' = IF tag[t].ptid # 0 THEN Less(count) ELSE count
  /\ tag' = [tag EXCEPT ![t].ptid = 0, ![t].status = "abort", ![t].op = "IDLE"]
  /\ UNCHANGED <<seq, wbuf, rbuf, dirty, got>>

\* What the tag works on after check_tag_auto_write and check_tag_auto_read;
\* whether the sync time has come is the clock's choice.
OpsToRun(t) ==
  {tag[t].op}
    \cup {o \in {"WRITE_REQUEST"} :
            tag[t].op = "IDLE" /\ t \in AutoWrite /\ dirty[t]}
    \cup {o \in {"READ_REQUEST"} :
            tag[t].op = "IDLE" /\ t \in AutoRead
              /\ ~(t \in AutoWrite /\ dirty[t])}

\* tag_op_read_request, tag_op_write_request with create_*_request.
tag_op_request(t, b, kind) ==
  IF wbuf # None \/ state # "READY" \/ count >= max_requests_in_flight
    THEN /\ tag' = [tag EXCEPT ![t] = b]
         /\ UNCHANGED <<count, seq, wbuf>>
    ELSE /\ SeqWindow
         /\ seq' = NextSeq
         /\ IF kind = "write" /\ t \in ReadOnly
              THEN /\ tag' = [tag EXCEPT ![t] =
                               [b EXCEPT !.op = "IDLE", !.status = "error"]]
                   /\ UNCHANGED <<count, wbuf>>
              ELSE /\ tag' = [tag EXCEPT ![t] =
                        [b EXCEPT !.seq = NextSeq, !.ptid = NextSeq,
                                  !.op = IF kind = "read" THEN "READ_RESPONSE"
                                                          ELSE "WRITE_RESPONSE"]]
                   /\ wbuf' = [seq |-> NextSeq, tag |-> t, kind |-> kind,
                               num |-> b.num]
                   /\ count' = count + 1

Disconnected == {"CONNECT_START", "CONNECT_WAIT", "ERR_WAIT", "IDLE_WAIT"}

\* Fault: the answered request stays counted as pending.
take_responseUncounted(t, b, kind, done) ==
  /\ rbuf' = None
  /\ tag' = [tag EXCEPT ![t] = [op |-> "IDLE", seq |-> 0, ptid |-> 0, num |-> 0,
                                status |-> done]]
  /\ got' = [got EXCEPT ![t] = @ \cup {b.num}]
  /\ UNCHANGED count

\* Fault: the last piece of a read is not asked for.
take_responseShort(t, b, kind, done) ==
  LET last == b.num + (IF kind = "read" THEN 2 ELSE 1) >= Chunks[t] IN
  /\ count' = Less(count)
  /\ rbuf' = None
  /\ tag' = [tag EXCEPT ![t] =
       IF rbuf.answer = "ok" /\ ~ last
         THEN [op |-> IF kind = "read" THEN "READ_REQUEST" ELSE "WRITE_REQUEST",
               seq |-> b.seq, ptid |-> 0, num |-> b.num + 1, status |-> "pending"]
         ELSE [op |-> "IDLE", seq |-> 0, ptid |-> 0, num |-> 0, status |-> done]]
  /\ got' = [got EXCEPT ![t] = @ \cup IF rbuf.answer = "ok" THEN {b.num} ELSE {}]

\* The matching response: take it, count down, and go on to the next request
\* (PARTIAL, which is also what an "acknowledge" exception translates to) or
\* complete with the given status.
take_response(t, b, kind, done) ==
  /\ count' = Less(count)
  /\ rbuf' = None
  /\ IF rbuf.answer = "ok" /\ b.num + 1 < Chunks[t]
       THEN /\ tag' = [tag EXCEPT ![t] =
                 [op |-> IF kind = "read" THEN "READ_REQUEST" ELSE "WRITE_REQUEST",
                  seq |-> b.seq, ptid |-> 0, num |-> b.num + 1,
                  status |-> "pending"]]
            /\ got' = [got EXCEPT ![t] = @ \cup {b.num}]
     ELSE IF rbuf.answer = "ack"
       THEN /\ tag' = [tag EXCEPT ![t] =
                 [op |-> IF kind = "read" THEN "READ_REQUEST" ELSE "WRITE_REQUEST",
                  seq |-> 0, ptid |-> 0, num |-> 0, status |-> "error"]]
            /\ UNCHANGED got
       ELSE /\ tag' = [tag EXCEPT ![t] = [op |-> "IDLE", seq |-> 0, ptid |-> 0,
                                          num |-> 0, status |-> done]]
            /\ got' = [got EXCEPT ![t] = @ \cup
                         IF rbuf.answer = "ok" THEN {b.num} ELSE {}]

\* Every way out of the switch for a finished read sets the status to rc, and
\* rc is PLCTAG_STATUS_OK by then, also for an error response.
tag_op_read_response(t, b) ==
  IF state \in Disconnected
    THEN /\ tag' = [tag EXCEPT ![t] = [b EXCEPT !.op = "READ_REQUEST"]]
         /\ UNCHANGED <<count, rbuf, got>>
  ELSE IF rbuf = None
    THEN UNCHANGED <<tag, count, rbuf, got>>
  ELSE IF rbuf.req.seq # b.seq
    THEN UNCHANGED <<tag, count, rbuf, got>>
    ELSE take_response(t, b, "read", "ok")

\* check_write_response answers PLCTAG_STATUS_PENDING for a response of another
\* tag, and the default branch completes the write with it.
tag_op_write_response(t, b) ==
  IF state \in Disconnected
    THEN /\ tag' = [tag EXCEPT ![t] = [b EXCEPT !.op = "WRITE_REQUEST"]]
         /\ UNCHANGED <<count, rbuf, got>>
  ELSE IF rbuf = None
    THEN UNCHANGED <<tag, count, rbuf, got>>
  ELSE IF rbuf.req.seq # b.seq
    THEN /\ count' = Less(count)
         /\ rbuf' = None
         /\ tag' = [tag EXCEPT ![t] = [b EXCEPT !.op = "IDLE", !.ptid = 0,
                                                !.status = "pending"]]
         /\ UNCHANGED got
    ELSE take_response(t, b, "write",
                       IF rbuf.answer = "ok" THEN "ok" ELSE "error")

tickle_tag(t) ==
  IF abortReq[t]
    THEN check_tag_abort(t)
    ELSE \E op \in OpsToRun(t) :
           LET b == [tag[t] EXCEPT !.op = op]
               fresh == op # tag[t].op
           IN  /\ dirty' = [dirty EXCEPT ![t] = @ /\ ~(fresh /\ op = "WRITE_REQUEST")]
               /\ CASE op = "IDLE" -> UNCHANGED <<tag, count, seq, wbuf, rbuf,
                                                  got>>
                    [] op \in {"READ_REQUEST", "WRITE_REQUEST"} ->
                         /\ got' = [got EXCEPT ![t] = IF fresh THEN {} ELSE @]
                         /\ tag_op_request(t, b, IF op = "READ_REQUEST"
                                                   THEN "read" ELSE "write")
                         /\ UNCHANGED rbuf
                    [] op = "READ_RESPONSE" -> /\ tag_op_read_response(t, b)
                                               /\ UNCHANGED <<seq, wbuf>>
                    [] op = "WRITE_RESPONSE" -> /\ tag_op_write_response(t, b)
                                                /\ UNCHANGED <<seq, wbuf>>
               /\ UNCHANGED abortReq

-----------------------------------------------------------------------------
(* tickle_all_tags *)

BeginPass ==
  /\ pass.pc = "top"
  /\ pass' = [pc |-> "tickle", i |-> 1, last |-> Len(order), deferred |-> None]
  /\ need' = FALSE
  /\ UNCHANGED <<state, sock, count, seq, wbuf, rbuf, order, tag, appVars,
                 netVars, got, bounds>>

\* mutex_try_lock succeeded: tickle the tag, and move a tag that has just left
\* a RESPONSE state to the end of the vector.
TickleNext ==
  /\ pass.pc = "tickle"
  /\ pass.i <= pass.last
  /\ LET t == order[pass.i]
     IN  /\ ~Locked(t)
         /\ tickle_tag(t)
         /\ need' = (need \/ tag'[t].op # "IDLE")
         /\ IF tag[t].op \in Waiting /\ tag'[t].op = "IDLE"
              THEN /\ order' = Append(Without(order, pass.i), t)
                   /\ pass' = [pass EXCEPT !.last = @ - 1]
              ELSE /\ pass' = [pass EXCEPT !.i = @ + 1]
                   /\ UNCHANGED order
  /\ UNCHANGED <<state, sock, held, aborting, netVars, bounds>>

\* Fault: the owner of the response is not remembered.
SkipLockedForgets ==
  /\ pass.pc = "tickle"
  /\ pass.i <= pass.last
  /\ Locked(order[pass.i])
  /\ pass' = [pass EXCEPT !.i = @ + 1]
  /\ UNCHANGED <<plcVars, count, seq, wbuf, rbuf, order, tag, appVars, netVars,
                 got, bounds>>

\* mutex_try_lock failed: remember the tag if the response is its own.
SkipLocked ==
  /\ pass.pc = "tickle"
  /\ pass.i <= pass.last
  /\ LET t == order[pass.i]
     IN  /\ Locked(t)
         /\ pass' = [pass EXCEPT
              !.i = @ + 1,
              !.deferred = IF @ = None /\ rbuf # None /\ tag[t].ptid = rbuf.req.seq
                             THEN t ELSE @]
  /\ UNCHANGED <<plcVars, count, seq, wbuf, rbuf, order, tag, appVars, netVars,
                 got, bounds>>

\* A response no tag took is thrown away, and counted as an answer.
Discard ==
  /\ rbuf' = None
  /\ count' = IF rbuf # None THEN Less(count) ELSE count

EndPass ==
  /\ pass.pc = "tickle"
  /\ pass.i > pass.last
  /\ IF pass.deferred = None
       THEN Discard /\ pass' = [pass EXCEPT !.pc = "switch"]
       ELSE pass' = [pass EXCEPT !.pc = "deferred"] /\ UNCHANGED <<rbuf, count>>
  /\ UNCHANGED <<plcVars, seq, wbuf, order, tag, appVars, netVars, got,
                 bounds>>

\* Wait for the mutex of the deferred tag and check the match again.
Deferred ==
  /\ pass.pc = "deferred"
  /\ LET t == pass.deferred
     IN  /\ ~Locked(t)
         /\ IF rbuf # None /\ tag[t].ptid # 0 /\ tag[t].ptid = rbuf.req.seq
              THEN tickle_tag(t)
              ELSE UNCHANGED <<tag, count, seq, wbuf, rbuf, dirty, abortReq, got>>
  /\ pass' = [pass EXCEPT !.pc = "leftover"]
  /\ UNCHANGED <<plcVars, order, held, aborting, netVars, bounds>>

Leftover ==
  /\ pass.pc = "leftover"
  /\ Discard
  /\ pass' = [pass EXCEPT !.pc = "switch", !.deferred = None]
  /\ UNCHANGED <<plcVars, seq, wbuf, order, tag, appVars, netVars, got,
                 bounds>>

-----------------------------------------------------------------------------
(* One step of the connection state machine of modbus_plc_handler *)

InState(s) == /\ pass.pc = "switch"
              /\ state = s
              /\ pass' = [pass EXCEPT !.pc = "top", !.deferred = None]
              /\ UNCHANGED <<seq, order, need, appVars, got, aborts>>

\* reset_plc: tags still in a RESPONSE state go back to REQUEST and give up
\* their place in the count; the socket is closed and the buffers emptied.
reset_plc ==
  LET pending == {t \in Tag : tag[t].op \in Waiting /\ tag[t].ptid # 0}
      n == Cardinality(pending)
  IN  /\ tag' = [t \in Tag |->
           IF tag[t].op \in Waiting
             THEN [tag[t] EXCEPT !.ptid = 0,
                     !.op = IF @ = "READ_RESPONSE" THEN "READ_REQUEST"
                                                   ELSE "WRITE_REQUEST"]
             ELSE tag[t]]
      /\ count' = IF count > n THEN count - n ELSE 0
      /\ wbuf' = None
      /\ rbuf' = None
      /\ atPlc' = << >>
      /\ inbox' = << >>

\* connect_plc is done, is still connecting, or fails.
ConnectStart ==
  /\ InState("CONNECT_START")
  /\ reset_plc
  /\ \/ state' = "READY" /\ sock' = "up" /\ UNCHANGED faults
     \/ state' = "CONNECT_WAIT" /\ sock' = "closed" /\ UNCHANGED faults
     \/ /\ faults < MaxFaults
        /\ faults' = faults + 1
        /\ state' = "ERR_WAIT" /\ sock' = "closed"

\* A timeout of socket_connect_tcp_check leaves the state as it is.
ConnectWait ==
  /\ InState("CONNECT_WAIT")
  /\ \/ state' = "READY" /\ sock' = "up" /\ UNCHANGED faults
     \/ /\ faults < MaxFaults
        /\ faults' = faults + 1
        /\ state' = "ERR_WAIT" /\ UNCHANGED sock
  /\ UNCHANGED <<tag, count, wbuf, rbuf, netVars>>

ErrWait ==
  /\ InState("ERR_WAIT")
  /\ state' = "CONNECT_START"
  /\ UNCHANGED <<sock, tag, count, wbuf, rbuf, netVars, faults>>

\* socket_wait_event in PLC_READY, by the event it reports.
ReadyError ==
  /\ InState("READY")
  /\ sock = "broken"
  /\ state' = "CONNECT_START"
  /\ UNCHANGED <<sock, tag, count, wbuf, rbuf, netVars, faults>>

ReadyCanWrite ==
  /\ InState("READY")
  /\ sock = "up"
  /\ wbuf # None
  /\ state' = "SEND_REQUEST"
  /\ UNCHANGED <<sock, tag, count, wbuf, rbuf, netVars, faults>>

ReadyCanRead ==
  /\ InState("READY")
  /\ sock = "up"
  /\ inbox # << >>
  /\ state' = "RECEIVE_RESPONSE"
  /\ UNCHANGED <<sock, tag, count, wbuf, rbuf, netVars, faults>>

\* Timeout or wake up: stay in READY.
ReadyNothing ==
  /\ InState("READY")
  /\ sock = "up"
  /\ wbuf = None
  /\ inbox = << >>
  /\ UNCHANGED <<state, sock, tag, count, wbuf, rbuf, netVars, faults>>

\* Timeout, and nothing was sent or received for the inactivity timeout.
ReadyInactive ==
  /\ InState("READY")
  /\ sock = "up"
  /\ wbuf = None
  /\ inbox = << >>
  /\ count = 0
  /\ reset_plc
  /\ state' = "IDLE_WAIT"
  /\ sock' = "closed"
  /\ UNCHANGED faults

\* A partial send stays in the state and goes on where it stopped.
SendRequest ==
  /\ InState("SEND_REQUEST")
  /\ IF sock = "broken"
       THEN state' = "CONNECT_START" /\ UNCHANGED <<wbuf, atPlc>>
       ELSE /\ state' = "READY"
            /\ atPlc' = Append(atPlc, wbuf)
            /\ wbuf' = None
  /\ UNCHANGED <<sock, tag, count, rbuf, inbox, faults>>

\* receive_response: one whole packet; PENDING leaves the state as it is.
ReceiveResponse ==
  /\ InState("RECEIVE_RESPONSE")
  /\ IF sock = "broken"
       THEN state' = "CONNECT_START" /\ UNCHANGED <<rbuf, inbox>>
       ELSE /\ state' = "READY"
            /\ rbuf' = Head(inbox)
            /\ inbox' = Tail(inbox)
  /\ UNCHANGED <<sock, tag, count, wbuf, atPlc, faults>>

IdleWait ==
  /\ InState("IDLE_WAIT")
  /\ state' = IF need THEN "CONNECT_START" ELSE "IDLE_WAIT"
  /\ UNCHANGED <<sock, tag, count, wbuf, rbuf, netVars, faults>>

Handler ==
  \/ BeginPass \/ TickleNext \/ SkipLocked \/ EndPass \/ Deferred \/ Leftover
  \/ ConnectStart \/ ConnectWait \/ ErrWait \/ ReadyError \/ ReadyCanWrite
  \/ ReadyCanRead \/ ReadyNothing \/ ReadyInactive \/ SendRequest
  \/ ReceiveResponse \/ IdleWait

-----------------------------------------------------------------------------
(* Calls of the application; each holds the api_mutex of the tag *)

AppUnchanged == UNCHANGED <<plcVars, seq, wbuf, rbuf, order, pass, netVars,
                            faults>>

\* mb_read_start, mb_write_start; BUSY, and no effect, unless the tag is idle.
start_op(t, kind) ==
  /\ ~Locked(t)
  /\ tag[t].op = "IDLE"
  /\ tag' = [tag EXCEPT
       ![t].op = IF kind = "read" THEN "READ_REQUEST" ELSE "WRITE_REQUEST",
       ![t].status = IF kind = "read" THEN "pending" ELSE "ok"]
  /\ got' = [got EXCEPT ![t] = {}]
  /\ AppUnchanged
  /\ UNCHANGED <<count, appVars, aborts>>

\* A data accessor of an auto_sync_write tag.
SetDirty(t) ==
  /\ t \in AutoWrite
  /\ ~Locked(t)
  /\ dirty' = [dirty EXCEPT ![t] = TRUE]
  /\ AppUnchanged
  /\ UNCHANGED <<count, tag, abortReq, held, aborting, got, aborts>>

\* Any other API call or callback keeps the mutex for a while.
LockTag(t) ==
  /\ t \in Contended
  /\ ~Locked(t)
  /\ held' = [held EXCEPT ![t] = TRUE]
  /\ AppUnchanged
  /\ UNCHANGED <<count, tag, abortReq, dirty, aborting, got, aborts>>

UnlockTag(t) ==
  /\ held[t]
  /\ held' = [held EXCEPT ![t] = FALSE]
  /\ AppUnchanged
  /\ UNCHANGED <<count, tag, abortReq, dirty, aborting, got, aborts>>

\* plc_tag_abort_impl raises the flag without the mutex.
RequestAbort(t) ==
  /\ aborts < MaxAborts
  /\ aborting[t].pc = "no"
  /\ aborts' = aborts + 1
  /\ abortReq' = [abortReq EXCEPT ![t] = TRUE]
  /\ aborting' = [aborting EXCEPT ![t].pc = "flagged"]
  /\ AppUnchanged
  /\ UNCHANGED <<count, tag, dirty, held, got>>

\* With the mutex: mb_abort, if the handler has not been faster.  The count is
\* decremented without plc->mutex: a load now, a store later.
mb_abort(t) ==
  /\ aborting[t].pc = "flagged"
  /\ ~Locked(t)
  /\ abortReq' = [abortReq EXCEPT ![t] = FALSE]
  /\ IF abortReq[t]
       THEN /\ tag' = [tag EXCEPT ![t] = [op |-> "IDLE", seq |-> 0, ptid |-> 0,
                                          num |-> 0, status |-> "ok"]]
            /\ aborting' = [aborting EXCEPT ![t] =
                 IF tag[t].ptid # 0 /\ count > 0
                   THEN [pc |-> "storing", count |-> count] ELSE NoAbort]
       ELSE aborting' = [aborting EXCEPT ![t] = NoAbort] /\ UNCHANGED tag
  /\ AppUnchanged
  /\ UNCHANGED <<count, dirty, held, got, aborts>>

\* An update by the handler in between is overwritten, or, when its own load
\* and store surround this store, overwrites it.
AbortStores(t) ==
  /\ aborting[t].pc = "storing"
  /\ \/ count' = aborting[t].count - 1
     \/ aborting[t].count # count /\ UNCHANGED count
  /\ aborting' = [aborting EXCEPT ![t] = NoAbort]
  /\ AppUnchanged
  /\ UNCHANGED <<tag, abortReq, dirty, held, got, aborts>>

App == \E t \in Tag :
  \/ start_op(t, "read")
  \/ t \in MayWrite /\ start_op(t, "write")
  \/ SetDirty(t) \/ LockTag(t) \/ RequestAbort(t)

AppFinishes(t) == UnlockTag(t) \/ mb_abort(t) \/ AbortStores(t)

-----------------------------------------------------------------------------
(* The PLC and the network *)

NetUnchanged == UNCHANGED <<state, need, count, seq, wbuf, rbuf, order, pass,
                            tag, appVars, got, aborts>>

PlcAnswers ==
  /\ sock = "up"
  /\ \E i \in DOMAIN atPlc, a \in Answers :
       /\ Reorder \/ i = 1
       /\ atPlc' = Without(atPlc, i)
       /\ inbox' = Append(inbox, [req |-> atPlc[i], answer |-> a])
  /\ UNCHANGED <<sock, faults>>
  /\ NetUnchanged

Disconnect ==
  /\ sock = "up"
  /\ faults < MaxFaults
  /\ faults' = faults + 1
  /\ sock' = "broken"
  /\ UNCHANGED netVars
  /\ NetUnchanged

Next == \/ Handler
        \/ App
        \/ \E t \in Tag : AppFinishes(t)
        \/ PlcAnswers
        \/ Disconnect

Spec == Init /\ [][Next]_vars

\* The handler thread runs, application threads leave the mutexes they hold,
\* the PLC answers what it received.
FairSpec == /\ Spec
            /\ WF_vars(Handler)
            /\ \A t \in Tag : WF_vars(AppFinishes(t))
            /\ WF_vars(PlcAnswers)

-----------------------------------------------------------------------------
(* Properties *)

InBuffer == {wbuf} \ {None}

\* A tag in a RESPONSE state has an answer to wait for: its request is in the
\* write buffer, at the PLC or on its way back.  No response is thrown away,
\* or taken by another tag, while the tag it belongs to waits for it.
NoOrphanWait ==
  \A t \in Tag : tag[t].op \in Waiting =>
    \E r \in InBuffer \cup OnWire : r.tag = t /\ r.seq = tag[t].seq

\* The PLC is never asked more at a time than max_requests_in_flight.
InFlightLimit == Cardinality(InBuffer \cup OnWire) <= max_requests_in_flight

\* pending_request_count is the number of tags with a pending transaction,
\* through every disconnect and reconnect.
CountIsPending == count = Cardinality({t \in Tag : tag[t].ptid # 0})

\* What the tags wait for, what the handler counts and what is on the wire
\* agree; an abort (mb_abort, without plc->mutex) may leave the last two apart.
RequestsInStep == NoOrphanWait /\ (aborts = 0 => InFlightLimit /\ CountIsPending)

Reading == {"READ_REQUEST", "READ_RESPONSE"}

\* Data only ever moves for the chunk, the direction and the tag that the
\* answered request named: tag->request_num is still the one the request was
\* built with when its response is copied.
DataWhereAsked ==
  [][\A t \in Tag : \A n \in got'[t] \ got[t] :
       /\ rbuf # None
       /\ rbuf.req.tag = t
       /\ rbuf.req.num = n
       /\ rbuf.req.kind = IF tag[t].op \in Reading THEN "read" ELSE "write"]_vars

\* The handler completes a read or write of the tag in this step.
Completes(t, op) == /\ tag[t].op = op
                    /\ tag'[t].op = "IDLE"
                    /\ rbuf # None
                    /\ rbuf' = None

\* A read that ends with a good response has fetched every chunk of the tag
\* since it was started, unless one was aborted before: request_num survives
\* check_tag_abort (modbus.c:2080).
ReadIsWhole ==
  [][\A t \in Tag :
       Completes(t, "READ_RESPONSE") /\ rbuf.answer = "ok" /\ aborts = 0
         => got'[t] = 0 .. Chunks[t] - 1]_vars

\* A write the tag reports as done was answered by the PLC, chunk by chunk.
WriteIsWhole ==
  [][\A t \in Tag :
       Completes(t, "WRITE_RESPONSE") /\ tag'[t].status = "ok"
         => got'[t] = 0 .. Chunks[t] - 1]_vars

\* Every response moves the data that its request asked for, and an operation
\* that ends well has moved all the data of the tag.
TransfersWhole == DataWhereAsked /\ ReadIsWhole /\ WriteIsWhole

\* A tag that wants to read is served: other tags that read over and over
\* again do not keep it waiting, and neither does a lost connection.
ReadServed ==
  \A t \in Tag : tag[t].op = "READ_REQUEST" ~> tag[t].op = "IDLE"

=============================================================================
