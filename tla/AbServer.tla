------------------------------- MODULE AbServer -------------------------------
(* The simulated PLC that the tests run against (tools/ab_server): a thread  *)
(* for each connection (tcp_server.c) with its own copy of the PLC's state,  *)
(* sessions and connections (eip.c, cpf.c), and the memory of the tags, which *)
(* all threads share: behind its mutex for CIP, without it for PCCC.         *)
EXTENDS AbHandlers

CONSTANTS
  Clients,
  PlcTypes,       \* what --plc may say
  ServerTags,     \* what --tag says: a set of records, see AbHandlers
  FirstBytes,     \* the bytes of each tag at first
  Requests,       \* what clients send to each PLC: [cmd, session, conn, cip]
  Rejects,        \* reject_fo_count
  DefaultPacket,  \* server_to_client_max_packet before a Forward Open
  MaxSends        \* bound: requests of each client

VARIABLES
  plc_type,       \* which PLC is simulated
  mem,            \* tag->data
  plcs,           \* plcs[c]: the thread's copy of plc_s
  at,             \* at[c]: where conn_handler is with a request, see Idle
  wire,           \* wire[c]: the request on its way, and segments yet to arrive
  sends,          \* sends[c]: requests sent so far
  done            \* the flag that ends the server

serverVars == <<plc_type, mem, plcs, at, wire, sends, done>>

NoRequest == [cmd |-> "NONE"]

\* rc: of the last round.  todo: the requests in the one being served, multi
\* whether they came in one of many; out: bytes of the answer so far.  job, i,
\* acc: the copy being made.  seen: what the memory held in the meantime.
Idle(pc, rc) ==
  [pc |-> pc, rc |-> rc, req |-> NoRequest, todo |-> <<>>, multi |-> FALSE, room |-> 0,
   out |-> 0, resps |-> <<>>, i |-> 0, acc |-> <<>>, old |-> {}, seen |-> {}, any_error |-> FALSE]

FreshPlc == [session |-> 0, conn |-> 0, serial |-> 0, max |-> DefaultPacket, rejects |-> Rejects]

(***************************************************************************)
(* What becomes of a whole packet: the thread's PLC and what it does next.  *)
(***************************************************************************)
Outcome(p, a) == [plc |-> p, at |-> a]

Replies(a, resp) == [a EXCEPT !.pc = "reply", !.resps = <<resp>>]

EipError(a) == Replies(a, Response("EIP", "BAD_REQUEST", <<>>, 24))

register_session(p, a) ==
  IF a.req.session # 0 THEN Outcome(p, EipError(a))
  ELSE Outcome([p EXCEPT !.session = 1], Replies(a, Response("REGISTER", "OK", <<>>, 28)))

\* ERR_TCP_DONE ends the thread, without a reply.
unregister_session(p, a) ==
  IF a.req.session = p.session THEN Outcome(p, [a EXCEPT !.pc = "ended"])
  ELSE Outcome(p, EipError(a))

\* A Forward Open keeps the low 9 bits of the packet size, the extended one 12.
handle_forward_open(p, a, r) ==
  IF ~r.path_ok THEN Outcome(p, Replies(a, make_cip_log_error(r.svc, "PATH_DEST_UNKNOWN", FALSE, a.room)))
  ELSE IF p.rejects > 0
  THEN Outcome([p EXCEPT !.rejects = @ - 1],
               Replies(a, make_cip_log_error(r.svc, "EXT_ERR", TRUE, a.room)))
  ELSE Outcome([p EXCEPT !.conn = @ + 1, !.serial = r.serial,
                         !.max = r.size % (IF r.svc = "FORWARD_OPEN" THEN 512 ELSE 4096)],
               Replies(a, Response(r.svc, "OK", <<>>, slice_from_slice(a.room, 0, 30))))

\* Compares the serial numbers; the connection is left as it is.
handle_forward_close(p, a, r) ==
  Outcome(p, Replies(a,
    IF ~r.path_ok THEN make_cip_log_error(r.svc, "PATH_DEST_UNKNOWN", FALSE, a.room)
    ELSE IF r.serial # p.serial THEN make_cip_log_error(r.svc, "INVALID_PARAM", FALSE, a.room)
    ELSE Response(r.svc, "OK", <<>>, slice_from_slice(a.room, 0, 14))))

multi_response_overhead(n) == 4 + 2 + 2 * n

handle_multi_request(p, a, r) ==
  LET n == Len(r.subs)
  IN  IF n = 0 THEN Outcome(p, Replies(a, make_cip_log_error(r.svc, "INVALID_PARAM", FALSE, a.room)))
      ELSE IF a.room < multi_response_overhead(n) + n * 6
      THEN Outcome(p, Replies(a, make_cip_log_error(r.svc, "INSUFFICIENT_DATA", FALSE, a.room)))
      ELSE Outcome(p, [a EXCEPT !.pc = "sub", !.todo = r.subs, !.multi = TRUE,
                                !.out = multi_response_overhead(n)])

cip_dispatch_request(p, a, r) ==
  CASE r.svc = "MULTI" -> handle_multi_request(p, a, r)
    [] r.svc \in {"READ", "READ_FRAG", "WRITE", "WRITE_FRAG"} ->
         Outcome(p, [a EXCEPT !.pc = "sub", !.todo = <<r>>])
    [] OTHER -> Outcome(p, Replies(a, make_cip_log_error(r.svc, "UNSUPPORTED", FALSE, a.room)))

PcccServices == {"PLC5_READ", "PLC5_WRITE", "PLC5_RMW", "SLC_READ", "SLC_WRITE", "SLC_RMW"}

cip_dispatch_unconnected_request(p, a, r) ==
  CASE r.svc \in {"FORWARD_OPEN", "FORWARD_OPEN_EX"} -> handle_forward_open(p, a, r)
    [] r.svc = "FORWARD_CLOSE" -> handle_forward_close(p, a, r)
    [] r.svc \in PcccServices -> Outcome(p, [a EXCEPT !.pc = "sub", !.todo = <<r>>])
    [] r.svc = "UNCONNECTED_SEND" -> cip_dispatch_request(p, a, r.embedded)
    [] OTHER -> Outcome(p, Replies(a, make_cip_log_error(r.svc, "UNSUPPORTED", FALSE, a.room)))

handle_cpf_unconnected(p, a, len) ==
  cip_dispatch_unconnected_request(p, [a EXCEPT !.room = slice_from_slice(len, 16, len)], a.req.cip)

\* The connection must be the one that this thread opened last.
handle_cpf_connected(p, a, len) ==
  IF a.req.conn # p.conn THEN Outcome(p, EipError(a))
  ELSE cip_dispatch_request(p, [a EXCEPT !.room = slice_from_slice(len, 22, len)], a.req.cip)

eip_dispatch_request(p, a) ==
  LET len == slice_from_slice(p.max, 24, p.max)
  IN  CASE a.req.cmd = "REGISTER" -> register_session(p, a)
        [] a.req.cmd = "UNREGISTER" -> unregister_session(p, a)
        [] a.req.cmd = "UNCONNECTED" -> handle_cpf_unconnected(p, a, len)
        [] a.req.cmd = "CONNECTED" -> handle_cpf_connected(p, a, len)
        [] OTHER -> Outcome(p, EipError(a))

(***************************************************************************)
(* conn_handler.                                                            *)
(***************************************************************************)
Goes(c, a) == at' = [at EXCEPT ![c] = a]

\* The loop goes on after an answer, unless the server ends.
Again(a) == IF done THEN [a EXCEPT !.pc = "ended"] ELSE a

Comes(c, o) == plcs' = [plcs EXCEPT ![c] = o.plc] /\ Goes(c, o.at)

\* All of the packet has arrived.
ReadsWhole(c) ==
  /\ at[c].pc = "read" /\ wire[c].left > 0
  /\ Comes(c, eip_dispatch_request(plcs[c], [at[c] EXCEPT !.req = wire[c].req]))
  /\ wire' = [wire EXCEPT ![c] = [req |-> NoRequest, left |-> 0]]
  /\ UNCHANGED <<plc_type, mem, sends, done>>

\* Part of it has: request_handler returns TCP_SERVER_INCOMPLETE, which is not
\* the ERR_TCP_INCOMPLETE that the loop goes on for.
ReadsPart(c) ==
  /\ at[c].pc = "read" /\ wire[c].left = 2
  /\ Goes(c, [at[c] EXCEPT !.pc = "ended", !.rc = "TCP_SERVER_INCOMPLETE"])
  /\ wire' = [wire EXCEPT ![c].left = 1]
  /\ UNCHANGED <<plc_type, mem, plcs, sends, done>>

\* Nothing for a second: the loop goes on if the last round ended well, so not
\* before the first request.
TimesOut(c) ==
  /\ at[c].pc = "read" /\ wire[c].left = 0
  /\ at[c].rc # "PROCESSED" \/ done
  /\ Goes(c, [at[c] EXCEPT !.pc = "ended"])
  /\ UNCHANGED <<plc_type, mem, plcs, wire, sends, done>>

WritesReply(c) ==
  /\ at[c].pc = "reply"
  /\ \/ Goes(c, Again(Idle("read", "PROCESSED")))
     \/ Goes(c, [at[c] EXCEPT !.pc = "ended"])
  /\ UNCHANGED <<plc_type, mem, plcs, wire, sends, done>>

(***************************************************************************)
(* Serving one request, or one of many.                                     *)
(***************************************************************************)
\* Fault: the data are copied without the mutex of the tag.
Unlocked(r) == FALSE

\* critical_block(tag->data_mutex): only the CIP handlers take it.
Locked(r) == r.svc \in {"READ", "READ_FRAG", "WRITE", "WRITE_FRAG"}

IsPccc(r) == r.svc \in PcccServices

\* Fault: an answer may take what the whole packet has room for.
SubRoomAll(a) == a.room

SubRoom(a) ==
  IF ~a.multi THEN a.room
  ELSE slice_from_slice(a.room, a.out, a.room - (a.out + Len(a.todo) * 6))

\* The answer to the request at the head of todo, when data is what a read found.
SubAnswer(a, m, data) ==
  LET r == Head(a.todo)
      room == SubRoom(a)
      e == dispatch_pccc_request(plc_type, ServerTags, r)
  IN  IF IsPccc(r)
      THEN Response(r.svc, e.err, data,
                    slice_from_slice(room, 0, 11 + (IF e.err = "OK" THEN 4 + Len(data) ELSE 5)))
      ELSE IF r.svc \in {"READ", "READ_FRAG"}
      THEN LET b == handle_read_request(plc_type, ServerTags, m, r, room)
           IN  IF read_error(plc_type, ServerTags, r, room) = "OK" THEN [b EXCEPT !.data = data] ELSE b
      ELSE handle_write_request(plc_type, ServerTags, r, room)

\* The bytes of the tag that it reads or writes: none if it is refused.
Job(a) ==
  LET r == Head(a.todo)
      none == [name |-> "", start |-> 0, n |-> 0]
      e == dispatch_pccc_request(plc_type, ServerTags, r)
      t == CHOOSE u \in parse_tag_path(ServerTags, r) : TRUE
      f == CHOOSE u \in PcccTag(ServerTags, r) : TRUE
  IN  IF IsPccc(r) THEN IF e.err # "OK" THEN none
                        ELSE [name |-> f.name, start |-> e.start, n |-> e.n]
      ELSE IF r.svc \in {"READ", "READ_FRAG"}
      THEN IF read_error(plc_type, ServerTags, r, SubRoom(a)) # "OK" THEN none
           ELSE [name |-> t.name, start |-> FragmentStart(t, r), n |-> copy_size(t, r, SubRoom(a))]
      ELSE IF write_error(plc_type, ServerTags, r) # "OK" THEN none
           ELSE [name |-> t.name, start |-> FragmentStart(t, r), n |-> Len(r.data)]

IsRead(r) == r.svc \in {"READ", "READ_FRAG", "PLC5_READ", "SLC_READ"}

\* Its answer is added to the others; after the last one they are sent.
Added(a, resp) ==
  [a EXCEPT !.resps = Append(@, resp), !.out = @ + resp.bytes,
            !.any_error = @ \/ (resp.bytes > 2 /\ resp.status # "OK"), !.todo = Tail(@),
            !.i = 0, !.acc = <<>>, !.pc = IF Tail(a.todo) = <<>> THEN "reply" ELSE "sub"]

Finished(a, m, data) == Added(a, SubAnswer(a, m, data))

\* What the other threads find in the memory while they copy.
Seen(c, a, m) ==
  at' = [d \in Clients |->
           IF d = c THEN a
           ELSE IF at[d].pc \in {"byte", "store"} THEN [at[d] EXCEPT !.seen = @ \cup {m}] ELSE at[d]]

\* All at once under the mutex, or the first of its bytes.
ServesJob(c, a, r, j) ==
  IF j.n = 0 \/ Locked(r)
  THEN /\ mem' = IF IsRead(r) \/ j.n = 0 THEN mem
                 ELSE [mem EXCEPT ![j.name] = Overwritten(@, j.start, r.data)]
       /\ Seen(c, Finished([a EXCEPT !.seen = {mem}], mem,
                           IF j.n = 0 \/ ~IsRead(r) THEN <<>>
                           ELSE SubSeq(mem[j.name], j.start + 1, j.start + j.n)), mem')
  ELSE /\ Goes(c, [a EXCEPT !.pc = "byte", !.i = 1, !.seen = {mem}])
       /\ UNCHANGED mem

Serves(c) ==
  /\ at[c].pc = "sub"
  /\ ServesJob(c, at[c], Head(at[c].todo), Job(at[c]))
  /\ UNCHANGED <<plc_type, plcs, wire, sends, done>>

\* One byte of a copy without the mutex: taken, or loaded to be stored.
CopiesByteOf(c, a, j) ==
  LET b == mem[j.name][j.start + a.i]
  IN  Goes(c, IF a.i > j.n THEN Finished(a, mem, a.acc)
              ELSE IF IsRead(Head(a.todo)) THEN [a EXCEPT !.acc = Append(@, b), !.i = @ + 1]
              ELSE [a EXCEPT !.pc = "store", !.old = b])

CopiesByte(c) ==
  /\ at[c].pc = "byte"
  /\ CopiesByteOf(c, at[c], Job(at[c]))
  /\ UNCHANGED <<plc_type, mem, plcs, wire, sends, done>>

StoresByteOf(c, a, r, j) ==
  /\ mem' = [mem EXCEPT ![j.name][j.start + a.i] =
               IF IsPccc(r) THEN StoredByte(r, a.i, a.old) ELSE r.data[a.i]]
  /\ Seen(c, [a EXCEPT !.pc = "byte", !.i = @ + 1], mem')

StoresByte(c) ==
  /\ at[c].pc = "store"
  /\ StoresByteOf(c, at[c], Head(at[c].todo), Job(at[c]))
  /\ UNCHANGED <<plc_type, plcs, wire, sends, done>>

(***************************************************************************)
(* tcp_server_start, and the clients.                                       *)
(***************************************************************************)
\* A new connection gets a thread and a copy of the PLC as it was configured.
Accepts(c) ==
  /\ ~done /\ at[c].pc = "none"
  /\ Goes(c, Idle("read", "TCP_SERVER_DONE"))
  /\ plcs' = [plcs EXCEPT ![c] = FreshPlc]
  /\ UNCHANGED <<plc_type, mem, wire, sends, done>>

\* A client sends when it has its answer; the packet may arrive in two segments.
ClientSends(c) ==
  /\ at[c].pc = "read" /\ wire[c].left = 0 /\ sends[c] < MaxSends[c]
  /\ \E r \in Requests[plc_type], n \in {1, 2} : wire' = [wire EXCEPT ![c] = [req |-> r, left |-> n]]
  /\ sends' = [sends EXCEPT ![c] = @ + 1]
  /\ UNCHANGED <<plc_type, mem, plcs, at, done>>

\* The client closes, or the connection breaks.
ClientGone(c) ==
  /\ at[c].pc = "read"
  /\ Goes(c, [at[c] EXCEPT !.pc = "ended"])
  /\ UNCHANGED <<plc_type, mem, plcs, wire, sends, done>>

\* A signal, or an error of accept().
Terminated ==
  /\ ~done /\ done' = TRUE
  /\ UNCHANGED <<plc_type, mem, plcs, at, wire, sends>>

\* main returns.
Exits == done /\ (\A c \in Clients : at[c].pc \in {"none", "ended"}) /\ UNCHANGED serverVars

Unstarted ==
  /\ mem = FirstBytes
  /\ plcs = [c \in Clients |-> FreshPlc]
  /\ at = [c \in Clients |-> Idle("none", "TCP_SERVER_DONE")]
  /\ wire = [c \in Clients |-> [req |-> NoRequest, left |-> 0]]
  /\ sends = [c \in Clients |-> 0]
  /\ done = FALSE

ServerInit == plc_type \in PlcTypes /\ Unstarted

ServerNext ==
  \/ \E c \in Clients :
       \/ Accepts(c) \/ ClientSends(c) \/ ClientGone(c)
       \/ ReadsWhole(c) \/ ReadsPart(c) \/ TimesOut(c) \/ WritesReply(c)
       \/ Serves(c) \/ CopiesByte(c) \/ StoresByte(c)
  \/ Terminated
  \/ Exits

ServerSpec == ServerInit /\ [][ServerNext]_serverVars

(***************************************************************************)
(* Properties.                                                              *)
(***************************************************************************)
\* The request that a thread is about to answer, without its envelope.
Asked(a) == IF a.req.cip.svc = "UNCONNECTED_SEND" THEN a.req.cip.embedded ELSE a.req.cip

\* The data of a CIP read are what the tag held at one moment while the read was
\* served, whatever other connections write meanwhile (cip.c:827 copies under the
\* mutex of the tag).
ReadIsMoment ==
  \A c \in Clients : LET a == at[c] IN
    (a.pc = "reply" /\ ~a.multi /\ a.req.cmd \in {"CONNECTED", "UNCONNECTED"}) =>
      LET r == Asked(a)
          t == CHOOSE u \in parse_tag_path(ServerTags, r) : TRUE
      IN  (r.svc \in {"READ", "READ_FRAG"} /\ a.resps[1].data # <<>>) =>
             \E m \in a.seen : a.resps[1].data =
                SubSeq(m[t.name], FragmentStart(t, r) + 1, FragmentStart(t, r) + Len(a.resps[1].data))

\* Each request in a multi-service request has an answer with at least the four
\* bytes of a CIP header, and all of them fit the packet that the connection was
\* opened with (cip.c:316 leaves room for the answers still to come).
MultiAnswered ==
  \A c \in Clients : LET a == at[c] IN
    (a.pc = "reply" /\ a.multi) =>
      /\ Len(a.resps) = Len(Asked(a).subs)
      /\ \A k \in DOMAIN a.resps : a.resps[k].bytes >= 4
      /\ a.out <= a.room
=============================================================================
