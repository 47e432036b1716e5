------------------------------ MODULE AbSession ------------------------------
(***************************************************************************)
(* One Allen-Bradley session (protocols/ab/session.c): the request queue   *)
(* that tags fill, the handler thread with its connection states, requests *)
(* packed into one packet and answers unpacked from it, retries, and the   *)
(* end of the session.                                                     *)
(*                                                                         *)
(* A critical block is one step.  The push-back after a failure is done    *)
(* without the mutex: vector_insert is two steps there, and a request that *)
(* a tag adds in between overwrites what vector_insert has moved.          *)
(***************************************************************************)
EXTENDS Integers, Sequences, FiniteSets, Functions

CONSTANTS
  Tags,          \* tags of this session
  Reqs,          \* request objects; one is used again after it was freed
  Size,          \* Size[r]: bytes of CIP data in request r
  Packable,      \* requests with allow_packing set; only used on a connection
  PcccSize,      \* MAX_CIP_PLC5_MSG_SIZE and the like
  FoSize,        \* MAX_CIP_LGX_MSG_SIZE, for the old Forward Open
  FoExSize,      \* MAX_CIP_LGX_MSG_SIZE_EX, for the extended one
  PlcSizes,      \* packet sizes the PLC may be able to take
  Connects,      \* values of use_connected_msg: a set of BOOLEANs
  MaxRequests,   \* MAX_REQUESTS
  MultiHeader,   \* sizeof(cip_multi_req_header)
  OffsetEntry,   \* bytes for the offset of a packed request
  Faults,        \* errors, lost answers and timeouts in a behaviour
  None           \* NULL

ASSUME AbSessionAssumption ==
  /\ Size \in [Reqs -> Nat \ {0}] /\ Packable \subseteq Reqs
  /\ {PcccSize, FoSize, FoExSize, MaxRequests} \subseteq Nat \ {0}
  /\ PlcSizes \subseteq Nat \ {0} /\ Connects \subseteq BOOLEAN
  /\ {MultiHeader, OffsetEntry, Faults} \subseteq Nat
  /\ None \notin Reqs /\ None \notin Tags

VARIABLES
  queue,     \* session->requests, of Reqs and, after a race, None
  moving,    \* vector_insert at work without the mutex
  req,       \* the request objects
  holds,     \* holds[t]: tag->req
  tags,      \* tags that hold a reference to the session
  h,         \* the handler thread
  net,       \* what is under way to and from the PLC
  plc,       \* the PLC: sizes and services it knows; constant
  life,      \* lib_active, terminating, and how far session_destroy is
  left       \* faults left

vars == <<queue, moving, req, holds, tags, h, net, plc, life, left>>

\* session_state_t, with the steps of process_requests in SESSION_IDLE.
ConnStates ==
  {"OPEN_SOCKET_START", "OPEN_SOCKET_WAIT", "REGISTER", "SEND_FORWARD_OPEN",
   "RECEIVE_FORWARD_OPEN", "IDLE", "DISCONNECT", "UNREGISTER", "CLOSE_SOCKET",
   "START_RETRY", "WAIT_ERR_RETRY", "WAIT_IDLE_RECONNECT"}
Steps == {"process", "send", "receive", "unpack", "push", "idle_end"}

\* What the PLC sends; "data" answers the requests in items one by one.
Kinds == {"data", "bad", "fo_ok", "fo_large", "fo_duplicate", "fo_unsupported",
          "fo_error", "fc"}
Packet == [kind: Kinds \cup {"fo", "fo_ex"}, size: Nat, items: Seq(Reqs)]

NotMoving == [on |-> FALSE, target |-> 0, over |-> None, raced |-> FALSE]

Free == [refs |-> 0, abort |-> FALSE, resp |-> FALSE, status |-> "none", got |-> None]

TypeOK ==
  /\ queue \in Seq(Reqs \cup {None})
  /\ moving \in [on: BOOLEAN, target: Nat, over: Reqs \cup {None}, raced: BOOLEAN]
  /\ req \in [Reqs -> [refs: 0 .. 2, abort: BOOLEAN, resp: BOOLEAN,
                       status: {"none", "ok", "abort"}, got: Reqs \cup {None}]]
  /\ holds \in [Tags -> Reqs \cup {None}]
  /\ tags \subseteq Tags
  /\ h \in [state: ConnStates \cup Steps \cup {"exited", "crashed"},
            connected: BOOLEAN, auto: BOOLEAN, due: BOOLEAN, onlyOld: BOOLEAN,
            fo: Nat, ex: Nat, retry: Nat, guess: Nat, payload: Nat, bundle: Seq(Reqs \cup {None}),
            answer: Seq(Reqs), lost: SUBSET Reqs]
  /\ net.sock \in BOOLEAN /\ net.in \in Seq(Packet)
  /\ plc \in [size: PlcSizes, ex: BOOLEAN]
  /\ life \in [active: BOOLEAN, terminating: BOOLEAN,
               destroy: {"no", "join", "release", "done"}]
  /\ left \in 0 .. Faults

\* What the type of the PLC decides: fo_conn_size, fo_ex_conn_size and
\* only_use_old_forward_open.
create_plc5_session_unsafe == [fo |-> PcccSize, ex |-> 0, old |-> TRUE]
create_slc_session_unsafe == [fo |-> PcccSize, ex |-> 0, old |-> TRUE]
create_mlgx_session_unsafe == [fo |-> PcccSize, ex |-> 0, old |-> TRUE]
create_lgx_pccc_session_unsafe == [fo |-> PcccSize, ex |-> 0, old |-> TRUE]
create_lgx_session_unsafe == [fo |-> FoSize, ex |-> FoExSize, old |-> FALSE]
create_micro800_session_unsafe == [fo |-> FoSize, ex |-> FoExSize, old |-> TRUE]

Types ==
  {create_plc5_session_unsafe, create_slc_session_unsafe, create_mlgx_session_unsafe,
   create_lgx_pccc_session_unsafe, create_lgx_session_unsafe,
   create_micro800_session_unsafe}

\* A new session of type k; the attribute conn_only_use_old_forward_open may be
\* set (forced).
session_create_unsafe(k, connected, forced) ==
  [state |-> "OPEN_SOCKET_START", connected |-> connected, auto |-> FALSE,
   due |-> FALSE, onlyOld |-> k.old \/ forced, fo |-> k.fo, ex |-> k.ex, retry |-> 0,
   guess |-> 0, payload |-> k.fo, bundle |-> <<>>, answer |-> <<>>, lost |-> {}]

Init ==
  /\ queue = <<>> /\ moving = NotMoving
  /\ req = [r \in Reqs |-> Free]
  /\ holds = [t \in Tags |-> None]
  /\ tags = Tags
  /\ \E c \in Connects, k \in Types : \E forced \in IF c THEN BOOLEAN ELSE {TRUE} :
       h = session_create_unsafe(k, c, forced)
  /\ net = [sock |-> FALSE, out |-> <<>>, in |-> <<>>]
  /\ plc \in [size: PlcSizes, ex: BOOLEAN]
  /\ life = [active |-> TRUE, terminating |-> FALSE, destroy |-> "no"]
  /\ left = Faults

-----------------------------------------------------------------------------
\* Requests and the queue.

\* rc_dec on a request; at zero request_destroy frees it.
rc_dec(f, r) == IF f[r].refs = 1 THEN [f EXCEPT ![r] = Free]
                                 ELSE [f EXCEPT ![r].refs = @ - 1]

InQueue == {queue[i] : i \in DOMAIN queue} \ {None}
InBundle == {h.bundle[i] : i \in DOMAIN h.bundle} \ {None}

\* Every cycle of the handler starts with this.
Aborted == {r \in InQueue : req[r].abort}

Purged == SelectSeq(queue, LAMBDA r : r \notin Aborted)

\* The aborted requests are told so and given up.
purge_aborted_requests_unsafe ==
  [r \in Reqs |->
     IF r \notin Aborted THEN req[r]
     ELSE IF req[r].refs = 1 THEN Free
     ELSE [req[r] EXCEPT !.refs = @ - 1, !.status = "abort", !.resp = TRUE]]

get_payload_size(r) == Size[r]

\* The bytes of a packet with the requests s.
PackedSize(s) ==
  SumFunction([i \in DOMAIN s |-> get_payload_size(s[i])])
    + IF Len(s) = 1 THEN 0 ELSE MultiHeader + Len(s) * OffsetEntry

FirstOf(q, k) == Restrict(q, 1 .. k)

\* Fault: the header and the offsets of a packet are not counted.
PacksBare(q, k) ==
  /\ k <= MaxRequests
  /\ \A i \in 1 .. k : q[i] # None
  /\ k > 1 => \A i \in 1 .. k : q[i] \in Packable
  /\ SumFunction([i \in 1 .. k |-> get_payload_size(q[i])]) \in 0 .. h.payload

\* The first k requests of q may go into one packet.
Packs(q, k) ==
  /\ k <= MaxRequests
  /\ \A i \in 1 .. k : q[i] # None
  /\ k > 1 => \A i \in 1 .. k : q[i] \in Packable
  /\ PackedSize(FirstOf(q, k)) \in 0 .. h.payload

\* process_requests takes the first k requests: it stops at the first that does
\* not fit, so none is taken if the first one is too large.
Takes(q, k) ==
  /\ k <= Len(q) /\ \A j \in 1 .. k : Packs(q, j)
  /\ k < Len(q) => ~ Packs(q, k + 1)

\* Looking at allow_packing of a None behind a packable request is a null
\* pointer access.
RunsIntoHole(q, k) ==
  /\ k \in 1 .. (Len(q) - 1) /\ k < MaxRequests
  /\ q[1] \in Packable /\ q[k + 1] = None

-----------------------------------------------------------------------------
\* Tags.

\* The sizes here do not count the overhead that the code subtracts.
session_get_available_cip_payload_space == h.payload

\* A new request, for the tag and for the session; its buffer holds what the
\* connection takes at this moment.
session_create_request(r) == [req EXCEPT ![r] = [Free EXCEPT !.refs = 2]]

\* The tag starts an operation.  If the handler is between the two halves of
\* vector_insert, the new request lands on the moved one.
session_add_request(t, r) ==
  /\ t \in tags /\ life.active /\ holds[t] = None
  /\ req[r].refs = 0 /\ r \notin InQueue \cup InBundle \cup h.lost
  /\ Size[r] <= session_get_available_cip_payload_space /\ (r \in Packable => h.connected)
  /\ req' = session_create_request(r)
  /\ holds' = [holds EXCEPT ![t] = r]
  /\ queue' = Append(queue, r)
  /\ moving' = IF moving.on
                 THEN [moving EXCEPT !.over = None, !.raced = TRUE]
                 ELSE moving
  /\ UNCHANGED <<tags, h, net, plc, life, left>>

\* The answer is there and the tag drops its request.
check_request_status(t) ==
  /\ holds[t] # None /\ req[holds[t]].resp
  /\ req' = rc_dec(req, holds[t])
  /\ holds' = [holds EXCEPT ![t] = None]
  /\ UNCHANGED <<queue, moving, tags, h, net, plc, life, left>>

AbortOf(t) ==
  LET r == holds[t] IN
    /\ req' = IF r = None THEN req ELSE rc_dec([req EXCEPT ![r].abort = TRUE], r)
    /\ holds' = [holds EXCEPT ![t] = None]

\* ab_tag_abort, of the application or because its timeout is over.
ab_tag_abort(t) ==
  /\ holds[t] # None
  /\ AbortOf(t)
  /\ UNCHANGED <<queue, moving, tags, h, net, plc, life, left>>

\* ab_tag_destroy gives up the session.
ab_tag_destroy(t) ==
  /\ t \in tags
  /\ AbortOf(t)
  /\ tags' = tags \ {t}
  /\ UNCHANGED <<queue, moving, h, net, plc, life, left>>

-----------------------------------------------------------------------------
\* The handler thread.

Runs == life.active /\ ~ life.terminating

\* A cycle in state st: purge, then go on to state next.
Cycle(st, next) ==
  /\ h.state = st /\ Runs
  /\ queue' = Purged /\ req' = purge_aborted_requests_unsafe
  /\ h' = next
  /\ UNCHANGED <<moving, holds, tags, plc, life>>

Go(st) == [h EXCEPT !.state = st]

Fail == left > 0 /\ left' = left - 1

\* An error uses up one of the faults.
Result(rc) == IF rc = "error" THEN Fail ELSE UNCHANGED left

NoNet == [sock |-> FALSE, out |-> <<>>, in |-> <<>>]
Send(p) == net' = [net EXCEPT !.out = Append(@, p)]

\* SESSION_OPEN_SOCKET_START: what session_open_socket may return, and the socket.
session_open_socket ==
  {[rc |-> "ok", net |-> [NoNet EXCEPT !.sock = TRUE]],
   [rc |-> "pending", net |-> [NoNet EXCEPT !.sock = TRUE]],
   [rc |-> "error", net |-> net]}

OpenSocketStart ==
  \E res \in session_open_socket :
    /\ Cycle("OPEN_SOCKET_START",
             CASE res.rc = "ok" -> [Go("REGISTER") EXCEPT !.retry = 0]
               [] res.rc = "pending" -> Go("OPEN_SOCKET_WAIT")
               [] res.rc = "error" -> Go("CLOSE_SOCKET"))
    /\ net' = res.net /\ Result(res.rc)

OpenSocketWait ==
  \E rc \in {"ok", "error"} :
    /\ Cycle("OPEN_SOCKET_WAIT", Go(IF rc = "ok" THEN "REGISTER" ELSE "CLOSE_SOCKET"))
    /\ Result(rc) /\ UNCHANGED net

\* The exchange of the Register Session packets, in one step.
session_register == {"ok", "error"}

Register ==
  \E rc \in session_register :
    /\ Cycle("REGISTER", Go(CASE rc = "error" -> "CLOSE_SOCKET"
                              [] rc = "ok" /\ h.connected -> "SEND_FORWARD_OPEN"
                              [] rc = "ok" /\ ~ h.connected -> "IDLE"))
    /\ Result(rc) /\ UNCHANGED net

send_old_forward_open_request(size) ==
  [kind |-> "fo", size |-> size, items |-> <<>>]

send_extended_forward_open_request(size) ==
  [kind |-> "fo_ex", size |-> size, items |-> <<>>]

\* The size asked for in a Forward Open, and the packet.
PayloadGuess ==
  LET most == IF h.onlyOld THEN h.fo ELSE h.ex
  IN IF h.guess = 0 \/ h.guess > most THEN most ELSE h.guess

send_forward_open_request ==
  IF h.onlyOld THEN send_old_forward_open_request(PayloadGuess)
               ELSE send_extended_forward_open_request(PayloadGuess)

SendForwardOpen ==
  \/ /\ Cycle("SEND_FORWARD_OPEN",
              [Go("RECEIVE_FORWARD_OPEN") EXCEPT !.guess = PayloadGuess])
     /\ Send(send_forward_open_request)
     /\ UNCHANGED left
  \/ /\ Cycle("SEND_FORWARD_OPEN", [Go("UNREGISTER") EXCEPT !.guess = PayloadGuess])
     /\ Fail /\ UNCHANGED net

\* The handler after the answer p to a Forward Open.
receive_forward_open_response(p) ==
  CASE p.kind = "fo_ok" -> [Go("IDLE") EXCEPT !.payload = h.guess]
    [] p.kind = "fo_duplicate" -> Go("SEND_FORWARD_OPEN")
    [] p.kind = "fo_large" -> [Go("SEND_FORWARD_OPEN") EXCEPT !.guess = p.size]
    [] p.kind = "fo_unsupported" /\ ~ h.onlyOld ->
         [Go("SEND_FORWARD_OPEN") EXCEPT !.onlyOld = TRUE]
    [] OTHER -> Go("UNREGISTER")

\* There is no timeout for this answer.
ReceiveForwardOpen ==
  /\ net.in # <<>>
  /\ Cycle("RECEIVE_FORWARD_OPEN", receive_forward_open_response(Head(net.in)))
  /\ net' = [net EXCEPT !.in = Tail(@)]
  /\ UNCHANGED left

\* SESSION_IDLE: only a session that had nothing to do may be due to disconnect.
IdleBegins ==
  /\ \E due \in BOOLEAN :
       /\ due => Purged = <<>> /\ left > 0
       /\ Cycle("IDLE", [Go("process") EXCEPT !.due = due])
       /\ left' = IF due THEN left - 1 ELSE left
  /\ UNCHANGED net

\* The first critical block of process_requests.
process_requests ==
  /\ h.state = "process"
  /\ \E k \in 0 .. MaxRequests :
       /\ Takes(Purged, k)
       /\ queue' = SubSeq(Purged, k + 1, Len(Purged))
       /\ req' = purge_aborted_requests_unsafe
       /\ h' = [h EXCEPT
                  !.state = IF RunsIntoHole(Purged, k) THEN "crashed"
                            ELSE IF k = 0 THEN "idle_end" ELSE "send",
                  !.bundle = FirstOf(Purged, k)]
  /\ UNCHANGED <<moving, holds, tags, net, plc, life, left>>

Handling == UNCHANGED <<moving, holds, tags, plc, life>>

pack_requests ==
  [kind |-> "data", size |-> PackedSize(h.bundle), items |-> h.bundle]

\* prepare_request and send_eip_request, which a terminated session gives up.
send_eip_request ==
  /\ h.state = "send"
  /\ \/ /\ Runs /\ net.sock
        /\ h' = Go("receive")
        /\ Send(pack_requests)
        /\ UNCHANGED left
     \/ /\ h' = Go("push") /\ UNCHANGED net
        /\ IF life.terminating THEN UNCHANGED left ELSE Fail
  /\ Handling /\ UNCHANGED <<queue, req>>

\* The checks of process_requests: an answer to several requests must be one to
\* as many; nothing says which requests a packet answers.
Accepts(p) ==
  p.kind = "data" /\ (Len(h.bundle) > 1 => Len(p.items) = Len(h.bundle))

recv_eip_response ==
  /\ h.state = "receive"
  /\ \/ /\ net.in # <<>>
        /\ h' = IF Accepts(Head(net.in))
                  THEN [Go("unpack") EXCEPT !.answer = Head(net.in).items]
                  ELSE Go("push")
        /\ net' = [net EXCEPT !.in = Tail(@)]
        /\ UNCHANGED left
     \/ /\ h' = Go("push") /\ UNCHANGED net
        /\ IF life.terminating THEN UNCHANGED left ELSE Fail
  /\ Handling /\ UNCHANGED <<queue, req>>

\* Request i is the first of the bundle that has not got its answer.
Unanswered(i) ==
  /\ \A j \in 1 .. (i - 1) : h.bundle[j] = None
  /\ i <= Len(h.bundle) => h.bundle[i] # None

\* Request r of the bundle gets the answer to request s; the session is done
\* with it.
unpack_response(r, s) ==
  rc_dec([req EXCEPT ![r].resp = TRUE, ![r].status = "ok", ![r].got = s], r)

\* The loop over unpack_response.  If it fails, this request and the ones after
\* it are neither answered nor put back.
UnpackNext ==
  /\ h.state = "unpack"
  /\ \E i \in 1 .. (Len(h.bundle) + 1) : Unanswered(i) /\
       \/ /\ i > Len(h.bundle)
          /\ h' = [Go("idle_end") EXCEPT !.bundle = <<>>, !.answer = <<>>]
          /\ UNCHANGED <<req, left>>
       \/ /\ i <= Len(h.bundle)
          /\ h' = [h EXCEPT !.bundle[i] = None]
          /\ req' = unpack_response(h.bundle[i], h.answer[i])
          /\ UNCHANGED left
       \/ /\ i <= Len(h.bundle) /\ Fail
          /\ h' = [Go("idle_end") EXCEPT !.bundle = <<>>, !.answer = <<>>,
                                         !.lost = @ \cup InBundle]
          /\ UNCHANGED req
  /\ Handling /\ UNCHANGED <<queue, net>>

\* Fault: only one request of the bundle is put back.
PushBeginsOnce ==
  /\ h.state = "push" /\ ~ moving.on /\ h.bundle # <<>>
  /\ LET moved == <<h.bundle[Len(h.bundle)]>> \o queue IN
       /\ queue' = SubSeq(moved, 1, Len(queue))
       /\ moving' = [moving EXCEPT !.on = TRUE, !.target = Len(moved), !.over = moved[Len(moved)]]
  /\ h' = [h EXCEPT !.bundle = <<>>]
  /\ UNCHANGED <<req, holds, tags, net, plc, life, left>>

\* vector_insert(session->requests, 0, the last of the bundle): the entries move
\* up, the length does not count the last of them yet ...
PushBegins ==
  /\ h.state = "push" /\ ~ moving.on /\ h.bundle # <<>>
  /\ LET moved == <<h.bundle[Len(h.bundle)]>> \o queue IN
       /\ queue' = SubSeq(moved, 1, Len(queue))
       /\ moving' = [moving EXCEPT !.on = TRUE, !.target = Len(moved), !.over = moved[Len(moved)]]
  /\ h' = [h EXCEPT !.bundle = SubSeq(@, 1, Len(@) - 1)]
  /\ UNCHANGED <<req, holds, tags, net, plc, life, left>>

\* ... and then it does.  Into an empty vector vector_set stores with the length
\* the index asks for, otherwise the length grows by one.
PushEnds ==
  /\ h.state = "push" /\ moving.on
  /\ queue' = IF moving.target = 1 /\ queue # <<>> THEN queue
              ELSE Append(queue, moving.over)
  /\ moving' = [NotMoving EXCEPT !.raced = moving.raced]
  /\ UNCHANGED <<req, holds, tags, h, net, plc, life, left>>

\* Fault: after an error the session goes on with the connection it has.
PushDoneStays ==
  /\ h.state = "push" /\ ~ moving.on /\ h.bundle = <<>>
  /\ h' = Go("IDLE")
  /\ Handling /\ UNCHANGED <<queue, req, net, left>>

\* process_requests returns its error.
PushDone ==
  /\ h.state = "push" /\ ~ moving.on /\ h.bundle = <<>>
  /\ h' = [h EXCEPT !.state = IF h.connected THEN "DISCONNECT" ELSE "UNREGISTER",
                    !.auto = @ \/ h.due]
  /\ Handling /\ UNCHANGED <<queue, req, net, left>>

\* The rest of SESSION_IDLE after a success.
IdleEnds ==
  /\ h.state = "idle_end"
  /\ h' = [h EXCEPT !.state = IF ~ h.due THEN "IDLE"
                              ELSE IF h.connected THEN "DISCONNECT" ELSE "UNREGISTER",
                    !.auto = @ \/ h.due]
  /\ Handling /\ UNCHANGED <<queue, req, net, left>>

\* perform_forward_close: whatever comes back is ignored.
perform_forward_close ==
  /\ Cycle("DISCONNECT", Go("UNREGISTER"))
  /\ net' = [net EXCEPT !.in = IF @ = <<>> THEN @ ELSE Tail(@)]
  /\ UNCHANGED left

session_unregister ==
  /\ Cycle("UNREGISTER", Go("CLOSE_SOCKET"))
  /\ UNCHANGED <<net, left>>

\* What was under way on the old connection is gone.
session_close_socket ==
  /\ Cycle("CLOSE_SOCKET", Go(IF h.auto THEN "WAIT_IDLE_RECONNECT" ELSE "START_RETRY"))
  /\ net' = NoNet
  /\ UNCHANGED left

\* The milliseconds to wait, before a jitter of up to RetryJitter is added or
\* subtracted: 100 * (1 << n) in ints of 32 bits, which wrap on the usual
\* compilers.  The product is taken as 4 * (25 * 2^n modulo 2^30), because TLC
\* has 32 bits, too.
RetryJitter == 50
calc_retry_time(n) ==
  LET k == n % 32
      quarter == IF k < 30 THEN (25 % 2^(30 - k)) * 2^k ELSE 0
      ms == 4 * (IF quarter >= 2^29 THEN quarter - 2^30 ELSE quarter)
  IN IF ms > 10000 THEN 10000 ELSE ms

StartRetry ==
  /\ Cycle("START_RETRY", [Go("WAIT_ERR_RETRY") EXCEPT !.retry = @ + 1])
  /\ UNCHANGED <<net, left>>

\* The time is over.
WaitErrRetry ==
  /\ Cycle("WAIT_ERR_RETRY", Go("OPEN_SOCKET_START"))
  /\ UNCHANGED <<net, left>>

\* Fault: nobody looks whether there is something to do again.
WaitIdleOnly ==
  /\ Cycle("WAIT_IDLE_RECONNECT", [h EXCEPT !.auto = FALSE])
  /\ UNCHANGED <<net, left>>

WaitIdleReconnect ==
  /\ Cycle("WAIT_IDLE_RECONNECT",
           [h EXCEPT !.auto = FALSE,
                     !.state = IF Purged # <<>> THEN "OPEN_SOCKET_START" ELSE @])
  /\ UNCHANGED <<net, left>>

\* The loop of session_handler ends, with a last purge.
HandlerExits ==
  /\ h.state \in ConnStates /\ ~ Runs
  /\ queue' = Purged /\ req' = purge_aborted_requests_unsafe
  /\ h' = Go("exited")
  /\ Handling /\ UNCHANGED <<net, left>>

-----------------------------------------------------------------------------
\* The end of the session.

\* plc_tag_shutdown clears lib_active.
Shutdown ==
  /\ life.active
  /\ life' = [life EXCEPT !.active = FALSE]
  /\ UNCHANGED <<queue, moving, req, holds, tags, h, net, plc, left>>

\* session_destroy, called when the last tag is gone, stops the handler, ...
session_destroy ==
  /\ life.destroy = "no" /\ tags = {}
  /\ life' = [life EXCEPT !.terminating = TRUE, !.destroy = "join"]
  /\ UNCHANGED <<queue, moving, req, holds, tags, h, net, plc, left>>

\* ... waits for it in thread_join, ...
DestroyJoins ==
  /\ life.destroy = "join" /\ h.state = "exited"
  /\ life' = [life EXCEPT !.destroy = "release"]
  /\ UNCHANGED <<queue, moving, req, holds, tags, h, net, plc, left>>

\* ... and releases the queued requests in a critical block.
DestroyReleases ==
  /\ life.destroy = "release"
  /\ life' = [life EXCEPT !.destroy = "done"]
  /\ net' = NoNet
  /\ req' = [r \in Reqs |-> IF r \notin InQueue THEN req[r]
                            ELSE IF req[r].refs = 1 THEN Free
                            ELSE [req[r] EXCEPT !.refs = @ - 1]]
  /\ queue' = <<>>
  /\ UNCHANGED <<moving, holds, tags, h, plc, left>>

-----------------------------------------------------------------------------
\* The PLC, as the handler sees it.

AnswerTo(p) ==
  IF p.kind = "data" THEN [p EXCEPT !.size = 0]
  ELSE LET kind == IF p.kind = "fo_ex" /\ ~ plc.ex THEN "fo_unsupported"
                   ELSE IF p.size > plc.size THEN "fo_large" ELSE "fo_ok"
       IN [kind |-> kind, size |-> plc.size, items |-> <<>>]

PlcAnswers ==
  /\ net.out # <<>>
  /\ \/ /\ net' = [net EXCEPT !.out = Tail(@), !.in = Append(@, AnswerTo(Head(net.out)))]
        /\ UNCHANGED left
     \/ /\ Fail
        /\ \E k \in IF Head(net.out).kind = "data" THEN {"bad"}
                    ELSE {"fo_duplicate", "fo_error"} :
             net' = [net EXCEPT !.out = Tail(@),
                       !.in = Append(@, [kind |-> k, size |-> 0, items |-> <<>>])]
  /\ UNCHANGED <<queue, moving, req, holds, tags, h, plc, life>>

Handler ==
  \/ OpenSocketStart \/ OpenSocketWait \/ Register
  \/ SendForwardOpen \/ ReceiveForwardOpen
  \/ IdleBegins \/ process_requests \/ send_eip_request \/ recv_eip_response
  \/ UnpackNext \/ PushBegins \/ PushEnds \/ PushDone \/ IdleEnds
  \/ perform_forward_close \/ session_unregister \/ session_close_socket
  \/ StartRetry \/ WaitErrRetry \/ WaitIdleReconnect \/ HandlerExits

Destroy == session_destroy \/ DestroyJoins \/ DestroyReleases

Next ==
  \/ Handler \/ Destroy \/ PlcAnswers \/ Shutdown
  \/ \E t \in Tags :
       \/ check_request_status(t) \/ ab_tag_abort(t) \/ ab_tag_destroy(t)
       \/ \E r \in Reqs : session_add_request(t, r)

\* The handler runs (its waits are timed), the cleanup thread runs, and the PLC
\* answers as long as the connection is up.
Fairness == WF_vars(Handler) /\ WF_vars(Destroy) /\ WF_vars(PlcAnswers)

Spec == Init /\ [][Next]_vars
FairSpec == Spec /\ Fairness

-----------------------------------------------------------------------------
\* The answer a request gets is the PLC's answer to that request, although a
\* packet does not say what it answers (recv_eip_response, unpack_response).
AnswerIsOwn == \A r \in Reqs : req[r].got \in {None, r}

\* A request that a tag waits for is queued, being processed or answered: the
\* session forgets one only when an answer does not fit (unpack_response) or in
\* the race between vector_insert and session_add_request.
NoneForgotten ==
  ~ moving.raced /\ life.destroy # "done" =>
    \A t \in Tags : holds[t] # None =>
      LET r == holds[t] IN
        \/ req[r].resp \/ r \in h.lost \/ r \in InQueue \cup InBundle
        \/ moving.over = r

\* The session keeps a reference to each queued request and to no other, so that
\* nothing it uses is freed and nothing is left over when it is gone.
HeldWhileQueued ==
  ~ moving.raced =>
    \A r \in Reqs :
      req[r].refs = Cardinality({t \in Tags : holds[t] = r})
                    + IF r \in InQueue \cup InBundle \cup h.lost \/ moving.over = r
                        THEN 1 ELSE 0

\* A request is neither forgotten nor freed too early or too late.
RequestsKept == NoneForgotten /\ HeldWhileQueued

\* No packet is larger than what the PLC agreed to on this connection.
PacketFits ==
  h.connected => \A i \in DOMAIN net.out :
    net.out[i].kind = "data" => net.out[i].size <= plc.size

\* After an error the session waits before it tries to connect again: "Number of
\* milliseconds to wait to try to set up the session again after a failure"
\* (session.c:74, calc_retry_time).
RetryWaits ==
  h.state = "WAIT_ERR_RETRY" => calc_retry_time(h.retry - 1) - RetryJitter > 0

\* A request that a tag goes on waiting for is answered as long as the library is
\* up, unless it was forgotten (NoneForgotten).
Served ==
  \A r \in Reqs :
    (\E t \in Tags : holds[t] = r) ~>
       \/ \A t \in Tags : holds[t] # r
       \/ req[r].resp \/ ~ life.active \/ r \in h.lost \/ moving.raced

=============================================================================
