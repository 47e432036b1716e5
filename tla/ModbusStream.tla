---------------------------- MODULE ModbusStream ----------------------------
(***************************************************************************)
(* The handler thread of a Modbus PLC (protocols/mb/modbus.c) over the     *)
(* sockets of the platform, byte by byte: ModbusPlc takes packets for      *)
(* granted, here they are cut and joined by TCP.  One application thread   *)
(* asks for something and wakes the handler, the destructor of the PLC     *)
(* ends it, and the server answers, hangs up or resets the connection.     *)
(***************************************************************************)
EXTENDS Integers, Sequences, SequencesExt

CONSTANTS
  NoSock,        \* the NULL pointer
  WakeRoom,      \* wake up messages that fit into the channel
  SendRoom,      \* bytes that TCP buffers in a direction
  Header,        \* MODBUS_MBAP_SIZE: the size of a packet is known from here on
  Answers,       \* sizes of the packets the server sends on a connection
  RequestSize,   \* and of the packets that it gets
  MaxConns,      \* bound: connections that come up
  MaxAsks        \* bound: operations that the application starts

VARIABLES
  os,              \* the platform: "posix" or "windows"
  sock,            \* plc->sock
  state,           \* plc->state
  pc,              \* the handler: "tickle", "switch", "selected" or "done"
  ready,           \* what select() found
  read_data,       \* bytes of the packet coming in
  response_ready,  \* the packet is whole
  write_data,      \* bytes of the request, and of it those gone
  write_offset,
  request_ready,
  job,             \* the operation of the application: "none", "asked", "pending"
  asks,
  waker,           \* the application has asked and not woken the handler yet
  closing,         \* the destructor: "no", "flagged", "joining", "destroyed"
  conns, put,      \* connections so far; bytes the server sent on this one
  taken, arrived   \* packets taken and bytes that reached the server on it

bufVars == <<read_data, response_ready, write_data, write_offset, request_ready>>
appVars == <<job, asks, waker, closing>>
netVars == <<conns, put, taken, arrived>>
streamVars == <<os, sock, state, pc, ready, bufVars, appVars, netVars>>

P == INSTANCE Socket
W == INSTANCE WinSocket

\* The platform is chosen when the library is built.
socket_create == IF os = "posix" THEN P!socket_create ELSE W!socket_create
socket_connect_tcp_start(s) ==
  IF os = "posix" THEN P!socket_connect_tcp_start(s) ELSE W!socket_connect_tcp_start(s)
socket_connect_tcp_check(s) ==
  IF os = "posix" THEN P!socket_connect_tcp_check(s) ELSE W!socket_connect_tcp_check(s)
Selected(s, events) ==
  IF os = "posix" THEN P!Selected(s, events) ELSE W!Selected(s, events)
Reported(s, events, found) ==
  IF os = "posix" THEN P!Reported(s, events, found) ELSE W!Reported(s, events, found)
socket_wake(s) == IF os = "posix" THEN P!socket_wake(s) ELSE W!socket_wake(s)
socket_read(s, n) == IF os = "posix" THEN P!socket_read(s, n) ELSE W!socket_read(s, n)
socket_write(s, b) == IF os = "posix" THEN P!socket_write(s, b) ELSE W!socket_write(s, b)
socket_close(s) == IF os = "posix" THEN P!socket_close(s) ELSE W!socket_close(s)
socket_destroy(s) == IF os = "posix" THEN P!socket_destroy(s) ELSE W!socket_destroy(s)

\* A byte is its packet and its place in it.
Packet(k, size) == [i \in 1..size |-> <<k, i>>]
Answer(k) == Packet(k, Answers[k])
Stream == FlattenSeq([k \in 1..Len(Answers) |-> Answer(k)])
Request == Packet(asks, RequestSize)

StreamInit ==
  /\ os \in {"posix", "windows"}
  /\ sock = NoSock /\ state = "CONNECT_START" /\ pc = "tickle" /\ ready = {}
  /\ read_data = <<>> /\ response_ready = FALSE
  /\ write_data = <<>> /\ write_offset = 0 /\ request_ready = FALSE
  /\ job = "none" /\ asks = 0 /\ waker = FALSE /\ closing = "no"
  /\ conns = 0 /\ put = 0 /\ taken = 0 /\ arrived = <<>>

-----------------------------------------------------------------------------
(* The handler: a pass over the tags, then the state machine *)

\* The loop ends here; else the tags take the response and make a request.
tickle_all_tags ==
  /\ pc = "tickle"
  /\ IF closing # "no" THEN pc' = "done" /\ UNCHANGED <<bufVars, job, taken>>
     ELSE /\ pc' = "switch"
          /\ taken' = IF response_ready THEN taken + 1 ELSE taken
          /\ read_data' = IF response_ready THEN <<>> ELSE read_data
          /\ response_ready' = FALSE
          /\ job' = CASE job = "pending" /\ response_ready -> "none"
                      [] job = "asked" /\ ~request_ready -> "pending"
                      [] OTHER -> job
          /\ IF job = "asked" /\ ~request_ready
               THEN write_data' = Request /\ write_offset' = 0 /\ request_ready' = TRUE
               ELSE UNCHANGED <<write_data, write_offset, request_ready>>
  /\ UNCHANGED <<os, sock, state, ready, asks, waker, closing, conns, put, arrived>>

Again(next) == state' = next /\ pc' = "tickle" /\ ready' = {}

\* Fault: bytes of a packet of the old connection stay in the buffer.
BuffersKept ==
  /\ UNCHANGED read_data /\ response_ready' = FALSE
  /\ write_data' = <<>> /\ write_offset' = 0 /\ request_ready' = FALSE

BuffersReset ==
  /\ read_data' = <<>> /\ response_ready' = FALSE
  /\ write_data' = <<>> /\ write_offset' = 0 /\ request_ready' = FALSE

\* Fault: only a connected socket is woken up.
WakeIfOpen(s) == IF s = NoSock THEN s ELSE IF s.fd = "invalid" THEN s ELSE socket_wake(s)

wake_plc_thread(s) == IF s = NoSock THEN s ELSE socket_wake(s)

\* What reset_plc makes of the socket and of an operation under way.
Closed(s) == IF s = NoSock THEN s ELSE socket_close(s)
Retried(j) == IF j = "pending" THEN "asked" ELSE j

reset_plc == BuffersReset /\ job' = Retried(job)

\* The outcomes of connect_plc, with a socket made first if there is none.
connect_plc(s) ==
  LET made == IF s = NoSock THEN socket_create ELSE {P!Outcome(s, "OK")} IN
  {o \in made : o.rc # "OK"} \cup
  UNION {{o \in socket_connect_tcp_start(m.s) : conns < MaxConns \/ o.rc = "OPEN"} :
           m \in {o \in made : o.rc = "OK"}}

ConnectStart ==
  /\ pc = "switch" /\ state = "CONNECT_START"
  /\ reset_plc
  /\ \E o \in connect_plc(wake_plc_thread(Closed(sock))) :
       /\ sock' = o.s
       /\ Again(CASE o.rc = "OK" -> "READY" [] o.rc = "PENDING" -> "CONNECT_WAIT"
                  [] OTHER -> "ERR_WAIT")
       /\ conns' = IF o.rc \in {"OK", "PENDING"} THEN conns + 1 ELSE conns
  /\ put' = 0 /\ taken' = 0 /\ arrived' = <<>>
  /\ UNCHANGED <<os, asks, waker, closing>>

ConnectWait ==
  /\ pc = "switch" /\ state = "CONNECT_WAIT"
  /\ \E o \in socket_connect_tcp_check(sock) :
       /\ sock' = o.s
       /\ Again(CASE o.rc = "OK" -> "READY" [] o.rc = "TIMEOUT" -> "CONNECT_WAIT"
                  [] OTHER -> "ERR_WAIT")
  /\ UNCHANGED <<os, bufVars, appVars, netVars>>

\* The events that the three waiting states ask socket_wait_event for.
Events ==
  CASE state = "READY" -> P!DEFAULT_MASK \cup {"CAN_READ"}
                            \cup (IF request_ready THEN {"CAN_WRITE"} ELSE {})
    [] state = "IDLE_WAIT" -> P!DEFAULT_MASK
    [] state = "ERR_WAIT" -> {"WAKE_UP", "TIMEOUT"}
    [] OTHER -> {}

\* A tag needs the connection: no waiting.
NeedsConnection == state = "IDLE_WAIT" /\ job = "pending"
Waits == state \in {"READY", "IDLE_WAIT", "ERR_WAIT"} /\ ~NeedsConnection
HasChannel == sock # NoSock /\ sock.wake # P!NoChannel

Select ==
  /\ pc = "switch" /\ Waits /\ HasChannel
  /\ ready' \in Selected(sock, Events)
  /\ pc' = "selected"
  /\ UNCHANGED <<os, sock, state, bufVars, appVars, netVars>>

\* PLC_READY, by the events, in the order in which they are looked at; a
\* connection without traffic is given up after the inactivity timeout.
ReadyNext(events) ==
  CASE events \cap {"ERROR", "DISCONNECT"} # {} -> "CONNECT_START"
    [] events \cap {"ERROR", "DISCONNECT"} = {} /\ "CAN_WRITE" \in events /\ request_ready
         -> "SEND_REQUEST"
    [] OTHER -> IF "CAN_READ" \in events THEN "RECEIVE_RESPONSE" ELSE "READY"

Reacts(s, events) ==
  /\ sock' = s
  /\ Again(IF state = "READY" THEN ReadyNext(events) ELSE state)
  /\ UNCHANGED <<os, bufVars, appVars, netVars>>

WaitReturns ==
  /\ pc = "selected"
  /\ \E o \in Reported(sock, Events, ready) : Reacts(o.s, o.rc)

\* Without a socket, or without its channel, the call fails at once.
WaitFails ==
  /\ pc = "switch" /\ Waits /\ ~HasChannel
  /\ Reacts(sock, IF sock = NoSock THEN P!NULL_PTR ELSE P!BAD_CONFIG)

WaitTimesOut ==
  /\ pc = "switch" /\ Waits /\ HasChannel /\ Selected(sock, Events) = {}
  /\ Reacts(sock, P!TimedOut(sock, Events).rc)

ReadyInactive ==
  /\ pc = "switch" /\ state = "READY" /\ HasChannel
  /\ Selected(sock, Events) = {} /\ job # "pending"
  /\ reset_plc
  /\ sock' = wake_plc_thread(Closed(sock))
  /\ Again("IDLE_WAIT")
  /\ UNCHANGED <<os, asks, waker, closing, netVars>>

\* The delay after an error is over, or a tag needs the connection.
Reconnect ==
  /\ pc = "switch" /\ (state = "ERR_WAIT" \/ NeedsConnection)
  /\ Again("CONNECT_START")
  /\ UNCHANGED <<os, sock, bufVars, appVars, netVars>>

\* A partial send stays in the state and goes on where it stopped.
send_request ==
  /\ pc = "switch" /\ state = "SEND_REQUEST"
  /\ \E o \in socket_write(sock, SubSeq(write_data, write_offset + 1, Len(write_data))) :
       LET offset == write_offset + o.sent IN
       /\ sock' = o.s
       /\ IF o.rc = "OK" /\ offset = Len(write_data)
            THEN /\ Again("READY")
                 /\ write_data' = <<>> /\ write_offset' = 0 /\ request_ready' = FALSE
            ELSE /\ Again(IF o.rc \in {"OK", "TIMEOUT"} THEN state ELSE "CONNECT_START")
                 /\ write_offset' = offset
                 /\ UNCHANGED <<write_data, request_ready>>
  /\ UNCHANGED <<os, read_data, response_ready, appVars, netVars>>

\* Bytes of the header first, then those that its length asks for.
packet_size(buf) == Answers[buf[Header][1]] - Header
data_needed(buf) ==
  IF Len(buf) >= Header THEN (Header + packet_size(buf)) - Len(buf) ELSE Header - Len(buf)

\* A turn of the loop of receive_response.  It goes round while bytes come;
\* when none came it returns PENDING and the state machine calls it again.
receive_response ==
  /\ pc = "switch" /\ state = "RECEIVE_RESPONSE"
  /\ IF data_needed(read_data) = 0
       THEN Again("READY") /\ response_ready' = TRUE /\ UNCHANGED <<sock, read_data>>
       ELSE \E o \in socket_read(sock, data_needed(read_data)) :
              /\ sock' = o.s
              /\ read_data' = read_data \o o.bytes
              /\ IF o.bytes # <<>> THEN UNCHANGED <<state, pc, ready>>
                 ELSE Again(IF o.rc \in {"OK", "TIMEOUT"} THEN state ELSE "CONNECT_START")
              /\ UNCHANGED response_ready
  /\ UNCHANGED <<os, write_data, write_offset, request_ready, appVars, netVars>>

Handler ==
  \/ tickle_all_tags \/ ConnectStart \/ ConnectWait \/ Select \/ WaitReturns
  \/ WaitFails \/ Reconnect \/ send_request \/ receive_response

-----------------------------------------------------------------------------
(* The application and the destructor *)

\* A start function of the tag, and its wake up after it.
Ask ==
  /\ closing = "no" /\ job = "none" /\ asks < MaxAsks /\ ~waker
  /\ job' = "asked" /\ asks' = asks + 1 /\ waker' = TRUE
  /\ UNCHANGED <<os, sock, state, pc, ready, bufVars, closing, netVars>>

Wake ==
  /\ waker
  /\ waker' = FALSE
  /\ sock' = wake_plc_thread(sock)
  /\ UNCHANGED <<os, state, pc, ready, bufVars, job, asks, closing, netVars>>

\* modbus_plc_destructor, which runs when no tag uses the PLC any more.
SetTerminate ==
  /\ closing = "no" /\ ~waker
  /\ closing' = "flagged"
  /\ UNCHANGED <<os, sock, state, pc, ready, bufVars, job, asks, waker, netVars>>

\* Fault: the destructor joins the handler without waking it.
JoinAtOnce ==
  /\ closing = "flagged"
  /\ closing' = "joining"
  /\ UNCHANGED <<os, sock, state, pc, ready, bufVars, job, asks, waker, netVars>>

WakeToEnd ==
  /\ closing = "flagged"
  /\ closing' = "joining"
  /\ sock' = wake_plc_thread(sock)
  /\ UNCHANGED <<os, state, pc, ready, bufVars, job, asks, waker, netVars>>

JoinAndDestroy ==
  /\ closing = "joining" /\ pc = "done"
  /\ closing' = "destroyed"
  /\ sock' = IF sock = NoSock THEN sock ELSE socket_destroy(sock)
  /\ UNCHANGED <<os, state, pc, ready, bufVars, job, asks, waker, netVars>>

-----------------------------------------------------------------------------
(* The server and the network *)

Connected == sock # NoSock /\ sock.fd # "invalid"

ServerAct(s) ==
  /\ sock' = s
  /\ UNCHANGED <<os, state, pc, ready, bufVars, appVars, conns, taken>>

Accept ==
  /\ Connected /\ sock.end = "none"
  /\ ServerAct([sock EXCEPT !.end = "open"]) /\ UNCHANGED <<put, arrived>>

ServerSends ==
  /\ Connected /\ sock.end = "open"
  /\ \E n \in 1..(SendRoom - Len(sock.in)) :
       /\ put + n <= Len(Stream)
       /\ put' = put + n
       /\ ServerAct([sock EXCEPT !.in = sock.in \o SubSeq(Stream, put + 1, put + n)])
  /\ UNCHANGED arrived

ServerReads ==
  /\ Connected /\ sock.end = "open" /\ sock.out # <<>>
  /\ arrived' = Append(arrived, Head(sock.out))
  /\ ServerAct([sock EXCEPT !.out = Tail(sock.out)])
  /\ UNCHANGED put

HangUp ==
  /\ Connected /\ sock.end = "open"
  /\ ServerAct([sock EXCEPT !.end = "closed"]) /\ UNCHANGED <<put, arrived>>

\* A reset, or a refused connection; bytes not read may be lost with it.
Reset ==
  /\ Connected /\ sock.end # "reset"
  /\ \E in \in {sock.in, <<>>} :
       ServerAct([sock EXCEPT !.end = "reset", !.in = in, !.out = <<>>])
  /\ UNCHANGED <<put, arrived>>

StreamNext ==
  \/ Handler \/ WaitTimesOut \/ ReadyInactive
  \/ Ask \/ Wake \/ SetTerminate \/ WakeToEnd \/ JoinAndDestroy
  \/ Accept \/ ServerSends \/ ServerReads \/ HangUp \/ Reset

\* The threads run on; no timeout of a wait has to pass.
StreamFairness ==
  WF_streamVars(Handler) /\ WF_streamVars(Wake) /\ WF_streamVars(WakeToEnd)
    /\ WF_streamVars(JoinAndDestroy)

StreamSpec == StreamInit /\ [][StreamNext]_streamVars /\ StreamFairness

-----------------------------------------------------------------------------
\* Every byte follows the one before it, in its packet or in the next one.
Framed(bytes, size) ==
  \A i \in DOMAIN bytes :
    \/ bytes[i][2] = 1 /\ (i > 1 => bytes[i - 1][2] = size)
    \/ i > 1 /\ bytes[i] = <<bytes[i - 1][1], bytes[i - 1][2] + 1>>

(***************************************************************************)
(* However TCP cuts the streams, whenever the connection breaks: a packet  *)
(* that is given to the tags is the next one of this connection, whole,    *)
(* and the server gets whole requests one after the other, from their      *)
(* first byte (modbus.c:1344-1424, 2329-2420, 2423-2488).                  *)
(***************************************************************************)
StreamsFramed ==
  /\ response_ready => read_data = Answer(taken + 1)
  /\ Framed(arrived, RequestSize)

(***************************************************************************)
(* A handler in select() will notice that it is wanted: an operation asked *)
(* for, or the destructor waiting to join it, has its wake up pending in   *)
(* the channel (modbus.c:775-786, 1289-1332, platform.c:1583-1590,         *)
(* 1707-1764).                                                             *)
(***************************************************************************)
WakeNotLost ==
  pc = "switch" /\ Waits /\ HasChannel
    /\ ((job = "asked" /\ ~waker) \/ closing = "joining") => sock.wake > 0

(***************************************************************************)
(* The destructor of a PLC does not wait for ever for the handler, though  *)
(* no timeout passes and the server does nothing (modbus.c:770-802).       *)
(***************************************************************************)
HandlerJoined == closing # "no" ~> closing = "destroyed"

(***************************************************************************)
(* A connection that the server has closed is given up: "check for socket  *)
(* errors or disconnects" (modbus.c:1124).                                 *)
(***************************************************************************)
HangUpNoticed == (sock # NoSock /\ sock.end = "closed") ~> (sock = NoSock \/ sock.end # "closed")
=============================================================================
