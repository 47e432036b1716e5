------------------------------ MODULE OmronConn ------------------------------
(***************************************************************************)
(* One Omron connection (protocols/omron/conn.c).  conn.c is a fork of     *)
(* ab/session.c and works on the same state, so most definitions here say  *)
(* which one of AbSession a function of conn.c equals.  What differs:      *)
(*                                                                         *)
(*  - a request is packed only if the size of its answer is known, and     *)
(*    only as many as leave room for all their answers;                    *)
(*  - the inactivity timeout is compared with the time after the requests  *)
(*    are processed, so that a slow exchange may end in a disconnect;      *)
(*  - a hole in the queue is never looked at without a null pointer access;*)
(*  - messages are always connected (omron_common.c sets                   *)
(*    use_connected_msg) and the wait after an error does not grow.        *)
(***************************************************************************)
EXTENDS Integers, Sequences, SequencesExt, FiniteSetsExt

CONSTANTS
  Tags, Reqs, Size, Packable, PcccSize, FoSize, FoExSize, PlcSizes, Connects, MaxRequests,
  MultiHeader, OffsetEntry, Faults, None,  \* as in AbSession
  RespSize,      \* RespSize[r]: response_size, the data the answer brings
  FirstReads,    \* requests with first_read set: the answer's size is not known
  RespHeader,    \* 2 + 4 + 10 bytes of a packed answer
  RespEntry      \* 8 + 2 bytes for each answer in it

VARIABLES queue, moving, req, holds, tags, h, net, plc, life, left

vars == <<queue, moving, req, holds, tags, h, net, plc, life, left>>

S == INSTANCE AbSession

create_omron_njnx_conn_unsafe == S!create_lgx_session_unsafe

Init ==
  /\ S!Init
  /\ \E forced \in BOOLEAN :
       h = S!session_create_unsafe(create_omron_njnx_conn_unsafe, TRUE, forced)

-----------------------------------------------------------------------------
\* Tags.

\* get_payload_size always counts an offset entry.
get_payload_size(r) == Size[r] + OffsetEntry

conn_create_request(r) == S!session_create_request(r)

conn_add_request(t, r) ==
  /\ get_payload_size(r) <= h.payload
  /\ S!session_add_request(t, r)

omron_tag_abort(t) == S!ab_tag_abort(t)
omron_tag_destroy(t) == S!ab_tag_destroy(t)
check_request_status(t) == S!check_request_status(t)

-----------------------------------------------------------------------------
\* process_requests.

SumOver(f(_), q, k) == FoldLeft(LAMBDA a, r : a + f(r), 0, SubSeq(q, 1, k))

\* What is left for requests and for answers after the first k of q.
RequestSpace(q, k) ==
  h.payload - SumOver(get_payload_size, q, k)
    - IF k = 1 THEN 0 ELSE MultiHeader + k * OffsetEntry

ResponseSpace(q, k) ==
  h.payload - RespHeader - SumOver(LAMBDA r : RespSize[r] + RespEntry, q, k)

allow_packing(r) == r \in Packable \ FirstReads

Packs(q, k) ==
  /\ k <= MaxRequests
  /\ \A i \in 1 .. k : q[i] # None
  /\ RequestSpace(q, k) >= 0
  /\ k > 1 => /\ \A i \in 1 .. k : allow_packing(q[i])
              /\ ResponseSpace(q, k) >= 0

BundleLength(q) ==
  Max({0} \cup {k \in DOMAIN q : \A j \in 1 .. k : Packs(q, j)})

\* The loop looks at a hole in the queue, also as the first entry.
RunsIntoHole(q) ==
  LET k == BundleLength(q) IN
    /\ k \in 0 .. (Len(q) - 1) /\ k < MaxRequests /\ q[k + 1] = None
    /\ k > 0 => allow_packing(q[1])

process_requests ==
  /\ h.state = "process"
  /\ LET k == BundleLength(S!Purged) IN
       /\ queue' = SubSeq(S!Purged, k + 1, Len(S!Purged))
       /\ req' = S!purge_aborted_requests_unsafe
       /\ h' = [h EXCEPT
                  !.state = IF RunsIntoHole(S!Purged) THEN "crashed"
                            ELSE IF k = 0 THEN "idle_end" ELSE "send",
                  !.bundle = SubSeq(S!Purged, 1, k)]
  /\ UNCHANGED <<moving, holds, tags, net, plc, life, left>>

pack_requests == S!pack_requests
send_eip_request == S!send_eip_request
Accepts(p) == S!Accepts(p)
recv_eip_response == S!recv_eip_response
unpack_response(r, s) == S!unpack_response(r, s)
UnpackNext == S!UnpackNext
PushBegins == S!PushBegins
PushEnds == S!PushEnds

-----------------------------------------------------------------------------
\* conn_handler.

\* CONN_IDLE up to process_requests.
IdleBegins ==
  /\ S!Cycle("IDLE", S!Go("process"))
  /\ UNCHANGED <<net, left>>

\* The rest of CONN_IDLE, after an error or without one: the time may be up
\* although there was something to do.
IdleEnds ==
  /\ \/ h.state = "idle_end"
     \/ h.state = "push" /\ ~ moving.on /\ h.bundle = <<>>
  /\ \E due \in BOOLEAN :
       /\ due => left > 0
       /\ left' = IF due THEN left - 1 ELSE left
       /\ h' = [h EXCEPT !.state = IF due \/ @ = "push" THEN "DISCONNECT" ELSE "IDLE",
                         !.auto = @ \/ due]
  /\ UNCHANGED <<queue, moving, req, holds, tags, net, plc, life>>

\* conn.c has copies of the functions of session.c, equal up to names; the actions
\* below run them.
conn_open_socket == S!session_open_socket
OpenSocketStart == S!OpenSocketStart
OpenSocketWait == S!OpenSocketWait
conn_register == S!session_register
Register == S!Register
send_old_forward_open_request(size) == S!send_old_forward_open_request(size)
send_extended_forward_open_request(size) == S!send_extended_forward_open_request(size)
send_forward_open_request == S!send_forward_open_request
SendForwardOpen == S!SendForwardOpen
receive_forward_open_response(p) == S!receive_forward_open_response(p)
ReceiveForwardOpen == S!ReceiveForwardOpen
purge_aborted_requests_unsafe == S!purge_aborted_requests_unsafe
perform_forward_close == S!perform_forward_close
conn_unregister == S!session_unregister
conn_close_socket == S!session_close_socket
StartRetry ==
  /\ S!Cycle("START_RETRY", S!Go("WAIT_ERR_RETRY"))
  /\ UNCHANGED <<net, left>>
WaitErrRetry == S!WaitErrRetry
WaitIdleReconnect == S!WaitIdleReconnect
HandlerExits == S!HandlerExits

\* conn_destroy, like session_destroy, has three steps.
conn_destroy == S!session_destroy
DestroyJoins == S!DestroyJoins
DestroyReleases == S!DestroyReleases

Handler ==
  \/ OpenSocketStart \/ OpenSocketWait \/ Register
  \/ SendForwardOpen \/ ReceiveForwardOpen
  \/ IdleBegins \/ process_requests \/ send_eip_request \/ recv_eip_response
  \/ UnpackNext \/ PushBegins \/ PushEnds \/ IdleEnds
  \/ perform_forward_close \/ conn_unregister \/ conn_close_socket
  \/ StartRetry \/ WaitErrRetry \/ WaitIdleReconnect \/ HandlerExits

Destroy == conn_destroy \/ DestroyJoins \/ DestroyReleases

Next ==
  \/ Handler \/ Destroy \/ S!PlcAnswers \/ S!Shutdown
  \/ \E t \in Tags :
       \/ check_request_status(t) \/ omron_tag_abort(t) \/ omron_tag_destroy(t)
       \/ \E r \in Reqs : conn_add_request(t, r)

Fairness == WF_vars(Handler) /\ WF_vars(Destroy) /\ WF_vars(S!PlcAnswers)

Spec == Init /\ [][Next]_vars /\ Fairness
=============================================================================
