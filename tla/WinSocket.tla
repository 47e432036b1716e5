----------------------------- MODULE WinSocket ------------------------------
(***************************************************************************)
(* platform/windows/platform.c: the same socket over Winsock.  The calls   *)
(* have the control of the POSIX ones, so each is that one, except where   *)
(* the code differs: how a refused connection and a broken one show up.    *)
(***************************************************************************)
EXTENDS Integers, Sequences, SequencesExt

CONSTANTS NoSock, WakeRoom, SendRoom

P == INSTANCE Socket

\* A pair of connected loopback sockets, made with a listener of its own.
sock_create_event_wakeup_channel ==
  {[o EXCEPT !.rc = IF o.rc = "OK" THEN "OK" ELSE "WINSOCK"] :
     o \in P!sock_create_event_wakeup_channel}

socket_create ==
  {P!Outcome(NoSock, "WINSOCK"), P!Outcome(NoSock, "NO_MEM")}
    \cup sock_create_event_wakeup_channel

socket_connect_tcp_start(s) == P!socket_connect_tcp_start(s)

\* A refused connection is in the error set, an open one in the write set.
socket_connect_tcp_check(s) == P!socket_connect_tcp_check(s)

Selected(s, events) == P!Selected(s, events)

\* A failed recv() is an error here, not a disconnect.
Peeked(s) ==
  IF s.in # <<>> THEN {"CAN_READ"}
  ELSE CASE s.end = "closed" -> {"DISCONNECT"} [] s.end = "reset" -> {"ERROR"}
         [] OTHER -> {}

Reported(s, events, ready) ==
  LET woken == IF "wake" \in ready THEN {"WAKE_UP"} ELSE {}
      read == IF "read" \in ready THEN Peeked(s) ELSE {}
      written == IF "write" \in ready THEN {"CAN_WRITE", "CONNECT"} ELSE {}
      error == IF "err" \in ready THEN {{}, {"ERROR"}} ELSE {{}} IN
  {P!Outcome(IF "wake" \in ready THEN P!Drained(s) ELSE s,
             events \cap (woken \cup read \cup written \cup e)) : e \in error}

socket_wake(s) == P!socket_wake(s)
socket_read(s, size) == P!socket_read(s, size)

\* An unopened socket is reported as a failure to read.
socket_write(s, bytes) ==
  IF s.fd = "invalid" THEN {[s |-> s, rc |-> "READ", sent |-> 0]}
  ELSE P!socket_write(s, bytes)

socket_close(s) == P!socket_close(s)
socket_destroy(s) == P!socket_destroy(s)
=============================================================================
