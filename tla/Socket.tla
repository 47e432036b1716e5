------------------------------- MODULE Socket -------------------------------
(***************************************************************************)
(* The TCP socket of platform/posix/platform.c: a non-blocking descriptor  *)
(* and a pair of local sockets that another thread writes to when it wants *)
(* to end the select() of the thread that waits.  A call is the set of its *)
(* possible outcomes: the socket afterwards and what the caller is told.   *)
(* The waiting inside a call is the delay before its step; a call with a   *)
(* timeout gives up only when nothing is there.                            *)
(***************************************************************************)
EXTENDS Integers, Sequences, SequencesExt

CONSTANTS
  NoSock,    \* the NULL pointer
  WakeRoom,  \* wake up messages that the local pair buffers
  SendRoom   \* bytes that TCP takes before the peer reads

NoChannel == 0 - 1

\* struct sock_t, with the connection as the kernel knows it: the bytes that
\* came and were not read, those not delivered yet, and the far end.
Sock(wake) ==
  [fd |-> "invalid", wake |-> wake, in |-> <<>>, out |-> <<>>, end |-> "none"]

Outcome(s, rc) == [s |-> s, rc |-> rc]

sock_create_event_wakeup_channel ==
  {Outcome(Sock(0), "OK"), Outcome(Sock(NoChannel), "BAD_REPLY")}

\* A socket without a channel stays with the caller, with an error.
socket_create == {Outcome(NoSock, "NO_MEM")} \cup sock_create_event_wakeup_channel

\* Only a descriptor whose connect() succeeded or started is kept.
socket_connect_tcp_start(s) ==
  LET new == [s EXCEPT !.in = <<>>, !.out = <<>>] IN
  {Outcome([new EXCEPT !.fd = "up", !.end = "open"], "OK"),
   Outcome([new EXCEPT !.fd = "connecting", !.end = "none"], "PENDING"),
   Outcome(s, "OPEN"), Outcome(s, "BAD_GATEWAY")}

\* Writable, and SO_ERROR tells a refused connection from one that is there.
socket_connect_tcp_check(s) ==
  CASE s.end = "none" -> {Outcome(s, "TIMEOUT")}
    [] s.end = "reset" -> {Outcome(s, "OPEN")}
    [] OTHER -> {Outcome([s EXCEPT !.fd = "up"], "OK")}

-----------------------------------------------------------------------------
(* socket_wait_event: select(), then a look at what it found *)

DEFAULT_MASK == {"TIMEOUT", "DISCONNECT", "ERROR", "WAKE_UP"}

Readable(s) == s.in # <<>> \/ s.end \in {"closed", "reset"}
Writable(s) == Len(s.out) < SendRoom \/ s.end = "reset"

\* What select() may report; with nothing to report it waits.
Selected(s, events) ==
  LET sure == (IF s.wake > 0 THEN {"wake"} ELSE {})
              \cup (IF s.fd # "invalid" /\ "CAN_READ" \in events /\ Readable(s)
                      THEN {"read"} ELSE {})
              \cup (IF s.fd # "invalid" /\ events \cap {"CAN_WRITE", "CONNECT"} # {} /\ Writable(s)
                      THEN {"write"} ELSE {})
      maybe == IF s.fd # "invalid" /\ s.end = "reset" THEN {"err"} ELSE {} IN
  {sure, sure \cup maybe} \ {{}}

\* recv() with MSG_PEEK.
Peeked(s) ==
  IF s.in # <<>> THEN {"CAN_READ"}
  ELSE IF s.end \in {"closed", "reset"} THEN {"DISCONNECT"} ELSE {}

Drained(s) == [s EXCEPT !.wake = 0]

\* The events by what select() found; SO_ERROR may have been read before.
Reported(s, events, ready) ==
  LET woken == IF "wake" \in ready THEN {"WAKE_UP"} ELSE {}
      read == IF "read" \in ready THEN Peeked(s) ELSE {}
      written == IF "write" \in ready THEN {"CAN_WRITE", "CONNECT"} ELSE {}
      error == IF "err" \in ready THEN {{}, {"ERROR"}} ELSE {{}} IN
  {Outcome(IF "wake" \in ready THEN Drained(s) ELSE s,
           events \cap (woken \cup read \cup written \cup e)) : e \in error}

TimedOut(s, events) == Outcome(s, events \cap {"TIMEOUT"})

\* PLCTAG_ERR_BAD_CONFIG and PLCTAG_ERR_NULL_PTR, -2 and -25, read as events.
BAD_CONFIG == {"DISCONNECT", "ERROR", "CAN_READ", "CAN_WRITE", "WAKE_UP", "CONNECT"}
NULL_PTR == {"TIMEOUT", "DISCONNECT", "ERROR", "WAKE_UP", "CONNECT"}

-----------------------------------------------------------------------------
\* A full pair means that a wake up is pending already.
socket_wake(s) ==
  IF s.wake = NoChannel THEN s
  ELSE [s EXCEPT !.wake = IF s.wake < WakeRoom THEN s.wake + 1 ELSE s.wake]

Most(a, b) == IF a < b THEN a ELSE b

\* One read() after waiting: some of the bytes, the end of them as 0, an error.
socket_read(s, size) ==
  IF s.fd = "invalid" THEN {[s |-> s, rc |-> "READ", bytes |-> <<>>]}
  ELSE IF s.in # <<>> THEN
    {[s |-> [s EXCEPT !.in = SubSeq(s.in, n + 1, Len(s.in))], rc |-> "OK",
      bytes |-> SubSeq(s.in, 1, n)] : n \in 1..Most(size, Len(s.in))}
  ELSE {[s |-> s, bytes |-> <<>>,
         rc |-> CASE s.end = "closed" -> "OK" [] s.end = "reset" -> "READ"
                  [] OTHER -> "TIMEOUT"]}

socket_write(s, bytes) ==
  IF s.fd = "invalid" \/ s.end = "reset" THEN {[s |-> s, rc |-> "WRITE", sent |-> 0]}
  ELSE IF Len(s.out) >= SendRoom THEN {[s |-> s, rc |-> "TIMEOUT", sent |-> 0]}
  ELSE {[s |-> [s EXCEPT !.out = s.out \o SubSeq(bytes, 1, n)], rc |-> "OK", sent |-> n] :
          n \in 1..Most(Len(bytes), SendRoom - Len(s.out))}

\* SO_LINGER of 0: what was not delivered is dropped.
socket_close(s) == [s EXCEPT !.fd = "invalid", !.in = <<>>, !.out = <<>>, !.end = "none"]

socket_destroy(s) == NoSock
=============================================================================
