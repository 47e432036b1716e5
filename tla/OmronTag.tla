------------------------------- MODULE OmronTag -------------------------------
(* Tags of Omron NJ/NX PLCs (protocols/omron/omron_standard_tag.c and the     *)
(* request handling of omron_common.c).  The code began as a copy of the one  *)
(* for Logix tags; what is the same is taken from EipCip, under its own name. *)
(* There is no fragmented service: a read asks for everything, a write must   *)
(* fit into one request.                                                      *)
EXTENDS AbTag

CONSTANTS Avails, NameSize, TypeSize, Elems, ElemSizes, PadTo, Memory, TagBits, Bits,
  RawAvails       \* what the connection may have room for, for a raw request

C == INSTANCE EipCip

conn_add_request(t, r) == session_add_request(t, r)

omron_tag_abort_request_only(t) == ab_tag_abort_request_only(t)
omron_tag_abort_request(t) == [omron_tag_abort_request_only(t) EXCEPT !.offset = 0]

omron_tag_abort(t) == [omron_tag_abort_request(t) EXCEPT !.status = "ABORT", !.rc = "ABORT"]

\* The status of the tag is set on every call, also when there is no request.
StatusSet(c) ==
  [IF c.rc \in Errors THEN omron_tag_abort(c) ELSE c EXCEPT !.status = c.rc, !.rc = c.rc]

omron_check_request_status(t) ==
  StatusSet(
    IF t.abort THEN Ret(omron_tag_abort_request([t EXCEPT !.abort = FALSE]), "ABORT")
    ELSE IF t.req = None
    THEN Ret(IF InProgress(t) THEN [t EXCEPT !.rip = FALSE, !.wip = FALSE, !.offset = 0]
                              ELSE t, "OK")
    ELSE IF ~Answered(t) THEN Ret(t, "PENDING")
    ELSE IF t.req.resp.encap # "OK" THEN Ret(t, "REMOTE_ERR")
    ELSE Ret(t, "OK"))

(***************************************************************************)
(* Requests.  The size of a read is not compared with the room.             *)
(***************************************************************************)
build_read_request_connected(t, byte_offset) ==
  conn_add_request(t, C!Request("READ", 0, <<>>, <<>>, 2 + 1 + NameSize + 2))

build_read_request_unconnected(t, byte_offset) ==
  conn_add_request(t, C!Request("READ", 0, <<>>, <<>>, 1 + NameSize + 2))

tag_read_start(t) ==
  IF InProgress(t) THEN Ret(t, "BUSY")
  ELSE LET s == [t EXCEPT !.rip = TRUE]
       IN  C!ReadStarted(IF t.co THEN build_read_request_connected(s, t.offset)
                                 ELSE build_read_request_unconnected(s, t.offset))

calculate_write_data_per_packet(t) == C!calculate_write_data_per_packet(t)

build_write_bit_request_connected(t) == C!build_write_bit_request_connected(t)
build_write_bit_request_unconnected(t) == C!build_write_bit_request_unconnected(t)

\* Data for more than one request is refused.
Whole(t, head, byte_offset) ==
  LET c == calculate_write_data_per_packet(t)
  IN  IF c.rc # "OK" THEN c
      ELSE IF c.per < t.size THEN Ret(c, "TOO_LARGE")
      ELSE C!Piece(t, head, byte_offset)

build_write_request_connected(t, byte_offset) ==
  IF t.bit # None THEN build_write_bit_request_connected(t) ELSE Whole(t, 2, byte_offset)

build_write_request_unconnected(t, byte_offset) ==
  IF t.bit # None THEN build_write_bit_request_unconnected(t) ELSE Whole(t, 10, byte_offset)

tag_write_start(t) ==
  IF InProgress(t) THEN Ret(t, "BUSY")
  ELSE IF t.first THEN tag_read_start([t EXCEPT !.pre = TRUE])
  ELSE LET s == [t EXCEPT !.wip = TRUE]
       IN  C!WriteStarted(IF t.co THEN build_write_request_connected(s, t.offset)
                                  ELSE build_write_request_unconnected(s, t.offset))

(***************************************************************************)
(* Answers.                                                                 *)
(***************************************************************************)
ReadAnswer(t, r) ==
  IF r.svc # "READ" THEN Ret(t, "BAD_DATA")
  ELSE IF r.status \notin {"OK", "AGAIN"} THEN Ret(t, "REMOTE_ERR")
  ELSE IF r.data = <<>> THEN Ret(t, "OK")
  ELSE IF t.typed = 0 /\ ~r.known THEN Ret(t, "UNSUPPORTED")
  ELSE C!Taken(t, r)

\* The request is given up with omron_tag_abort, which resets the offset: a
\* partial answer (status "AGAIN") is followed by another read of everything.
Onward(t, partial_data) ==
  IF ~t.pre /\ partial_data THEN tag_read_start(t)
  ELSE IF t.pre THEN tag_write_start([t EXCEPT !.offset = 0, !.pre = FALSE])
  ELSE Ret([t EXCEPT !.offset = 0], "OK")

AfterRead(a, partial_data) ==
  LET c == omron_tag_abort(a)
  IN  IF a.rc = "OK" THEN Onward(c, partial_data) ELSE Ret(c, a.rc)

AbortAfterError(n) == IF n.rc \in Errors THEN Ret(omron_tag_abort(n), n.rc) ELSE n

check_read_status_connected(t) ==
  AbortAfterError(AfterRead(ReadAnswer(t, t.req.resp), t.req.resp.status = "AGAIN"))

check_read_status_unconnected(t) == check_read_status_connected(t)

check_write_status_connected(t) ==
  LET rc == C!WriteAnswer(t.req.resp)
      c == omron_tag_abort_request_only(t)
  IN  IF rc = "OK" /\ t.offset < t.size THEN tag_write_start(c)
      ELSE Ret([c EXCEPT !.offset = 0], rc)

check_write_status_unconnected(t) == check_write_status_connected(t)

Tickled(c) ==
  IF c.rc # "OK" THEN c
  ELSE IF c.rip
  THEN C!ReadTickled(IF c.co THEN check_read_status_connected(c)
                             ELSE check_read_status_unconnected(c))
  ELSE IF c.wip
  THEN C!WriteTickled(IF c.co THEN check_write_status_connected(c)
                              ELSE check_write_status_unconnected(c))
  ELSE Ret(c, c.status)

tag_tickler(t) == Tickled(omron_check_request_status(t))

(***************************************************************************)
(* Raw requests (omron_raw_tag.c).  Only a connected one is compared with    *)
(* the room, and without the two bytes that precede it.                      *)
(***************************************************************************)
Sent(t, head) ==
  conn_add_request([t EXCEPT !.size = 0, !.data = <<>>],
                   C!Request("RAW", 0, t.data, <<>>, head + t.size))

raw_tag_build_write_request_connected(t) ==
  IF t.size > avail THEN Ret(t, "TOO_LARGE") ELSE Sent(t, 2)

raw_tag_build_write_request_unconnected(t) == Sent(t, 0)

raw_tag_write_start(t) ==
  IF t.rip THEN Ret(t, "BAD_STATUS")
  ELSE IF t.wip THEN Ret(t, "BUSY")
  ELSE LET s == [t EXCEPT !.wip = TRUE]
       IN  C!WriteStarted(IF t.co THEN raw_tag_build_write_request_connected(s)
                                  ELSE raw_tag_build_write_request_unconnected(s))

\* Whatever the reply says, the application gets all of it.
raw_tag_check_write_status_connected(t) ==
  Ret(omron_tag_abort([t EXCEPT !.wip = FALSE, !.data = t.req.resp.data,
                                !.size = Len(t.req.resp.data)]), "OK")

raw_tag_check_write_status_unconnected(t) == raw_tag_check_write_status_connected(t)

RawTickled(c) ==
  IF c.rc # "OK" THEN c
  ELSE IF c.rip THEN Ret([c EXCEPT !.rip = FALSE, !.rif = FALSE], "UNSUPPORTED")
  ELSE IF c.wip
  THEN C!WriteTickled(IF c.co THEN raw_tag_check_write_status_connected(c)
                              ELSE raw_tag_check_write_status_unconnected(c))
  ELSE Ret(c, c.status)

raw_tag_tickler(t) == RawTickled(omron_check_request_status(t))

\* The PLC: everything at once, or a part with the status of a fragment.
Serve(r, p) ==
  IF r.svc = "RAW"
  THEN {[plc |-> p, resp |-> a] : a \in C!Troubles("RAW")}
         \cup {[plc |-> r.data, resp |-> C!Answer("OK", "RAW", "OK", r.data, TRUE)]}
  ELSE IF r.svc = "READ"
  THEN {[plc |-> p, resp |-> a] :
          a \in C!Troubles("READ")
                \cup {C!Answer("OK", "READ", IF n = Len(p) THEN "OK" ELSE "AGAIN",
                               SubSeq(p, 1, n), k) : n \in 1..Len(p), k \in BOOLEAN}}
  ELSE C!Serve(r, p)

\* omron_tag_create starts the first read; setup_raw_tag wants none.
Init ==
  /\ \/ \E co \in BOOLEAN, bit \in {None} \cup TagBits, es \in ElemSizes :
          /\ avail \in Avails /\ op = [NoOp EXCEPT !.what = "read"]
          /\ tag = tag_read_start(C!Blank("omron", co, bit, es))
          /\ plc = IF bit = None THEN Memory ELSE SubSeq(Memory, 1, Len(Memory) \div Elems)
     \/ \E co \in BOOLEAN :
          /\ tag = [C!Blank("omron_raw", co, None, 1) EXCEPT !.elem_count = 1,
                                             !.first = FALSE, !.rif = FALSE]
          /\ plc = Memory /\ op = NoOp /\ avail \in RawAvails
  /\ touched = {}

\* The vtables of the two kinds.
vtable_read(t) == IF t.kind = "omron" THEN tag_read_start(t) ELSE NotImplemented(t)
vtable_write(t) == IF t.kind = "omron" THEN tag_write_start(t) ELSE raw_tag_write_start(t)
vtable_tickler(t) == IF t.kind = "omron" THEN tag_tickler(t) ELSE raw_tag_tickler(t)

Next ==
  \/ LET t == vtable_read(ReadCalled)
     IN  plc_tag_read(t, omron_tag_abort(plc_tag_abort_impl(t)))
  \/ \E d \in NewData : LET t == vtable_write(WriteCalled(d))
                        IN  plc_tag_write(t, omron_tag_abort(t))
  \/ AbortRequested
  \/ AbortHandled(omron_tag_abort(plc_tag_abort_impl(tag)))
  \/ plc_tag_status(vtable_tickler(tag))
  \/ tag_tickler_func(vtable_tickler(plc_tag_generic_tickler(omron_tag_abort(tag))))
  \/ PlcServes(Serve(Head(Waiting), plc))
  \/ AnswerLost(Serve(Head(Waiting), plc), IF tag.kind = "omron" THEN Avails ELSE RawAvails)
  \/ Purged
  \/ PlcChanges
  \/ Dead
=============================================================================
