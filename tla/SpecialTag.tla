------------------------------ MODULE SpecialTag ------------------------------
(* The tags of Logix PLCs that do not name a variable                         *)
(* (protocols/ab/eip_cip_special.c): a raw CIP request, the identity of the   *)
(* device, the list of its tags and the description of a structure (UDT).     *)
(* A place of the PLC stands for a byte of a raw request or of an identity,   *)
(* for an entry of the tag list, and for the header or a piece of the fields  *)
(* of a UDT.  Entry i of the list has instance id i.                          *)
EXTENDS AbTag

CONSTANTS
  NameSize, Memory, TypeSize, Elems, TagBits, Bits,   \* as in EipCip
  Rooms           \* by kind, what the session may have room for

C == INSTANCE EipCip WITH Avails <- {}, ElemSizes <- {0}, PadTo <- 1

Request(svc, off, data, bytes) == C!Request(svc, off, data, <<>>, bytes)

\* The data of an answer r put over the tag's at offset o.
Placed(t, o, d) ==
  LET size == IF o + Len(d) > t.size THEN o + Len(d) ELSE t.size
  IN  [t EXCEPT !.size = size,
                !.data = [i \in 1..size |-> IF i > o /\ i <= o + Len(d) THEN d[i - o]
                                            ELSE IF i <= t.size THEN t.data[i] ELSE {}],
                !.rc = "OK"]

\* The answer becomes the data.
Replaced(t, d) == [t EXCEPT !.data = d, !.size = Len(d), !.rc = "OK"]

(***************************************************************************)
(* Raw requests.                                                            *)
(***************************************************************************)
\* The room is checked before the old data is forgotten.
raw_tag_build_write_request_connected(t) ==
  IF 2 + t.size > avail THEN Ret(ab_tag_abort_request(t), "TOO_LARGE")
  ELSE session_add_request([t EXCEPT !.size = 0, !.data = <<>>],
                           Request("RAW", 0, t.data, 2 + t.size))

raw_tag_build_write_request_unconnected(t) ==
  IF t.size > avail THEN Ret(ab_tag_abort_request(t), "TOO_LARGE")
  ELSE session_add_request([t EXCEPT !.size = 0, !.data = <<>>],
                           Request("RAW", 0, t.data, t.size))

raw_tag_write_start(t) ==
  IF t.rip THEN Ret(t, "BAD_STATUS")
  ELSE IF t.wip THEN Ret(t, "BUSY")
  ELSE LET s == [t EXCEPT !.wip = TRUE]
           b == IF t.co THEN raw_tag_build_write_request_connected(s)
                        ELSE raw_tag_build_write_request_unconnected(s)
       IN  IF b.rc = "OK" THEN Ret(b, "PENDING") ELSE [b EXCEPT !.wip = FALSE]

\* Whatever the reply says, the application gets all of it.
raw_tag_check_write_status_connected(t) ==
  Ret(ab_tag_abort_request(Replaced(t, t.req.resp.data)), "OK")

raw_tag_check_write_status_unconnected(t) == raw_tag_check_write_status_connected(t)

raw_tag_tickler(t) ==
  LET c == check_request_status(t)
      w == IF c.co THEN raw_tag_check_write_status_connected(c)
                   ELSE raw_tag_check_write_status_unconnected(c)
  IN  IF c.rc # "OK" THEN c
      ELSE IF c.rip THEN Ret([ab_tag_abort_request(c) EXCEPT !.rdone = TRUE], "UNSUPPORTED")
      ELSE IF c.wip THEN [w EXCEPT !.status = w.rc, !.wdone = @ \/ ~w.wip]
      ELSE Ret(c, c.status)

(***************************************************************************)
(* The read-only tags.                                                      *)
(***************************************************************************)
Reading(t) == [t EXCEPT !.rip = TRUE]

\* b is the tag with its request built.
Started(t, b) ==
  IF t.wip THEN Ret(t, "BAD_STATUS")
  ELSE IF t.rip THEN Ret(t, "BUSY")
  ELSE IF b.rc = "OK" THEN Ret(b, "PENDING") ELSE [b EXCEPT !.rip = FALSE]

\* c is what check_request_status left, and r what taking the answer makes of it.
Tickled(c, r) ==
  IF c.rc # "OK" THEN c
  ELSE IF c.wip THEN Ret([ab_tag_abort_request(c) EXCEPT !.wdone = TRUE], "UNSUPPORTED")
  ELSE IF c.rip THEN [r EXCEPT !.status = r.rc, !.rdone = @ \/ ~r.rip]
  ELSE Ret(c, c.status)

\* The service and the status of an answer.
Checked(r, svc) ==
  IF r.svc # svc THEN "BAD_DATA"
  ELSE IF r.status \notin {"OK", "FRAG", "AGAIN"} THEN "REMOTE_ERR" ELSE "OK"

\* Identity: both builders send without looking at the room.
identity_tag_build_read_request_connected(t) ==
  session_add_request(t, Request("GET_ALL", 0, <<>>, 2 + 6))

identity_tag_build_read_request_unconnected(t) ==
  session_add_request(t, Request("GET_ALL", 0, <<>>, 6))

identity_tag_read_start(t) ==
  Started(t, IF t.co THEN identity_tag_build_read_request_connected(Reading(t))
                     ELSE identity_tag_build_read_request_unconnected(Reading(t)))

\* A connected tag keeps the header of the reply before the data.
identity_tag_check_read_status_connected(t) ==
  LET rc == Checked(t.req.resp, "GET_ALL")
      a == IF rc = "OK" THEN Replaced(t, <<{}>> \o t.req.resp.data) ELSE t
  IN  Ret(ab_tag_abort_request(a), rc)

identity_tag_check_read_status_unconnected(t) ==
  LET rc == Checked(t.req.resp, "GET_ALL")
      a == IF rc = "OK" THEN Replaced(t, t.req.resp.data) ELSE t
  IN  Ret(ab_tag_abort_request(a), rc)

identity_tag_tickler(t) ==
  LET c == check_request_status(t)
  IN  Tickled(c, IF c.co THEN identity_tag_check_read_status_connected(c)
                         ELSE identity_tag_check_read_status_unconnected(c))

\* The list of tags, from instance next_id on.
listing_tag_build_read_request_connected(t) ==
  LET bytes == 2 + 1 + 1 + NameSize + 6 + 2 + 8
  IN  IF bytes > avail THEN Ret(ab_tag_abort_request(t), "TOO_LARGE")
      ELSE session_add_request([t EXCEPT !.rip = TRUE],
                               Request("LIST", t.next_id, <<>>, bytes))

listing_tag_read_start(t) ==
  Started(t, listing_tag_build_read_request_connected(Reading(t)))

\* The number of entries the tag has ever seen, elem_count, is left out.
Listed(t, r) ==
  IF r.data = <<>> THEN Ret(t, "OK")
  ELSE [Placed(t, t.offset, r.data) EXCEPT !.offset = @ + Len(r.data), !.next_id = r.last + 1]

listing_tag_check_read_status_connected(t) ==
  LET r == t.req.resp
      rc == Checked(r, "LIST")
      c == ab_tag_abort_request_only(IF rc = "OK" THEN Listed(t, r) ELSE t)
      n == IF rc # "OK" THEN Ret(c, rc)
           ELSE IF r.status = "FRAG" THEN listing_tag_build_read_request_connected(c)
           ELSE Ret([c EXCEPT !.first = FALSE, !.offset = 0, !.next_id = 0], "OK")
  IN  IF n.rc \in Errors THEN Ret(ab_tag_abort_request([n EXCEPT !.next_id = 0]), n.rc) ELSE n

listing_tag_tickler(t) ==
  LET c == check_request_status(t)
  IN  Tickled(c, listing_tag_check_read_status_connected(c))

\* A UDT is read in two parts: the metadata at once, then the fields.
udt_tag_build_read_metadata_request_connected(t) ==
  LET bytes == 2 + 1 + 1 + 6 + 2 + 8
  IN  IF bytes > avail THEN Ret(ab_tag_abort_request(t), "TOO_LARGE")
      ELSE session_add_request([t EXCEPT !.rip = TRUE], Request("GET_LIST", 0, <<>>, bytes))

udt_tag_build_read_fields_request_connected(t) ==
  LET bytes == 2 + 1 + 1 + 6 + 4 + 2
  IN  IF bytes > avail THEN Ret(ab_tag_abort_request(t), "TOO_LARGE")
      ELSE session_add_request([t EXCEPT !.rip = TRUE], Request("READ", t.offset, <<>>, bytes))

udt_tag_read_start(t) ==
  Started(t, udt_tag_build_read_metadata_request_connected(
               [Reading(t) EXCEPT !.fields = FALSE, !.offset = 0]))

Queued(t) == IF t.rc = "OK" THEN Ret(t, "PENDING") ELSE t

\* Nothing of a partial answer (status "AGAIN") is kept, it is asked for again.
udt_tag_check_read_metadata_status_connected(t) ==
  LET r == t.req.resp
      rc == Checked(r, "GET_LIST")
      c == ab_tag_abort_request(IF rc = "OK" /\ r.status # "AGAIN" THEN Replaced(t, r.data) ELSE t)
      n == IF rc # "OK" THEN Ret(c, rc)
           ELSE IF r.status = "AGAIN" THEN udt_tag_build_read_metadata_request_connected(c)
           ELSE Queued(udt_tag_build_read_fields_request_connected(
                         [c EXCEPT !.offset = 0, !.fields = TRUE]))
  IN  IF n.rc \in Errors
      THEN Ret(ab_tag_abort_request([n EXCEPT !.fields = FALSE]), n.rc) ELSE n

\* The fields follow the header, one place; the buffer grows by every answer.
udt_tag_check_read_fields_status_connected(t) ==
  LET r == t.req.resp
      rc == Checked(r, "READ")
      grown == [Placed(t, t.offset + 1, r.data) EXCEPT !.offset = @ + Len(r.data)]
      c == ab_tag_abort_request_only(IF rc = "OK" /\ r.data # <<>> THEN grown ELSE t)
      n == IF rc # "OK" THEN Ret(c, rc)
           ELSE IF r.status = "FRAG" THEN Queued(udt_tag_build_read_fields_request_connected(c))
           ELSE Ret([c EXCEPT !.fields = FALSE, !.offset = 0], "OK")
  IN  IF n.rc \in Errors
      THEN Ret(ab_tag_abort_request([n EXCEPT !.fields = FALSE]), n.rc) ELSE n

udt_tag_tickler(t) ==
  LET c == check_request_status(t)
  IN  Tickled(c, IF c.fields THEN udt_tag_check_read_fields_status_connected(c)
                             ELSE udt_tag_check_read_metadata_status_connected(c))

(***************************************************************************)
(* The PLC.                                                                 *)
(***************************************************************************)
Answer(svc, status, data, last) ==
  [encap |-> "OK", svc |-> svc, status |-> status, data |-> data, last |-> last]

\* Answers to a read: a part of what follows place o, or all the rest.
Parts(svc, o, p) ==
  {Answer(svc, "FRAG", SubSeq(p, o + 1, n), n) : n \in (o + 1)..Len(p)}
    \cup {Answer(svc, "OK", SubSeq(p, o + 1, Len(p)), Len(p))}

Answers(r, p) ==
  CASE r.svc = "GET_ALL" -> {Answer("GET_ALL", "OK", p, 0)}
    [] r.svc = "LIST" -> Parts("LIST", IF r.off = 0 THEN 0 ELSE r.off - 1, p)
    [] r.svc = "GET_LIST" -> {Answer("GET_LIST", "OK", <<p[1]>>, 0),
                              Answer("GET_LIST", "AGAIN", <<>>, 0)}
    [] r.svc = "READ" -> Parts("READ", r.off + 1, p)

\* The raw request stands for a service that stores its data and returns it.
Serve(r, p) ==
  {[plc |-> p, resp |-> a] : a \in C!Troubles(r.svc)}
    \cup (IF r.svc = "RAW"
          THEN {[plc |-> r.data, resp |-> Answer("RAW", "OK", r.data, 0)]}
          ELSE {[plc |-> p, resp |-> a] : a \in Answers(r, p)})

(***************************************************************************)
(* The steps.                                                               *)
(***************************************************************************)
\* setup_raw_tag, setup_identity_tag, setup_tag_listing_tag and setup_udt_tag:
\* no first read.
Blank(kind, co) ==
  [C!Blank(kind, co, None, 1) EXCEPT !.elem_count = 1, !.first = FALSE, !.rif = FALSE]

Init ==
  /\ \E k \in {"raw", "identity", "listing", "udt"}, co \in BOOLEAN :
       /\ k \in {"listing", "udt"} => co
       /\ tag = Blank(k, co) /\ avail \in Rooms[k]
  /\ plc = Memory /\ op = NoOp /\ touched = {}

\* The vtables of the kinds: the first one is written only, the others read only.
vtable_read(t) ==
  CASE t.kind = "identity" -> identity_tag_read_start(t)
    [] t.kind = "listing" -> listing_tag_read_start(t)
    [] t.kind = "udt" -> udt_tag_read_start(t)
    [] t.kind = "raw" -> NotImplemented(t)
vtable_write(t) == IF t.kind = "raw" THEN raw_tag_write_start(t) ELSE NotImplemented(t)
vtable_tickler(t) ==
  CASE t.kind = "identity" -> identity_tag_tickler(t)
    [] t.kind = "listing" -> listing_tag_tickler(t)
    [] t.kind = "udt" -> udt_tag_tickler(t)
    [] t.kind = "raw" -> raw_tag_tickler(t)

Next ==
  \/ LET t == vtable_read(ReadCalled)
     IN  plc_tag_read(t, ab_tag_abort_request(plc_tag_abort_impl(t)))
  \/ \E d \in NewData : LET t == vtable_write(WriteCalled(d))
                        IN  plc_tag_write(t, ab_tag_abort_request(t))
  \/ AbortRequested
  \/ AbortHandled(ab_tag_abort_request(plc_tag_abort_impl(tag)))
  \/ plc_tag_status(vtable_tickler(tag))
  \/ tag_tickler_func(vtable_tickler(plc_tag_generic_tickler(ab_tag_abort_request(tag))))
  \/ PlcServes(Serve(Head(Waiting), plc))
  \/ AnswerLost(Serve(Head(Waiting), plc), Rooms[tag.kind])
  \/ Purged
  \/ PlcChanges
=============================================================================
