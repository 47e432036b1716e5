-------------------------------- MODULE EipCip --------------------------------
(* Tags of Logix PLCs (protocols/ab/eip_cip.c): reads and writes in as many   *)
(* pieces as the session's packets need, the read before a first write, and  *)
(* writes of one bit by masks.                                               *)
EXTENDS AbTag

CONSTANTS
  Avails,         \* what the session may have room for in one request
  NameSize,       \* encoded_name_size, bytes
  TypeSize,       \* encoded_type_info_size once the type is known, bytes
  Elems,          \* elements of the tag
  ElemSizes,      \* what the elem_type attribute says of their size, 0: nothing
  PadTo,          \* str_pad_to_multiple_bytes
  Memory,         \* what the PLC holds at first; a bit tag has one element of it
  TagBits,        \* bits a tag may name: byte of the element and bit of the byte
  Bits            \* the bits of a byte

Request(svc, off, data, mask, bytes) ==
  [svc |-> svc, off |-> off, data |-> data, mask |-> mask,
   fits |-> bytes <= avail, resp |-> None]

Even(n) == n + (n % 2)

(***************************************************************************)
(* Building requests.                                                       *)
(***************************************************************************)
\* The connected form counts the sequence number before the request, the
\* unconnected form only the embedded request.
build_read_request_connected(t, byte_offset) ==
  LET bytes == 2 + 1 + NameSize + 2 + 4
  IN  IF bytes > avail THEN Ret(ab_tag_abort_request(t), "TOO_LARGE")
      ELSE session_add_request(t, Request("READ_FRAG", byte_offset, <<>>, <<>>, bytes))

build_read_request_unconnected(t, byte_offset) ==
  LET bytes == 1 + NameSize + 2 + 4
  IN  IF bytes > avail THEN Ret(ab_tag_abort_request(t), "TOO_LARGE")
      ELSE session_add_request(t, Request("READ_FRAG", byte_offset, <<>>, <<>>, bytes))

\* The builder left b: the answer is awaited, or nothing was started.
ReadStarted(b) == IF b.rc = "OK" THEN Ret(b, "PENDING") ELSE [b EXCEPT !.rip = FALSE]
WriteStarted(b) == IF b.rc = "OK" THEN Ret(b, "PENDING") ELSE [b EXCEPT !.wip = FALSE]

tag_read_start(t) ==
  IF InProgress(t) THEN Ret(t, "BUSY")
  ELSE LET s == [t EXCEPT !.rip = TRUE]
       IN  ReadStarted(IF t.co THEN build_read_request_connected(s, t.offset)
                               ELSE build_read_request_unconnected(s, t.offset))

\* Fault: one unit of data is sent at least, whether there is room for it or not.
PerPacketUnchecked(t) ==
  [t EXCEPT !.per = IF t.elem_size \in 1..8 THEN t.elem_size ELSE 8, !.rc = "OK"]

\* Division by elem_size: a tag whose first read failed may have none.
calculate_write_data_per_packet(t) ==
  LET overhead == Even((IF t.co THEN 1 ELSE 11) + NameSize + t.typed + 2 + 4 + 8)
      room == avail - overhead
      unit == IF t.elem_size < 8 THEN t.elem_size ELSE 8
  IN  IF room <= 0 THEN Ret(t, "TOO_LARGE")
      ELSE IF unit = 0 THEN Ret(t, "CRASH")
      ELSE IF room \div unit < 1 THEN Ret(t, "TOO_LARGE")
      ELSE [t EXCEPT !.per = (room \div unit) * unit, !.rc = "OK"]

OrMask(t) ==
  [i \in 1..t.elem_size |->
     IF i = t.bit.byte /\ t.bit.nth \in t.data[i] THEN {t.bit.nth} ELSE {}]

\* Fault: the other bits of the byte are masked off as well.
AndMaskNarrow(t) ==
  [i \in 1..t.elem_size |->
     IF i = t.bit.byte /\ t.bit.nth \notin t.data[i] THEN {} ELSE Bits]

AndMask(t) ==
  [i \in 1..t.elem_size |->
     IF i = t.bit.byte /\ t.bit.nth \notin t.data[i] THEN Bits \ {t.bit.nth} ELSE Bits]

\* Both forms; a tag without data has no byte to look at.
BitRequest(t, head) ==
  LET c == calculate_write_data_per_packet(t)
  IN  IF c.rc # "OK" THEN c
      ELSE IF c.per < t.size * 2 + 2 THEN Ret(c, "TOO_SMALL")
      ELSE IF t.bit.byte > t.size THEN Ret(c, "CRASH")
      ELSE session_add_request([c EXCEPT !.offset = t.size],
             Request("RMW", 0, OrMask(t), AndMask(t),
                     head + 1 + NameSize + 2 + 2 * t.elem_size))

build_write_bit_request_connected(t) == BitRequest(t, 2)
build_write_bit_request_unconnected(t) == BitRequest(t, 10)

Padding(n) == IF PadTo \in {2, 4} /\ n % PadTo # 0 THEN PadTo - (n % PadTo) ELSE 0

\* Fault: the offset is not advanced by what the request takes along.
PieceStays(t, head, byte_offset) ==
  LET c == calculate_write_data_per_packet(t)
      n == IF t.size - t.offset > c.per THEN c.per ELSE t.size - t.offset
  IN  IF c.rc # "OK" THEN c
      ELSE session_add_request([c EXCEPT !.offset = t.size],
             Request("WRITE_FRAG", byte_offset, SubSeq(t.data, t.offset + 1, t.offset + n),
                     <<>>, head + 1 + NameSize + t.typed + 6 + n))

\* The next piece of the data; the whole of it goes out as a plain write.
Piece(t, head, byte_offset) ==
  LET c == calculate_write_data_per_packet(t)
      multiple_requests == c.per < t.size
      rest == t.size - t.offset
      write_size == IF rest > c.per THEN c.per ELSE rest
      padded == SubSeq(t.data, t.offset + 1, t.offset + write_size)
                  \o [i \in 1..Padding(write_size) |-> {}]
  IN  IF c.rc # "OK" THEN c
      ELSE IF t.typed = 0 THEN Ret(c, "UNSUPPORTED")
      ELSE session_add_request([c EXCEPT !.offset = @ + write_size],
             Request(IF multiple_requests THEN "WRITE_FRAG" ELSE "WRITE",
                     byte_offset, padded, <<>>,
                     head + 1 + NameSize + t.typed + 2
                       + (IF multiple_requests THEN 4 ELSE 0) + Len(padded)))

build_write_request_connected(t, byte_offset) ==
  IF t.bit # None THEN build_write_bit_request_connected(t) ELSE Piece(t, 2, byte_offset)

build_write_request_unconnected(t, byte_offset) ==
  IF t.bit # None THEN build_write_bit_request_unconnected(t) ELSE Piece(t, 10, byte_offset)

\* A tag that was never read is read first, for its type.
tag_write_start(t) ==
  IF InProgress(t) THEN Ret(t, "BUSY")
  ELSE IF t.first THEN tag_read_start([t EXCEPT !.pre = TRUE])
  ELSE LET s == [t EXCEPT !.wip = TRUE]
       IN  WriteStarted(IF t.co THEN build_write_request_connected(s, t.offset)
                                ELSE build_write_request_unconnected(s, t.offset))

(***************************************************************************)
(* Taking answers.                                                          *)
(***************************************************************************)
\* The data of a larger answer makes the tag larger; what the application is
\* about to write is not overwritten.  New bytes that nothing is copied to have
\* the value the allocator leaves, here no bit set.
Taken(t, r) ==
  LET end == t.offset + Len(r.data)
      size == IF end > t.size THEN end ELSE t.size
  IN  [t EXCEPT !.typed = TypeSize, !.size = size,
                !.elem_size = IF end > t.size THEN size \div t.elem_count ELSE @,
                !.data = [i \in 1..size |->
                            IF i > t.offset /\ i <= end /\ ~t.pre THEN r.data[i - t.offset]
                            ELSE IF i <= t.size THEN t.data[i] ELSE {}],
                !.offset = end, !.rc = "OK"]

ReadAnswer(t, r) ==
  IF r.svc \notin {"READ_FRAG", "READ"} THEN Ret(t, "BAD_DATA")
  ELSE IF r.status \notin {"OK", "FRAG"} THEN Ret(t, "REMOTE_ERR")
  ELSE IF r.data = <<>> THEN Ret(t, "OK")
  ELSE IF t.typed = 0 /\ ~r.known THEN Ret(t, "UNSUPPORTED")
  ELSE Taken(t, r)

\* Fault: an answer that is only a part ends the read.
PartEnds(t, partial_data) ==
  IF t.pre THEN tag_write_start([t EXCEPT !.offset = 0, !.pre = FALSE])
  ELSE Ret([t EXCEPT !.offset = 0], "OK")

\* Fault: the next piece is asked for from the start of the tag again.
PartAgain(t, partial_data) ==
  IF ~t.pre /\ partial_data THEN tag_read_start([t EXCEPT !.offset = 0])
  ELSE PartEnds(t, partial_data)

\* What follows a good answer: the next piece, the write that waited, or the end.
Onward(t, partial_data) ==
  IF ~t.pre /\ partial_data THEN tag_read_start(t)
  ELSE IF t.pre THEN tag_write_start([t EXCEPT !.offset = 0, !.pre = FALSE])
  ELSE Ret([t EXCEPT !.offset = 0], "OK")

\* The request is given back whatever the answer, which left a.
AfterRead(a, partial_data) ==
  LET c == ab_tag_abort_request_only(a)
  IN  IF a.rc = "OK" THEN Onward(c, partial_data) ELSE Ret(c, a.rc)

AbortUnlessPending(n) == IF n.rc = "PENDING" THEN n ELSE Ret(ab_tag_abort_request(n), n.rc)
AbortAfterError(n) == IF n.rc \in Errors THEN Ret(ab_tag_abort_request(n), n.rc) ELSE n

check_read_status_connected(t) ==
  AbortUnlessPending(AfterRead(ReadAnswer(t, t.req.resp), t.req.resp.status = "FRAG"))

check_read_status_unconnected(t) ==
  AbortAfterError(AfterRead(ReadAnswer(t, t.req.resp), t.req.resp.status = "FRAG"))

WriteAnswer(r) ==
  IF r.svc \notin {"WRITE_FRAG", "WRITE", "RMW"} THEN "BAD_DATA"
  ELSE IF r.status \notin {"OK", "FRAG"} THEN "REMOTE_ERR" ELSE "OK"

\* Both forms: when the next piece cannot be sent, the offset stays.
check_write_status_connected(t) ==
  LET rc == WriteAnswer(t.req.resp)
      c == ab_tag_abort_request_only(t)
  IN  IF rc = "OK" /\ t.offset < t.size THEN tag_write_start(c)
      ELSE Ret([c EXCEPT !.offset = 0], rc)

check_write_status_unconnected(t) == check_write_status_connected(t)

\* The end of the tickler's read and of its write part.
ReadTickled(r) == [r EXCEPT !.status = r.rc, !.rdone = @ \/ ~r.rip, !.first = @ /\ r.rip]
WriteTickled(w) == [w EXCEPT !.status = w.rc, !.wdone = @ \/ ~w.wip]

\* With c, what check_request_status left.
Tickled(c) ==
  IF c.rc # "OK" THEN c
  ELSE IF c.rip
  THEN ReadTickled(IF c.co THEN check_read_status_connected(c) ELSE check_read_status_unconnected(c))
  ELSE IF c.wip
  THEN WriteTickled(IF c.co THEN check_write_status_connected(c)
                            ELSE check_write_status_unconnected(c))
  ELSE Ret(c, c.status)

tag_tickler(t) == Tickled(check_request_status(t))

(***************************************************************************)
(* The PLC.                                                                 *)
(***************************************************************************)
Answer(encap, svc, status, data, known) ==
  [encap |-> encap, svc |-> svc, status |-> status, data |-> data, known |-> known]

\* Answers that tell of trouble, to any request.
Troubles(svc) ==
  {Answer("ERROR", svc, "OK", <<>>, TRUE), Answer("OK", "OTHER", "OK", <<>>, TRUE),
   Answer("OK", svc, "ERROR", <<>>, TRUE)}

\* The rest of the data from the offset, or a part of it; of a type the
\* library knows or not.
ReadAnswers(r, p) ==
  IF r.off >= Len(p) THEN Troubles(r.svc)
  ELSE Troubles(r.svc)
       \cup {Answer("OK", r.svc, IF n = Len(p) THEN "OK" ELSE "FRAG",
                    SubSeq(p, r.off + 1, n), k) :
                n \in (r.off + 1)..Len(p), k \in {r.off > 0, TRUE}}

\* Stored over p from offset o on, as far as p goes.
Over(p, o, d) ==
  [i \in DOMAIN p |-> IF i > o /\ i <= o + Len(d) THEN d[i - o] ELSE p[i]]

\* A plain write must bring all the elements.
Written(r, p) ==
  CASE r.svc = "WRITE_FRAG" -> IF r.off < Len(p) THEN Over(p, r.off, r.data) ELSE p
    [] r.svc = "WRITE" -> IF Len(r.data) >= Len(p) THEN Over(p, 0, r.data) ELSE p
    [] r.svc = "RMW" -> [i \in DOMAIN p |-> (p[i] \cup r.data[i]) \cap r.mask[i]]

Stores(r, p) ==
  \/ r.svc = "WRITE_FRAG" /\ r.off < Len(p)
  \/ r.svc = "WRITE" /\ Len(r.data) >= Len(p)
  \/ r.svc = "RMW" /\ Len(r.data) = Len(p)

Serve(r, p) ==
  IF r.svc = "READ_FRAG" THEN {[plc |-> p, resp |-> a] : a \in ReadAnswers(r, p)}
  ELSE {[plc |-> p, resp |-> a] : a \in Troubles(r.svc)}
       \cup (IF Stores(r, p)
             THEN {[plc |-> Written(r, p), resp |-> Answer("OK", r.svc, "OK", <<>>, TRUE)]}
             ELSE {})
(***************************************************************************)
(* Creation and the steps.                                                  *)
(***************************************************************************)
\* ab_tag_create: the size is not known until the first read, which it starts.
Blank(kind, co, bit, elem_size) ==
  [kind |-> kind, co |-> co, bit |-> bit, elem_count |-> IF bit = None THEN Elems ELSE 1,
   elem_size |-> elem_size, size |-> 0, data |-> <<>>, typed |-> 0, per |-> 0,
   offset |-> 0, next_id |-> 0, fields |-> FALSE, first |-> TRUE, pre |-> FALSE,
   rip |-> FALSE, wip |-> FALSE, rif |-> TRUE, wif |-> FALSE, rdone |-> FALSE,
   wdone |-> FALSE, abort |-> FALSE, status |-> "OK", rc |-> "OK",
   req |-> None, late |-> <<>>]

Init ==
  /\ avail \in Avails
  /\ \E co \in BOOLEAN, bit \in {None} \cup TagBits, es \in ElemSizes :
       /\ tag = tag_read_start(Blank("cip", co, bit, es))
       /\ plc = IF bit = None THEN Memory ELSE SubSeq(Memory, 1, Len(Memory) \div Elems)
  /\ op = [NoOp EXCEPT !.what = "read"] /\ touched = {}

Next ==
  \/ LET t == tag_read_start(ReadCalled)
     IN  plc_tag_read(t, ab_tag_abort_request(plc_tag_abort_impl(t)))
  \/ \E d \in NewData : LET t == tag_write_start(WriteCalled(d))
                        IN  plc_tag_write(t, ab_tag_abort_request(t))
  \/ AbortRequested
  \/ AbortHandled(ab_tag_abort_request(plc_tag_abort_impl(tag)))
  \/ plc_tag_status(tag_tickler(tag))
  \/ tag_tickler_func(tag_tickler(plc_tag_generic_tickler(ab_tag_abort_request(tag))))
  \/ PlcServes(Serve(Head(Waiting), plc))
  \/ AnswerLost(Serve(Head(Waiting), plc), Avails)
  \/ Purged
  \/ PlcChanges
  \/ Dead

Spec == Init /\ [][Next]_tagVars
=============================================================================
