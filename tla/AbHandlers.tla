------------------------------ MODULE AbHandlers ------------------------------
(* The request handlers of tools/ab_server (cip.c, pccc.c): what they make of *)
(* a request, a tag and the room that is left in the output.  A byte is a set *)
(* of bits.  A tag is a record [name, file, type, elem_size, dims].           *)
EXTENDS Integers, Sequences, FiniteSets

Least(a, b) == IF a < b THEN a ELSE b

\* slice_from_slice: how much of a slice of len bytes is left from start on.
slice_from_slice(len, start, want) == Least(want, len - Least(start, len))

\* An answer: its CIP status, the data of a read and its size in bytes.
Response(svc, status, data, bytes) ==
  [svc |-> svc, status |-> status, data |-> data, bytes |-> bytes]

make_cip_log_error(svc, cip_err, extend, room) ==
  Response(svc, cip_err, <<>>, slice_from_slice(room, 0, IF extend THEN 6 ELSE 4))

(***************************************************************************)
(* CIP.                                                                     *)
(***************************************************************************)
\* The tag of a path, or nothing: there are none or all of its indexes.
parse_tag_path(tags, r) ==
  {t \in tags : /\ t.name = r.name
                /\ Len(r.idx) <= 3
                /\ Len(r.idx) \in {0, Len(t.dims)}}

Elements(t) ==
  CASE Len(t.dims) = 1 -> t.dims[1]
    [] Len(t.dims) = 2 -> t.dims[1] * t.dims[2]
    [] Len(t.dims) = 3 -> t.dims[1] * t.dims[2] * t.dims[3]

ElementOffset(t, idx) ==
  CASE Len(idx) = 0 -> 0
    [] Len(idx) = 1 -> idx[1]
    [] Len(idx) = 2 -> idx[1] * t.dims[2] + idx[2]
    [] Len(idx) = 3 -> idx[1] * t.dims[2] * t.dims[3] + idx[2] * t.dims[3] + idx[3]

\* The bytes of the elements asked for: after start, up to end.
calculate_request_start_and_end_offsets(t, idx, count) ==
  LET start == ElementOffset(t, idx) * t.elem_size
      end == start + count * t.elem_size
  IN  [ok |-> /\ \A i \in DOMAIN idx : idx[i] < t.dims[i]
              /\ ElementOffset(t, idx) < Elements(t)
              /\ end <= Elements(t) * t.elem_size,
       start |-> start, end |-> end]

Fragmented(r) == r.svc \in {"READ_FRAG", "WRITE_FRAG"}

\* Fault: every fragment starts where the request does.
OffsetUnused(t, r) == calculate_request_start_and_end_offsets(t, r.idx, r.count).start

\* Where the bytes of this request start, which may be a fragment of a larger one.
FragmentStart(t, r) ==
  calculate_request_start_and_end_offsets(t, r.idx, r.count).start
    + (IF Fragmented(r) THEN r.off ELSE 0)

FragmentEnd(t, r) == calculate_request_start_and_end_offsets(t, r.idx, r.count).end

\* Values of up to eight bytes are not split.
MinElement(t) == Least(t.elem_size, 8)

copy_size(t, r, room) ==
  Least(((room - 6) \div MinElement(t)) * MinElement(t), FragmentEnd(t, r) - FragmentStart(t, r))

\* Why a read is refused; r.pad is what follows its fields.
read_error(plc_type, tags, r, room) ==
  LET t == CHOOSE u \in parse_tag_path(tags, r) : TRUE
  IN  IF plc_type = "OMRON" /\ r.svc # "READ" THEN "UNSUPPORTED"
      ELSE IF r.pad < 0 THEN "INSUFFICIENT_DATA"
      ELSE IF parse_tag_path(tags, r) = {} THEN "INVALID_PARAM"
      ELSE IF r.pad # 0 THEN "TOO_MUCH_DATA"
      ELSE IF ~calculate_request_start_and_end_offsets(t, r.idx, r.count).ok THEN "INVALID_PARAM"
      ELSE IF FragmentStart(t, r) > FragmentEnd(t, r) THEN "INVALID_PARAM"
      ELSE IF room < 6 + MinElement(t) THEN "FRAG"
      ELSE "OK"

handle_read_request(plc_type, tags, mem, r, room) ==
  LET err == read_error(plc_type, tags, r, room)
      t == CHOOSE u \in parse_tag_path(tags, r) : TRUE
      start == FragmentStart(t, r)
      n == copy_size(t, r, room)
  IN  IF err # "OK" THEN make_cip_log_error(r.svc, err, FALSE, room)
      ELSE Response(r.svc, IF start + n < FragmentEnd(t, r) THEN "FRAG" ELSE "OK",
                    SubSeq(mem[t.name], start + 1, start + n), 6 + n)

write_error(plc_type, tags, r) ==
  LET t == CHOOSE u \in parse_tag_path(tags, r) : TRUE
  IN  IF plc_type = "OMRON" /\ r.svc # "WRITE" THEN "UNSUPPORTED"
      ELSE IF parse_tag_path(tags, r) = {} THEN "INVALID_PARAM"
      ELSE IF r.data = <<>> THEN "INSUFFICIENT_DATA"
      ELSE IF r.type # t.type THEN "INVALID_PARAM"
      ELSE IF ~calculate_request_start_and_end_offsets(t, r.idx, r.count).ok THEN "INVALID_PARAM"
      ELSE IF Len(r.data) + FragmentStart(t, r) > FragmentEnd(t, r) THEN "INVALID_PARAM"
      ELSE "OK"

Overwritten(bytes, start, data) ==
  [i \in DOMAIN bytes |-> IF i > start /\ i <= start + Len(data) THEN data[i - start] ELSE bytes[i]]

\* What a write leaves in the memory, and the answer to it.
WriteLeaves(plc_type, tags, mem, r) ==
  LET t == CHOOSE u \in parse_tag_path(tags, r) : TRUE
  IN  IF write_error(plc_type, tags, r) # "OK" THEN mem
      ELSE [mem EXCEPT ![t.name] = Overwritten(@, FragmentStart(t, r), r.data)]

handle_write_request(plc_type, tags, r, room) ==
  make_cip_log_error(r.svc, write_error(plc_type, tags, r), FALSE, room)

(***************************************************************************)
(* PCCC: the bytes that a request is about, or why it is refused.  A data     *)
(* file that is named in a form the server does not know has no tag.          *)
(***************************************************************************)
PcccTag(tags, r) == {t \in tags : t.file = r.file}

Extent(tags, r, start, n, first_error) ==
  LET t == CHOOSE u \in PcccTag(tags, r) : TRUE
      size == Elements(t) * t.elem_size
  IN  [err |-> IF first_error # "OK" THEN first_error
               ELSE IF start >= size \/ start + n > size THEN "FILE_IS_WRONG_SIZE"
               ELSE "OK",
       start |-> start, n |-> n]

\* Reads and writes of a PLC/5 count elements from a byte offset.
plc5_range(tags, r) ==
  LET t == CHOOSE u \in PcccTag(tags, r) : TRUE
  IN  IF PcccTag(tags, r) = {} THEN [err |-> "ADDR_NOT_USABLE", start |-> 0, n |-> 0]
      ELSE Extent(tags, r, r.off + r.elem * t.elem_size, r.size * t.elem_size, "OK")

handle_plc5_read_request(tags, r) ==
  LET a == plc5_range(tags, r)
  IN  IF a.err = "OK" /\ a.n > 240 THEN [a EXCEPT !.err = "FILE_IS_WRONG_SIZE"] ELSE a

handle_plc5_write_request(tags, r) ==
  LET a == plc5_range(tags, r)
  IN  IF a.err = "OK" /\ Len(r.data) # a.n THEN [a EXCEPT !.err = "FILE_IS_WRONG_SIZE"] ELSE a

handle_plc5_rmw_request(tags, r) ==
  LET t == CHOOSE u \in PcccTag(tags, r) : TRUE
      a == Extent(tags, r, r.elem * t.elem_size, t.elem_size, "OK")
  IN  IF PcccTag(tags, r) = {} THEN [err |-> "ADDR_NOT_USABLE", start |-> 0, n |-> 0]
      ELSE IF a.err = "OK" /\ (Len(r.mask) < t.elem_size \/ Len(r.data) < t.elem_size)
      THEN [a EXCEPT !.err = "FILE_IS_WRONG_SIZE"] ELSE a

\* Those of an SLC count bytes from an element, and name its type.
slc_range(tags, r) ==
  LET t == CHOOSE u \in PcccTag(tags, r) : TRUE
  IN  IF r.sub # 0 \/ PcccTag(tags, r) = {} THEN [err |-> "ADDR_NOT_USABLE", start |-> 0, n |-> 0]
      ELSE Extent(tags, r, r.elem * t.elem_size, r.size,
                 IF r.type # t.type THEN "ADDR_NOT_USABLE" ELSE "OK")

handle_slc_read_request(tags, r) ==
  LET a == slc_range(tags, r)
  IN  IF a.err = "OK" /\ a.n > 240 THEN [a EXCEPT !.err = "FILE_IS_WRONG_SIZE"] ELSE a

handle_slc_write_request(tags, r) ==
  LET a == slc_range(tags, r)
  IN  IF a.err = "OK" /\ (a.n > 240 \/ Len(r.data) # a.n)
      THEN [a EXCEPT !.err = "FILE_IS_WRONG_SIZE"] ELSE a

handle_slc_rmw_request(tags, r) ==
  LET t == CHOOSE u \in PcccTag(tags, r) : TRUE
      a == slc_range(tags, r)
  IN  IF r.size # 2 THEN [a EXCEPT !.err = "FILE_IS_WRONG_SIZE"]
      ELSE IF a.err = "OK" /\ (t.elem_size # 2 \/ Len(r.mask) < 2 \/ Len(r.data) < 2)
      THEN [a EXCEPT !.err = "FILE_IS_WRONG_SIZE"] ELSE a

\* The family of commands that a PLC of this type understands.
dispatch_pccc_request(plc_type, tags, r) ==
  CASE plc_type = "PLC5" /\ r.svc = "PLC5_READ" -> handle_plc5_read_request(tags, r)
    [] plc_type = "PLC5" /\ r.svc = "PLC5_WRITE" -> handle_plc5_write_request(tags, r)
    [] plc_type = "PLC5" /\ r.svc = "PLC5_RMW" -> handle_plc5_rmw_request(tags, r)
    [] plc_type \in {"SLC", "MICROLOGIX"} /\ r.svc = "SLC_READ" -> handle_slc_read_request(tags, r)
    [] plc_type \in {"SLC", "MICROLOGIX"} /\ r.svc = "SLC_WRITE" -> handle_slc_write_request(tags, r)
    [] plc_type \in {"SLC", "MICROLOGIX"} /\ r.svc = "SLC_RMW" -> handle_slc_rmw_request(tags, r)
    [] OTHER -> [err |-> "UNSUPPORTED_COMMAND", start |-> 0, n |-> 0]

\* Byte i of the tag after one step of a write or a masked write.
StoredByte(r, i, old) ==
  CASE r.svc \in {"PLC5_WRITE", "SLC_WRITE"} -> r.data[i]
    [] r.svc = "PLC5_RMW" -> (old \cap r.mask[i]) \cup r.data[i]
    [] r.svc = "SLC_RMW" -> (old \ r.mask[i]) \cup (r.data[i] \cap r.mask[i])
=============================================================================
