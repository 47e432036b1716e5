------------------------------ MODULE TagData ------------------------------
(***************************************************************************)
(* The data of one tag, as an application sees it through lib.c: the byte  *)
(* order set up when the tag is created, the typed getters and setters,    *)
(* the bits, the raw bytes, the strings and the size of the buffer.        *)
(*                                                                         *)
(* A call runs under the tag's API mutex, so a call is one step.  A number *)
(* is the sequence of its bytes, lowest first: all that an accessor does   *)
(* with the number is to put those bytes where the byte order says.  A     *)
(* handle that lookup_tag does not find changes nothing and is left out.   *)
(***************************************************************************)
EXTENDS Integers, Sequences, SequencesExt, FiniteSetsExt

CONSTANTS
  Defaults,    \* the byte orders that the protocols define
  Overrides,   \* attributes of a tag, as functions from names to values
  Buffers,     \* contents of the buffer when the application first sees it
  Numbers,     \* a function from widths to the numbers an application stores
  Strings,     \* the strings an application stores
  Offsets,     \* the offsets it uses
  Garbage,     \* what realloc leaves in the bytes it adds
  MaxCalls     \* calls after the tag was created

VARIABLES
  tag,   \* the tag, a record
  made,  \* "no", "yes" or "failed": how far plc_tag_create_ex is
  last   \* the last call: what it was, the tag before it, its result

dataVars == <<tag, made, last>>

Ok == "PLCTAG_STATUS_OK"
NoData == <<>>
NoValue == "none"

OrderOf == [int16_byte_order |-> 2, int32_byte_order |-> 4, int64_byte_order |-> 8,
            float32_byte_order |-> 4, float64_byte_order |-> 8]
Flags == {"str_is_counted", "str_is_fixed_length", "str_is_zero_terminated",
          "str_is_byte_swapped"}
Lengths == {"str_max_capacity", "str_total_length", "str_pad_bytes"}

(***************************************************************************)
(* The byte order of a tag.                                                *)
(***************************************************************************)
check_byte_order_str(order, length) ==
  /\ Len(order) = length
  /\ \A i \in 1..length : order[i] \in 0..(length - 1)
  /\ \A i, j \in 1..length : order[i] = order[j] => i = j

\* What a user may say of one field of the byte order.
FieldOk(name, value) ==
  CASE name \in DOMAIN OrderOf -> check_byte_order_str(value, OrderOf[name])
    [] name \in Flags -> value \in 0..1
    [] name = "str_count_word_bytes" -> value \in {0, 1, 2, 4, 8}
    [] name \in Lengths -> value >= 0

\* The combinations of fields that are refused.
CombinationOk(bo) ==
  /\ bo.str_is_counted = 1 => bo.str_count_word_bytes # 0
  /\ bo.str_is_fixed_length = 1 => bo.str_total_length # 0
  /\ bo.str_total_length > 0 =>
       bo.str_is_zero_terminated + bo.str_max_capacity + bo.str_count_word_bytes
         + bo.str_pad_bytes <= bo.str_total_length

StringIsDefined(bo) ==
  IF bo.str_is_counted = 1 \/ bo.str_is_zero_terminated = 1
  THEN [bo EXCEPT !.str_is_defined = 1] ELSE bo

Overridden(bo, attribs) ==
  [f \in DOMAIN bo |-> IF f \in DOMAIN attribs THEN attribs[f] ELSE bo[f]]

set_tag_byte_order(bo, attribs) ==
  LET new == Overridden(bo, attribs) IN
  IF DOMAIN attribs = {} THEN [rc |-> Ok, order |-> bo]
  ELSE IF \E f \in DOMAIN attribs : ~FieldOk(f, attribs[f])
       THEN [rc |-> "PLCTAG_ERR_BAD_PARAM", order |-> bo]
  ELSE IF ~CombinationOk(new) THEN [rc |-> "PLCTAG_ERR_BAD_PARAM", order |-> bo]
  ELSE [rc |-> Ok, order |-> StringIsDefined(new)]

(***************************************************************************)
(* Results.  A call returns the tag as it leaves it and a result.          *)
(***************************************************************************)
Size(t) == Len(t.data)
Return(t, status, res) == [tag |-> [t EXCEPT !.status = status], res |-> res]
Refuse(t, status) == Return(t, status, status)
Dirtied(t) == IF t.auto_sync_write_ms > 0 THEN [t EXCEPT !.tag_is_dirty = TRUE] ELSE t

\* Byte i of the buffer, from zero as in C.
Byte(t, i) == t.data[i + 1]
Stored(t, f) ==
  [t EXCEPT !.data = [i \in DOMAIN t.data |-> IF i - 1 \in DOMAIN f THEN f[i - 1] ELSE t.data[i]]]

InBuffer(t, offset, n) == offset >= 0 /\ offset + n <= Size(t)

(***************************************************************************)
(* Bits.  A tag that is a bit ignores the offset of the caller.            *)
(***************************************************************************)
RealOffset(t, offset_bit) == IF t.is_bit THEN t.bit ELSE offset_bit
BitOf(byte, i) == (byte \div 2^i) % 2

plc_tag_get_bit_impl(t, offset_bit) ==
  LET o == RealOffset(t, offset_bit) IN
  IF t.data = NoData THEN Refuse(t, "PLCTAG_ERR_NO_DATA")
  ELSE IF o >= 0 /\ o \div 8 < Size(t) THEN Return(t, Ok, <<BitOf(Byte(t, o \div 8), o % 8)>>)
  ELSE Refuse(t, "PLCTAG_ERR_OUT_OF_BOUNDS")

plc_tag_set_bit_impl(t, offset_bit, val) ==
  LET o == RealOffset(t, offset_bit)
      old == Byte(t, o \div 8)
      new == old + (val - BitOf(old, o % 8)) * 2^(o % 8) IN
  IF t.data = NoData THEN Refuse(t, "PLCTAG_ERR_NO_DATA")
  ELSE IF o >= 0 /\ o \div 8 < Size(t)
       THEN Return(Dirtied(Stored(t, (o \div 8) :> new)), Ok, Ok)
  ELSE Refuse(t, "PLCTAG_ERR_OUT_OF_BOUNDS")

plc_tag_get_bit(t, offset_bit) == plc_tag_get_bit_impl(t, offset_bit)
plc_tag_set_bit(t, offset_bit, val) == plc_tag_set_bit_impl(t, offset_bit, val)

(***************************************************************************)
(* Numbers: the shape that the getters share and the one of the setters.   *)
(***************************************************************************)
Get(t, offset, order) ==
  IF t.data = NoData THEN Return(t, "PLCTAG_ERR_NO_DATA", NoValue)
  ELSE IF t.is_bit THEN plc_tag_get_bit_impl(t, t.bit)
  ELSE IF InBuffer(t, offset, Len(order))
       THEN Return(t, Ok, [i \in 1..Len(order) |-> Byte(t, offset + order[i])])
  ELSE Return(t, "PLCTAG_ERR_OUT_OF_BOUNDS", NoValue)

\* The bytes of val are written one after the other, the last one wins.
Put(t, offset, order, val) ==
  Return(Dirtied(Stored(t, [i \in {offset + order[k] : k \in 1..Len(order)} |->
                             val[Max({k \in 1..Len(order) : offset + order[k] = i})]])), Ok, Ok)

NotZero(val) == IF \E i \in DOMAIN val : val[i] # 0 THEN 1 ELSE 0

Set(t, offset, order, val) ==
  IF t.data = NoData THEN Refuse(t, "PLCTAG_ERR_NO_DATA")
  ELSE IF t.is_bit THEN plc_tag_set_bit_impl(t, 0, NotZero(val))
  ELSE IF InBuffer(t, offset, Len(order)) THEN Put(t, offset, order, val)
  ELSE Refuse(t, "PLCTAG_ERR_OUT_OF_BOUNDS")

plc_tag_get_uint64(t, offset) == Get(t, offset, t.order.int64_byte_order)
plc_tag_get_int64(t, offset) == Get(t, offset, t.order.int64_byte_order)
plc_tag_get_uint32(t, offset) == Get(t, offset, t.order.int32_byte_order)
plc_tag_get_int32(t, offset) == Get(t, offset, t.order.int32_byte_order)
plc_tag_get_uint16(t, offset) == Get(t, offset, t.order.int16_byte_order)
plc_tag_get_int16(t, offset) == Get(t, offset, t.order.int16_byte_order)
plc_tag_get_uint8(t, offset) == Get(t, offset, <<0>>)
plc_tag_get_int8(t, offset) == Get(t, offset, <<0>>)

plc_tag_set_uint64(t, offset, val) == Set(t, offset, t.order.int64_byte_order, val)
plc_tag_set_uint32(t, offset, val) == Set(t, offset, t.order.int32_byte_order, val)
plc_tag_set_int32(t, offset, val) == Set(t, offset, t.order.int32_byte_order, val)
plc_tag_set_uint16(t, offset, val) == Set(t, offset, t.order.int16_byte_order, val)
plc_tag_set_int16(t, offset, val) == Set(t, offset, t.order.int16_byte_order, val)
plc_tag_set_uint8(t, offset, val) == Set(t, offset, <<0>>, val)
plc_tag_set_int8(t, offset, val) == Set(t, offset, <<0>>, val)

\* Without data this setter goes on: the empty buffer has no place for 8 bytes.
plc_tag_set_int64(t, offset, val) ==
  IF t.data = NoData /\ ~t.is_bit THEN Refuse(t, "PLCTAG_ERR_OUT_OF_BOUNDS")
  ELSE Set(t, offset, t.order.int64_byte_order, val)

\* Floats do the same with their own orders, and never with a bit.
GetFloat(t, offset, order) ==
  IF t.data # NoData /\ t.is_bit THEN Return(t, "PLCTAG_ERR_UNSUPPORTED", NoValue)
  ELSE Get(t, offset, order)
SetFloat(t, offset, order, val) ==
  IF t.data # NoData /\ t.is_bit THEN Refuse(t, "PLCTAG_ERR_UNSUPPORTED")
  ELSE Set(t, offset, order, val)

plc_tag_get_float64(t, offset) == GetFloat(t, offset, t.order.float64_byte_order)
plc_tag_get_float32(t, offset) == GetFloat(t, offset, t.order.float32_byte_order)
plc_tag_set_float64(t, offset, val) == SetFloat(t, offset, t.order.float64_byte_order, val)
plc_tag_set_float32(t, offset, val) == SetFloat(t, offset, t.order.float32_byte_order, val)

(***************************************************************************)
(* Raw bytes.                                                              *)
(***************************************************************************)
Raw(n) == [i \in 1..n |-> i - 1]

plc_tag_get_raw_bytes(t, offset, n) ==
  IF t.data = NoData THEN Return(t, "PLCTAG_ERR_NO_DATA", NoValue)
  ELSE IF n <= 0 THEN [tag |-> t, res |-> NoValue]
  ELSE IF t.is_bit THEN Return(t, "PLCTAG_ERR_UNSUPPORTED", NoValue)
  ELSE Get(t, offset, Raw(n))

plc_tag_set_raw_bytes(t, offset, buffer) ==
  IF t.data = NoData THEN Refuse(t, "PLCTAG_ERR_NO_DATA")
  ELSE IF buffer = <<>> THEN [tag |-> t, res |-> "PLCTAG_ERR_BAD_PARAM"]
  ELSE IF t.is_bit THEN Refuse(t, "PLCTAG_ERR_UNSUPPORTED")
  ELSE Set(t, offset, Raw(Len(buffer)), buffer)

(***************************************************************************)
(* The size of the buffer.                                                 *)
(***************************************************************************)
\* realloc keeps what fits and adds bytes of any value; a size of zero is refused.
resize_tag_buffer_unsafe(t, new_size) ==
  IF new_size <= 0 THEN Refuse(t, "PLCTAG_ERR_NO_MEM")
  ELSE [tag |-> [t EXCEPT !.data = [i \in 1..new_size |->
                                     IF i <= Len(@) THEN @[i] ELSE Garbage]],
        res |-> Ok]

\* What is behind the split moves with it.
Moved(data, from, to, n) ==
  [i \in DOMAIN data |-> IF i - 1 \in to..(to + n - 1) THEN data[i + from - to] ELSE data[i]]

\* Fault: what is behind a field that grows stays where it was.
ResizeUnmoved(t, old_split, new_split) ==
  LET n == Size(t) - old_split
      size == Size(t) + new_split - old_split IN
  IF old_split < 0 \/ old_split > Size(t) \/ new_split < 0
  THEN [tag |-> t, res |-> "PLCTAG_ERR_OUT_OF_BOUNDS"]
  ELSE IF new_split >= old_split THEN resize_tag_buffer_unsafe(t, size)
  ELSE resize_tag_buffer_unsafe([t EXCEPT !.data = Moved(@, old_split, new_split, n)], size)

resize_tag_buffer_at_offset_unsafe(t, old_split, new_split) ==
  LET n == Size(t) - old_split
      size == Size(t) + new_split - old_split IN
  IF old_split < 0 \/ old_split > Size(t) \/ new_split < 0
  THEN [tag |-> t, res |-> "PLCTAG_ERR_OUT_OF_BOUNDS"]
  ELSE IF new_split = old_split THEN [tag |-> t, res |-> Ok]
  ELSE IF new_split < old_split
       THEN resize_tag_buffer_unsafe([t EXCEPT !.data = Moved(@, old_split, new_split, n)], size)
  ELSE LET grown == resize_tag_buffer_unsafe(t, size) IN
       IF grown.res # Ok THEN grown
       ELSE [grown EXCEPT !.tag.data = Moved(@, old_split, new_split, n)]

plc_tag_get_size(t) == Return(t, Ok, Size(t))

plc_tag_set_size(t, new_size) ==
  IF new_size < 0 THEN [tag |-> t, res |-> "PLCTAG_ERR_BAD_PARAM"]
  ELSE resize_tag_buffer_unsafe(t, new_size)

(***************************************************************************)
(* Strings.                                                                *)
(***************************************************************************)
\* i ^ str_is_byte_swapped: neighbours change places.
Swap(bo, i) == IF bo.str_is_byte_swapped = 1 THEN (IF i % 2 = 1 THEN i - 1 ELSE i + 1) ELSE i

\* A byte behind the buffer, which the loop for the length of a swapped string
\* reads when the part behind the offset is odd, may have any value.
ByteOrGarbage(t, i) == IF i < Size(t) THEN Byte(t, i) ELSE Garbage

CountOrder(bo) ==
  CASE bo.str_count_word_bytes = 1 -> <<0>>
    [] bo.str_count_word_bytes = 2 -> bo.int16_byte_order
    [] bo.str_count_word_bytes = 4 -> bo.int32_byte_order
    [] OTHER -> <<>>

\* The bytes of a count, lowest first, and the count that such bytes stand for
\* (two bytes are signed; four stay below 2^31 with the bytes of a model).
Bytes(n, width) == [i \in 1..width |-> (n \div 256^(i - 1)) % 256]
Count(bytes) ==
  LET n == FoldLeft(LAMBDA sum, i : sum + bytes[i] * 256^(i - 1), 0, [i \in 1..Len(bytes) |-> i]) IN
  IF Len(bytes) = 2 /\ n >= 2^15 THEN n - 2^16 ELSE n

get_string_length_unsafe(t, offset) ==
  LET bo == t.order
      first == offset + bo.str_count_word_bytes
      ends == {i \in 0..(Size(t) - first) :
                 i = Size(t) - first \/ ByteOrGarbage(t, first + Swap(bo, i)) = 0} IN
  IF bo.str_is_counted = 1
  THEN IF CountOrder(bo) = <<>> THEN 0
       ELSE Count([i \in 1..Len(CountOrder(bo)) |-> Byte(t, offset + CountOrder(bo)[i])])
  ELSE IF bo.str_is_zero_terminated = 1 THEN (IF ends = {} THEN 0 ELSE Min(ends))
  ELSE 0

get_string_total_length_unsafe(t, offset) ==
  LET bo == t.order IN
  bo.str_count_word_bytes
    + (IF bo.str_is_fixed_length = 1 THEN bo.str_max_capacity
       ELSE get_string_length_unsafe(t, offset))
    + bo.str_is_zero_terminated + bo.str_pad_bytes

get_new_string_total_length_unsafe(t, string) ==
  LET bo == t.order IN
  IF bo.str_is_fixed_length = 1 THEN bo.str_total_length
  ELSE Len(string) + bo.str_count_word_bytes + bo.str_is_zero_terminated
         + bo.str_pad_bytes + bo.str_is_byte_swapped * (Len(string) % 2)

NoStrings(t) == t.order.str_is_defined = 0 \/ t.is_bit

\* The refusals that the string queries share.
StringQuery(t, res) ==
  IF t.order.str_is_defined = 0 THEN Refuse(t, "PLCTAG_ERR_UNSUPPORTED")
  ELSE IF t.data = NoData THEN Refuse(t, "PLCTAG_ERR_NO_DATA")
  ELSE IF t.is_bit THEN Refuse(t, "PLCTAG_ERR_UNSUPPORTED")
  ELSE [tag |-> t, res |-> res]

plc_tag_get_string_length(t, offset) == StringQuery(t, get_string_length_unsafe(t, offset))

plc_tag_get_string_total_length(t, offset) ==
  StringQuery(t, get_string_total_length_unsafe(t, offset))

plc_tag_get_string_capacity(t, offset) ==
  StringQuery(t, IF t.order.str_max_capacity # 0 THEN t.order.str_max_capacity
                 ELSE get_string_length_unsafe(t, offset))

plc_tag_get_string(t, offset, buffer_length) ==
  LET bo == t.order
      n == Min({buffer_length, get_string_length_unsafe(t, offset)})
      index == [i \in 1..n |-> offset + bo.str_count_word_bytes + Swap(bo, i - 1)] IN
  IF bo.str_is_defined = 0 \/ t.data = NoData \/ t.is_bit THEN StringQuery(t, NoValue)
  ELSE IF offset + bo.str_count_word_bytes + n > Size(t) THEN Refuse(t, "PLCTAG_ERR_OUT_OF_BOUNDS")
  ELSE IF \E i \in 1..n : index[i] >= Size(t) THEN [tag |-> t, res |-> "PLCTAG_ERR_OUT_OF_BOUNDS"]
  ELSE Return(t, Ok, [i \in 1..n |-> Byte(t, index[i])])

\* The string is cleared, counted, copied and terminated in that order; what
\* fails leaves what was done before it.
Cleared(t, offset, n) ==
  Stored(t, [i \in offset..Min({offset + n, Size(t)}) - 1 |-> 0])

CopiedString(t, offset, string) ==
  LET bo == t.order
      first == offset + (IF bo.str_is_counted = 1 THEN bo.str_count_word_bytes ELSE 0)
      index == [i \in 1..Len(string) |-> first + Swap(bo, i - 1)]
      fits == {i \in 1..Len(string) : \A j \in 1..i : index[j] < Size(t)}
      copied == Stored(t, [k \in {index[i] : i \in fits} |->
                             string[CHOOSE i \in fits : index[i] = k]])
      last0 == first + Len(string) IN
  IF Cardinality(fits) < Len(string) THEN Refuse(copied, "PLCTAG_ERR_OUT_OF_BOUNDS")
  ELSE IF bo.str_is_zero_terminated = 0 THEN Return(Dirtied(copied), Ok, Ok)
  ELSE IF last0 >= Size(t) THEN [tag |-> copied, res |-> "PLCTAG_ERR_OUT_OF_BOUNDS"]
  ELSE Return(Dirtied(Stored(copied, last0 :> 0)), Ok, Ok)

StoredString(t, offset, string) ==
  LET bo == t.order
      count == CountOrder(bo) IN
  IF bo.str_is_counted = 0 THEN CopiedString(t, offset, string)
  ELSE IF offset + bo.str_count_word_bytes > Size(t) THEN Refuse(t, "PLCTAG_ERR_OUT_OF_BOUNDS")
  ELSE IF count = <<>> THEN Refuse(t, "PLCTAG_ERR_UNSUPPORTED")
  ELSE CopiedString(Stored(t, [i \in {offset + count[k] : k \in 1..Len(count)} |->
                     Bytes(Len(string), Len(count))[CHOOSE k \in 1..Len(count) : offset + count[k] = i]]),
                    offset, string)

plc_tag_set_string(t, offset, string) ==
  LET bo == t.order
      old == get_string_total_length_unsafe(t, offset)
      new == get_new_string_total_length_unsafe(t, string)
      room == resize_tag_buffer_at_offset_unsafe(t, offset + old, offset + new) IN
  IF bo.str_is_defined = 0 \/ t.is_bit THEN Refuse(t, "PLCTAG_ERR_UNSUPPORTED")
  ELSE IF bo.str_max_capacity # 0 /\ Len(string) > bo.str_max_capacity
       THEN Refuse(t, "PLCTAG_ERR_TOO_LARGE")
  ELSE IF old < 0 THEN [tag |-> t, res |-> "negative"]
  ELSE IF ~t.allow_field_resize /\ new # old THEN [tag |-> t, res |-> "PLCTAG_ERR_NOT_ALLOWED"]
  ELSE IF room.res # Ok THEN room
  ELSE StoredString(Cleared(room.tag, offset, new), offset, string)

(***************************************************************************)
(* Attributes of the tag.                                                  *)
(***************************************************************************)
plc_tag_get_int_attribute(t, name) ==
  CASE name = "size" -> Return(t, Ok, Size(t))
    [] name = "bit_num" -> Return(t, Ok, t.bit)
    [] name \in {"read_cache_ms", "auto_sync_read_ms", "auto_sync_write_ms"} -> Return(t, Ok, t[name])

plc_tag_set_int_attribute(t, name, value) ==
  IF name = "allow_field_resize" THEN Return([t EXCEPT !.allow_field_resize = value > 0], Ok, Ok)
  ELSE IF value < 0 THEN Refuse(t, "PLCTAG_ERR_OUT_OF_BOUNDS")
  ELSE IF name = "read_cache_ms"
       THEN Return([t EXCEPT !.read_cache_ms = value, !.read_cache_expire = 0], Ok, Ok)
  ELSE Return([t EXCEPT ![name] = value], Ok, Ok)

(***************************************************************************)
(* The tag of the model.                                                   *)
(***************************************************************************)
NoCall == [op |-> "none", nth |-> 0]

FirstTags ==
  [data : Buffers, order : Defaults, is_bit : BOOLEAN, bit : {9},
   auto_sync_write_ms : {0}, auto_sync_read_ms : {0}, read_cache_ms : {0},
   read_cache_expire : {0}, allow_field_resize : {FALSE}, tag_is_dirty : {FALSE},
   status : {Ok}]

DataInit ==
  /\ tag \in FirstTags
  /\ made = "no"
  /\ last = NoCall

\* plc_tag_create_ex reads the attributes, the byte order last.
CreateSets ==
  /\ made = "no"
  /\ \E attribs \in Overrides, resize \in BOOLEAN, ms \in 0..1 :
       LET r == set_tag_byte_order(tag.order, attribs) IN
       /\ made' = IF r.rc = Ok THEN "yes" ELSE "failed"
       /\ tag' = [tag EXCEPT !.order = r.order, !.allow_field_resize = resize,
                             !.auto_sync_write_ms = ms]
  /\ UNCHANGED last

\* A call of the application: op with its offset and value, and what it did.
Call(op, offset, val, r) ==
  /\ tag' = r.tag
  /\ last' = [op |-> op, offset |-> offset, val |-> val, before |-> tag, res |-> r.res,
              nth |-> last.nth + 1]
  /\ UNCHANGED made

Setter(op, t, offset, val) ==
  CASE op = "uint64" -> plc_tag_set_uint64(t, offset, val)
    [] op = "int64" -> plc_tag_set_int64(t, offset, val)
    [] op = "uint32" -> plc_tag_set_uint32(t, offset, val)
    [] op = "int32" -> plc_tag_set_int32(t, offset, val)
    [] op = "uint16" -> plc_tag_set_uint16(t, offset, val)
    [] op = "int16" -> plc_tag_set_int16(t, offset, val)
    [] op = "uint8" -> plc_tag_set_uint8(t, offset, val)
    [] op = "int8" -> plc_tag_set_int8(t, offset, val)
    [] op = "float64" -> plc_tag_set_float64(t, offset, val)
    [] op = "float32" -> plc_tag_set_float32(t, offset, val)
    [] op = "raw" -> plc_tag_set_raw_bytes(t, offset, val)
    [] op = "bit" -> plc_tag_set_bit(t, offset, val[1])
    [] op = "string" -> plc_tag_set_string(t, offset, val)

Getter(op, t, offset, n) ==
  CASE op = "uint64" -> plc_tag_get_uint64(t, offset)
    [] op = "int64" -> plc_tag_get_int64(t, offset)
    [] op = "uint32" -> plc_tag_get_uint32(t, offset)
    [] op = "int32" -> plc_tag_get_int32(t, offset)
    [] op = "uint16" -> plc_tag_get_uint16(t, offset)
    [] op = "int16" -> plc_tag_get_int16(t, offset)
    [] op = "uint8" -> plc_tag_get_uint8(t, offset)
    [] op = "int8" -> plc_tag_get_int8(t, offset)
    [] op = "float64" -> plc_tag_get_float64(t, offset)
    [] op = "float32" -> plc_tag_get_float32(t, offset)
    [] op = "raw" -> plc_tag_get_raw_bytes(t, offset, n)
    [] op = "bit" -> plc_tag_get_bit(t, offset)
    [] op = "string" -> plc_tag_get_string(t, offset, n)

WidthOf == [uint64 |-> 8, int64 |-> 8, float64 |-> 8, uint32 |-> 4, int32 |-> 4, float32 |-> 4,
            uint16 |-> 2, int16 |-> 2, uint8 |-> 1, int8 |-> 1]

Usable == made = "yes" /\ last.nth < MaxCalls

\* Where a string function is defined: it reads the count word, or the first
\* character, without a look at the size of the buffer.
StringAt(t, offset) == offset >= 0 /\ offset + Max({t.order.str_count_word_bytes, 1}) <= Size(t)

NumberIsSet ==
  \E op \in DOMAIN WidthOf, offset \in Offsets : \E val \in Numbers[WidthOf[op]] :
    Usable /\ Call(op, offset, val, Setter(op, tag, offset, val))

RawIsSet ==
  \E offset \in Offsets, val \in Strings : Usable /\ Call("raw", offset, val, Setter("raw", tag, offset, val))

BitIsSet ==
  \E offset \in Offsets, val \in 0..1 :
    Usable /\ Call("bit", offset, <<val>>, Setter("bit", tag, offset, <<val>>))

StringIsSet ==
  \E offset \in Offsets, val \in Strings :
    /\ Usable
    /\ StringAt(tag, offset) \/ NoStrings(tag)
    /\ Call("string", offset, val, Setter("string", tag, offset, val))

\* The caller has no use for the result.
Unread(r) == [r EXCEPT !.res = NoValue]

SizeIsSet == \E n \in Offsets : Usable /\ Call("size", 0, <<n>>, Unread(plc_tag_set_size(tag, n)))

AttributeIsSet ==
  \E name \in {"auto_sync_write_ms", "auto_sync_read_ms", "read_cache_ms", "allow_field_resize"},
     value \in {-1, 0, 1} :
    Usable /\ Call("attribute", 0, <<value>>, Unread(plc_tag_set_int_attribute(tag, name, value)))

\* The getters change the status at most.
ValueIsGot ==
  \E op \in DOMAIN WidthOf \cup {"raw", "bit", "string"}, offset \in Offsets :
    /\ Usable
    /\ op = "string" => StringAt(tag, offset) \/ NoStrings(tag)
    /\ Call("get", offset, <<>>, Unread(Getter(op, tag, offset, 2)))

PropertyIsGot ==
  \E offset \in Offsets :
    /\ Usable
    /\ StringAt(tag, offset) \/ NoStrings(tag)
    /\ \E r \in {plc_tag_get_string_length(tag, offset), plc_tag_get_string_capacity(tag, offset),
                 plc_tag_get_string_total_length(tag, offset), plc_tag_get_size(tag)}
               \cup {plc_tag_get_int_attribute(tag, name) :
                       name \in {"size", "bit_num", "read_cache_ms", "auto_sync_read_ms"}} :
         Call("get", offset, <<>>, Unread(r))

DataNext ==
  \/ CreateSets \/ NumberIsSet \/ RawIsSet \/ BitIsSet \/ StringIsSet
  \/ SizeIsSet \/ AttributeIsSet \/ ValueIsGot \/ PropertyIsGot

DataSpec == DataInit /\ [][DataNext]_dataVars

-----------------------------------------------------------------------------
(***************************************************************************)
(* Properties.                                                             *)
(***************************************************************************)
SetOps == DOMAIN WidthOf \cup {"raw", "bit", "string"}

(***************************************************************************)
(* The string layouts for which the two properties hold.  Each conjunct    *)
(* names layouts that set_tag_byte_order accepts (lib.c:4384-4427) and the *)
(* string functions do not store faithfully; no protocol defines one.      *)
(***************************************************************************)
Faithful(bo) ==
  /\ bo.str_is_counted = 0 => bo.str_count_word_bytes = 0
  /\ bo.str_is_byte_swapped = 1 =>
       bo.str_is_zero_terminated = 0 /\ bo.str_is_fixed_length = 1 /\ bo.str_max_capacity % 2 = 0
  /\ bo.str_is_fixed_length = 1 =>
       /\ bo.str_max_capacity # 0
       /\ bo.str_total_length = bo.str_is_zero_terminated + bo.str_max_capacity
                                  + bo.str_count_word_bytes + bo.str_pad_bytes

(***************************************************************************)
(* What a setter stored is what the getter of the same type returns, for   *)
(* every byte order that set_tag_byte_order lets through, also when the    *)
(* field was resized on the way; and the room that was made for a string   *)
(* is the room it is found to take, so that setting it again moves nothing *)
(* (lib.c:2367-4037, 4104-4479, 4585-4739).                                *)
(***************************************************************************)
SetIsGot ==
  last.op \in SetOps /\ last.res = Ok /\ (last.op = "string" => Faithful(tag.order)) =>
    LET got == Getter(last.op, tag, last.offset, Len(last.val)).res IN
    /\ IF tag.is_bit THEN got = <<NotZero(last.val)>> ELSE got = last.val
    /\ last.op = "string" =>
         /\ get_string_length_unsafe(tag, last.offset) = Len(last.val)
         /\ get_string_total_length_unsafe(tag, last.offset)
              = get_new_string_total_length_unsafe(tag, last.val)

\* The bytes of the buffer that a setter may change, before and after the call.
FieldEnds(t) ==
  CASE last.op = "string" ->
         last.offset + (IF t = tag /\ last.res = Ok THEN get_new_string_total_length_unsafe(t, last.val)
                        ELSE get_string_total_length_unsafe(t, last.offset))
    [] last.op = "bit" -> RealOffset(t, last.offset) \div 8 + 1
    [] t.is_bit -> t.bit \div 8 + 1
    [] OTHER -> last.offset + Len(last.val)

FieldStarts(t) ==
  CASE last.op = "bit" -> RealOffset(t, last.offset) \div 8
    [] t.is_bit -> t.bit \div 8
    [] OTHER -> last.offset

(***************************************************************************)
(* A setter that succeeds keeps every byte in front of its field and every *)
(* byte behind it, in order, also when the field grows or shrinks          *)
(* (lib.c:4770-4846); one that refuses, keeps them all.                    *)
(***************************************************************************)
RestKept ==
  last.op \in SetOps /\ (last.op = "string" => Faithful(tag.order)) =>
    LET old == last.before.data
        new == tag.data IN
    IF last.res # Ok THEN old = new
    ELSE /\ SubSeq(old, 1, FieldStarts(last.before)) = SubSeq(new, 1, FieldStarts(tag))
         /\ SubSeq(old, FieldEnds(last.before) + 1, Len(old))
              = SubSeq(new, FieldEnds(tag) + 1, Len(new))

(***************************************************************************)
(* A tag that writes by itself (auto_sync_write_ms) is marked dirty by     *)
(* every setter that changes its data, or the change would never reach     *)
(* the PLC (lib.c:2453, 2570, 3813, 4015).                                 *)
(***************************************************************************)
ChangeIsDirty ==
  last.op \in SetOps /\ last.res = Ok /\ tag.auto_sync_write_ms > 0 /\ tag.data # last.before.data =>
    tag.tag_is_dirty

(***************************************************************************)
(* Setters are faithful: what was set can be got, the rest of the data is  *)
(* kept, and an automatic write will carry it (lib.c:2367-4037).           *)
(***************************************************************************)
SettersFaithful == SetIsGot /\ RestKept /\ ChangeIsDirty
=============================================================================
