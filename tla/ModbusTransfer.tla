--------------------------- MODULE ModbusTransfer ---------------------------
(***************************************************************************)
(* How a Modbus tag larger than one packet is read and written in pieces:  *)
(* the register arithmetic of create_read_request, check_read_response,    *)
(* create_write_request and check_write_response (protocols/mb/modbus.c).  *)
(*                                                                         *)
(* Registers are numbered from the tag's first one.  The PLC accepts every *)
(* request and answers a read with exactly the registers asked for.        *)
(***************************************************************************)
EXTENDS Integers

CONSTANTS
  ElemSizes,      \* bits of a register: 1 for coils and discrete inputs, 16
  ElemCounts,     \* the elem_count of the tags considered
  REQUEST_PAYLOAD,   \* MAX_MODBUS_REQUEST_PAYLOAD: bytes of data in a request
  RESPONSE_PAYLOAD,  \* MAX_MODBUS_RESPONSE_PAYLOAD: bytes in a response
  Directions      \* what is transferred: {"read", "write"} or one of them

ASSUME TransferAssumption ==
  /\ ElemSizes \subseteq {1, 16}
  /\ ElemCounts \subseteq Nat \ {0}
  /\ REQUEST_PAYLOAD \in Nat /\ REQUEST_PAYLOAD > 1
  /\ RESPONSE_PAYLOAD \in Nat /\ REQUEST_PAYLOAD <= RESPONSE_PAYLOAD
  /\ Directions \subseteq {"read", "write"}

VARIABLES
  dir, elem_size, elem_count,
  request_num,   \* tag->request_num
  asked,         \* the registers of the request on the wire: from, count
  moved,         \* registers 0 .. moved - 1 have been transferred (ghost)
  pc             \* "request", "response" or "done"

whatVars == <<dir, elem_size, elem_count>>
transferVars == <<whatVars, request_num, asked, moved, pc>>

\* tag->size: the data in bytes, rounded up.
Bytes(registers) == (registers * elem_size + 7) \div 8

size == Bytes(elem_count)

PerRequest(payload) == (payload * 8) \div elem_size

TransferTypeOK ==
  /\ dir \in Directions
  /\ elem_size \in ElemSizes
  /\ elem_count \in ElemCounts
  /\ request_num \in Nat
  /\ asked \in [from: Nat, count: Nat]
  /\ moved \in Nat
  /\ pc \in {"request", "response", "done"}

TransferInit ==
  /\ dir \in Directions
  /\ elem_size \in ElemSizes
  /\ elem_count \in ElemCounts
  /\ request_num = 0
  /\ asked = [from |-> 0, count |-> 0]
  /\ moved = 0
  /\ pc = "request"

\* create_read_request, create_write_request: the next piece, clamped to what
\* fits into one packet.
create_request(payload) ==
  LET from == request_num * PerRequest(payload)
      left == elem_count - from
  IN  /\ pc = "request"
      /\ asked' = [from |-> from,
                   count |-> IF left > PerRequest(payload)
                               THEN PerRequest(payload) ELSE left]
      /\ pc' = "response"
      /\ UNCHANGED <<whatVars, request_num, moved>>

\* The end of both check functions: another request, or the operation is done.
Finish(partial) ==
  /\ moved' = IF asked.from = moved THEN moved + asked.count ELSE moved
  /\ request_num' = IF partial THEN request_num + 1 ELSE 0
  /\ pc' = IF partial THEN "request" ELSE "done"
  /\ UNCHANGED <<whatVars, asked>>

\* Fault: the end of the piece after this one is tested.
check_read_responseEarly ==
  LET next_byte_offset ==
        ((request_num + 2) * PerRequest(RESPONSE_PAYLOAD) * elem_size) \div 8
  IN  pc = "response" /\ Finish(size > next_byte_offset)

\* The response holds Bytes(asked.count) bytes; they go to byte_offset.
check_read_response ==
  LET byte_offset == (request_num * PerRequest(RESPONSE_PAYLOAD) * elem_size) \div 8
      room == size - byte_offset
      copy_size == IF room < Bytes(asked.count) THEN room ELSE Bytes(asked.count)
  IN  pc = "response" /\ Finish(size > byte_offset + copy_size)

\* The offset of the next piece is computed from the size of a response.
check_write_response ==
  LET next_byte_offset ==
        ((request_num + 1) * PerRequest(RESPONSE_PAYLOAD) * elem_size) \div 8
  IN  pc = "response" /\ Finish(size > next_byte_offset)

ReadRequest == dir = "read" /\ create_request(RESPONSE_PAYLOAD)
WriteRequest == dir = "write" /\ create_request(REQUEST_PAYLOAD)
ReadResponse == dir = "read" /\ check_read_response
WriteResponse == dir = "write" /\ check_write_response

TransferNext == ReadRequest \/ WriteRequest \/ ReadResponse \/ WriteResponse

TransferSpec == TransferInit /\ [][TransferNext]_transferVars /\ WF_transferVars(TransferNext)

-----------------------------------------------------------------------------
\* A read that reports success has moved every register of the tag: reading
\* and checking agree on where each piece starts.
ReadIsComplete == dir = "read" /\ pc = "done" => moved = elem_count

\* A write that reports success has moved every register of the tag.
WriteIsComplete == dir = "write" /\ pc = "done" => moved = elem_count

\* Every request asks for the registers after the ones already moved, at least
\* one, none beyond the tag and no more than its packet can hold.
RequestsAdvance ==
  pc = "response" =>
    /\ asked.from = moved
    /\ asked.count > 0
    /\ moved + asked.count <= elem_count
    /\ Bytes(asked.count) <= IF dir = "read" THEN RESPONSE_PAYLOAD
                                             ELSE REQUEST_PAYLOAD

\* The pieces of a transfer follow one another, fit into their packets, and
\* those of a read that reports success are all of the tag.
PiecesCover == RequestsAdvance /\ ReadIsComplete

=============================================================================
