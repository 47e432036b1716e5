---------------------------- MODULE SessionProofs ----------------------------
(***************************************************************************)
(* Theorems about the way of a request: the pieces of a Modbus transfer, the *)
(* events that tell an application how its operations go, and the session    *)
(* that carries the requests of Allen-Bradley tags, for any number of tags   *)
(* and requests, any sizes and any number of faults.                         *)
(***************************************************************************)
EXTENDS ModbusTransfer, TagEvents, AbSession, TLAPS

\* Which provers to try on a step that names none, and for how many seconds.
USE SMTT(30), ZenonT(30), Z3T(30)

(***************************************************************************)
(* ModbusTransfer: the pieces of one read or write.                         *)
(***************************************************************************)
payload == IF dir = "read" THEN RESPONSE_PAYLOAD ELSE REQUEST_PAYLOAD

\* The registers of the piece that starts at the given one.
Piece(from) ==
  IF elem_count - from > PerRequest(payload) THEN PerRequest(payload) ELSE elem_count - from

TransferInv ==
  /\ TransferTypeOK
  /\ pc # "done" => moved = request_num * PerRequest(payload) /\ moved < elem_count
  /\ pc = "response" => asked = [from |-> moved, count |-> Piece(moved)]
  /\ pc = "done" /\ dir = "read" => moved = elem_count

LEMMA RequestHoldsRegisters ==
  ASSUME elem_size \in {1, 16}, NEW p \in Nat, p > 1
  PROVE  /\ PerRequest(p) \in Nat /\ PerRequest(p) > 0
         /\ elem_size = 1 => PerRequest(p) = 8 * p
         /\ elem_size = 16 => PerRequest(p) = p \div 2
  <1>1. CASE elem_size = 1
    BY <1>1 DEF PerRequest
  <1>2. CASE elem_size = 16
    BY <1>2 DEF PerRequest
  <1> QED BY <1>1, <1>2

LEMMA BytesOfPiece ==
  ASSUME elem_size \in {1, 16}, NEW p \in Nat, p > 1, NEW c \in Nat, c <= PerRequest(p)
  PROVE  Bytes(c) \in Nat /\ Bytes(c) <= p
  <1>1. CASE elem_size = 1
    BY <1>1 DEF PerRequest, Bytes
  <1>2. CASE elem_size = 16
    BY <1>2 DEF PerRequest, Bytes
  <1> QED BY <1>1, <1>2

LEMMA PiecesAreAligned ==
  ASSUME elem_size \in {1, 16}, NEW p \in Nat, p > 1, NEW n \in Nat
  PROVE  \E o \in Nat : /\ n * PerRequest(p) * elem_size = 8 * o
                        /\ (n * PerRequest(p) * elem_size) \div 8 = o
  <1>1. CASE elem_size = 1
    <2>1. n * p \in Nat OBVIOUS
    <2>2. n * PerRequest(p) * elem_size = 8 * (n * p)
      BY <1>1, RequestHoldsRegisters
    <2> QED BY <2>1, <2>2
  <1>2. CASE elem_size = 16
    <2>1. PICK k \in Nat : k = PerRequest(p) BY RequestHoldsRegisters
    <2>2. n * k \in Nat OBVIOUS
    <2>3. n * k * 16 = 8 * (2 * (n * k)) OBVIOUS
    <2> QED BY <1>2, <2>1, <2>2, <2>3
  <1> QED BY <1>1, <1>2

LEMMA BytesReached ==
  ASSUME elem_size \in {1, 16}, NEW k \in Nat, NEW o \in Nat, k * elem_size = 8 * o,
         NEW c \in Nat
  PROVE  /\ Bytes(c) > o <=> c > k
         /\ c >= k => Bytes(c) - o = Bytes(c - k)
  <1>1. CASE elem_size = 1
    BY <1>1 DEF Bytes
  <1>2. CASE elem_size = 16
    BY <1>2 DEF Bytes
  <1> QED BY <1>1, <1>2

LEMMA ProductGrows ==
  ASSUME NEW n \in Nat, NEW k \in Nat, NEW l \in Nat, k <= l
  PROVE  /\ n * k \in Nat /\ n * k <= n * l
         /\ (n + 1) * k = n * k + k
  <1>1. PICK d \in Nat : l = k + d
    <2>1. l - k \in Nat /\ l = k + (l - k) OBVIOUS
    <2> QED BY <2>1
  <1>2. n * d \in Nat /\ n * (k + d) = n * k + n * d /\ n * k \in Nat OBVIOUS
  <1>3. (n + 1) * k = n * k + k OBVIOUS
  <1> QED BY <1>1, <1>2, <1>3

LEMMA WriteRequestIsSmaller ==
  ASSUME elem_size \in {1, 16}
  PROVE  PerRequest(REQUEST_PAYLOAD) <= PerRequest(RESPONSE_PAYLOAD)
  <1>1. CASE elem_size = 1 BY <1>1, TransferAssumption DEF PerRequest
  <1>2. CASE elem_size = 16 BY <1>2, TransferAssumption DEF PerRequest
  <1> QED BY <1>1, <1>2

LEMMA TransferStarts == TransferInit => TransferInv
  <1> SUFFICES ASSUME TransferInit PROVE TransferInv OBVIOUS
  <1>1. elem_size \in {1, 16} /\ elem_count \in Nat /\ elem_count > 0
    BY TransferAssumption DEF TransferInit
  <1>2. TransferTypeOK BY DEF TransferInit, TransferTypeOK
  <1>3. payload \in Nat /\ payload > 1 BY TransferAssumption DEF payload
  <1>4. PerRequest(payload) \in Nat BY <1>1, <1>3, RequestHoldsRegisters
  <1>5. 0 * PerRequest(payload) = 0 BY <1>4
  <1> QED BY <1>1, <1>2, <1>5 DEF TransferInit, TransferInv

\* The next piece begins where the transferred registers end.
LEMMA RequestKeepsInv ==
  ASSUME TransferInv, NEW p, p = payload, create_request(p)
  PROVE  TransferInv'
  <1>1. /\ elem_size \in {1, 16} /\ elem_count \in Nat /\ request_num \in Nat
        /\ moved \in Nat /\ payload \in Nat /\ payload > 1
    <2>1. payload \in Nat /\ payload > 1 BY TransferAssumption DEF payload
    <2> QED BY <2>1, TransferAssumption DEF TransferInv, TransferTypeOK
  <1>2. PerRequest(payload) \in Nat /\ PerRequest(payload) > 0
    BY <1>1, RequestHoldsRegisters
  <1>3. /\ pc = "request" /\ pc' = "response" /\ request_num' = request_num /\ moved' = moved
        /\ dir' = dir /\ elem_size' = elem_size /\ elem_count' = elem_count
    BY DEF create_request, whatVars
  <1>4. payload' = payload /\ PerRequest(payload)' = PerRequest(payload)
        /\ Piece(moved)' = Piece(moved)
    BY <1>3 DEF payload, PerRequest, Piece
  <1>5. moved = request_num * PerRequest(payload) /\ moved < elem_count
    BY <1>3 DEF TransferInv
  <1>6. asked' = [from |-> moved, count |-> Piece(moved)]
    BY <1>5 DEF create_request, Piece
  <1>7. Piece(moved) \in Nat BY <1>1, <1>2, <1>5 DEF Piece
  <1>8. TransferTypeOK'
    BY <1>1, <1>3, <1>6, <1>7 DEF TransferInv, TransferTypeOK
  <1> QED BY <1>3, <1>4, <1>5, <1>6, <1>8 DEF TransferInv

LEMMA PieceFacts ==
  ASSUME TransferInv, pc = "response"
  PROVE  /\ elem_size \in {1, 16} /\ elem_count \in Nat /\ request_num \in Nat /\ moved \in Nat
         /\ payload \in Nat /\ payload > 1
         /\ PerRequest(payload) \in Nat /\ PerRequest(payload) > 0
         /\ moved = request_num * PerRequest(payload) /\ moved < elem_count
         /\ asked = [from |-> moved, count |-> Piece(moved)]
         /\ Piece(moved) \in Nat /\ Piece(moved) > 0 /\ Piece(moved) <= PerRequest(payload)
         /\ moved + Piece(moved) <= elem_count
         /\ moved + Piece(moved) < elem_count <=> elem_count - moved > PerRequest(payload)
         /\ elem_count - moved > PerRequest(payload) => Piece(moved) = PerRequest(payload)
  <1>1. /\ elem_size \in {1, 16} /\ elem_count \in Nat /\ request_num \in Nat
        /\ moved \in Nat /\ payload \in Nat /\ payload > 1
    <2>1. payload \in Nat /\ payload > 1 BY TransferAssumption DEF payload
    <2> QED BY <2>1, TransferAssumption, Zenon DEF TransferInv, TransferTypeOK
  <1>2. PerRequest(payload) \in Nat /\ PerRequest(payload) > 0
    BY <1>1, RequestHoldsRegisters
  <1>3. /\ moved = request_num * PerRequest(payload) /\ moved < elem_count
        /\ asked = [from |-> moved, count |-> Piece(moved)]
    BY DEF TransferInv
  <1>4. /\ Piece(moved) \in Nat /\ Piece(moved) > 0 /\ Piece(moved) <= PerRequest(payload)
        /\ moved + Piece(moved) <= elem_count
        /\ moved + Piece(moved) < elem_count <=> elem_count - moved > PerRequest(payload)
        /\ elem_count - moved > PerRequest(payload) => Piece(moved) = PerRequest(payload)
    <2>1. moved < elem_count BY <1>3
    <2> DEFINE k == PerRequest(payload)
    <2>2. Piece(moved) = IF elem_count - moved > k THEN k ELSE elem_count - moved
      BY DEF Piece
    <2>3. k \in Nat /\ k > 0 BY <1>2
    <2> HIDE DEF k
    <2>4. /\ Piece(moved) \in Nat /\ Piece(moved) > 0 /\ Piece(moved) <= k
          /\ moved + Piece(moved) <= elem_count
          /\ moved + Piece(moved) < elem_count <=> elem_count - moved > k
          /\ elem_count - moved > k => Piece(moved) = k
      BY <1>1, <2>1, <2>2, <2>3
    <2> QED BY <2>4 DEF k
  <1> QED BY <1>1, <1>2, <1>3, <1>4

\* The response moves its piece; there is another one exactly when the code
\* finds that the data goes on.
LEMMA FinishKeepsInv ==
  ASSUME TransferInv, pc = "response", NEW more \in BOOLEAN, Finish(more),
         more => moved + Piece(moved) < elem_count,
         ~more /\ dir = "read" => moved + Piece(moved) = elem_count
  PROVE  TransferInv'
  <1> USE PieceFacts
  <1>1. asked.from = moved /\ asked.count = Piece(moved) OBVIOUS
  <1>2. moved' = moved + Piece(moved) /\ moved' \in Nat
    BY <1>1 DEF Finish
  <1>3. /\ request_num' = (IF more THEN request_num + 1 ELSE 0)
        /\ pc' = (IF more THEN "request" ELSE "done")
        /\ dir' = dir /\ elem_size' = elem_size /\ elem_count' = elem_count /\ asked' = asked
    BY DEF Finish, whatVars
  <1>4. payload' = payload /\ PerRequest(payload)' = PerRequest(payload)
    BY <1>3 DEF payload, PerRequest
  <1>5. TransferTypeOK'
    BY <1>2, <1>3 DEF TransferInv, TransferTypeOK
  <1>6. more => moved' = request_num' * PerRequest(payload)' /\ moved' < elem_count'
    <2> SUFFICES ASSUME more
                 PROVE moved' = request_num' * PerRequest(payload)' /\ moved' < elem_count'
      OBVIOUS
    <2>1. (request_num + 1) * PerRequest(payload) = request_num * PerRequest(payload) + PerRequest(payload)
      BY ProductGrows
    <2> QED BY <1>2, <1>3, <1>4, <2>1
  <1>7. ~more /\ dir = "read" => moved' = elem_count'
    BY <1>2, <1>3
  <1> QED BY <1>3, <1>5, <1>6, <1>7, Zenon DEF TransferInv

\* check_read_response goes on while there are bytes after the copied ones.
LEMMA ReadResponseKeepsInv ==
  ASSUME TransferInv, ReadResponse
  PROVE  TransferInv'
  <1> DEFINE k == request_num * PerRequest(RESPONSE_PAYLOAD)
             o == (k * elem_size) \div 8
             n == Bytes(asked.count)
             copy == IF size - o < n THEN size - o ELSE n
             more == size > o + copy
  <1>1. pc = "response" /\ dir = "read" /\ Finish(more) /\ payload = RESPONSE_PAYLOAD
    BY DEF ReadResponse, check_read_response, payload
  <1>2. /\ elem_size \in {1, 16} /\ elem_count \in Nat /\ moved \in Nat /\ moved = k
        /\ moved < elem_count /\ Piece(moved) \in Nat /\ asked.count = Piece(moved)
        /\ moved + Piece(moved) <= elem_count
    BY <1>1, PieceFacts
  <1>3. \E w \in Nat : k * elem_size = 8 * w /\ (k * elem_size) \div 8 = w
    BY <1>1, PieceFacts, PiecesAreAligned
  <1>4. o \in Nat /\ moved * elem_size = 8 * o
    BY <1>2, <1>3
  <1>5. n = Bytes(Piece(moved)) BY <1>2
  <1>6. more \in BOOLEAN OBVIOUS
  <1>7. more <=> size > o + copy OBVIOUS
  <1>8. elem_size = 1 /\ moved + Piece(moved) < elem_count
           => Piece(moved) = 8 * RESPONSE_PAYLOAD /\ RESPONSE_PAYLOAD \in Nat
    BY <1>1, PieceFacts, RequestHoldsRegisters, Zenon
  <1> HIDE DEF k, o, n, more
  <1>9. more <=> moved + Piece(moved) < elem_count
    <2>1. CASE elem_size = 1
      BY <1>2, <1>4, <1>5, <1>7, <1>8, <2>1 DEF size, Bytes
    <2>2. CASE elem_size = 16
      BY <1>2, <1>4, <1>5, <1>7, <2>2 DEF size, Bytes
    <2> QED BY <1>2, <2>1, <2>2
  <1>10. ~more => moved + Piece(moved) = elem_count BY <1>2, <1>9
  <1> QED BY <1>1, <1>6, <1>9, <1>10, FinishKeepsInv

\* check_write_response compares with the end of a piece of the size of a
\* response, which is not before the end of this one.
LEMMA WriteResponseKeepsInv ==
  ASSUME TransferInv, WriteResponse
  PROVE  TransferInv'
  <1> DEFINE k == (request_num + 1) * PerRequest(RESPONSE_PAYLOAD)
             o == (k * elem_size) \div 8
             more == size > o
  <1>1. pc = "response" /\ dir = "write" /\ Finish(more) /\ payload = REQUEST_PAYLOAD
    BY DEF WriteResponse, check_write_response, payload
  <1>2. /\ elem_size \in {1, 16} /\ elem_count \in Nat /\ moved \in Nat /\ request_num \in Nat
        /\ moved = request_num * PerRequest(payload) /\ PerRequest(payload) \in Nat
        /\ Piece(moved) \in Nat /\ Piece(moved) <= PerRequest(payload)
    BY <1>1, PieceFacts
  <1>3. RESPONSE_PAYLOAD \in Nat /\ RESPONSE_PAYLOAD > 1 /\ request_num + 1 \in Nat
    BY <1>2, TransferAssumption
  <1>4. \E w \in Nat : k * elem_size = 8 * w /\ (k * elem_size) \div 8 = w
    BY <1>2, <1>3, PiecesAreAligned
  <1>5. o \in Nat /\ k * elem_size = 8 * o
    BY <1>4
  <1>6. PerRequest(RESPONSE_PAYLOAD) \in Nat BY <1>2, <1>3, RequestHoldsRegisters
  <1>7. k \in Nat /\ k >= moved + PerRequest(payload)
    <2>1. PerRequest(payload) <= PerRequest(RESPONSE_PAYLOAD)
      BY <1>1, <1>2, WriteRequestIsSmaller
    <2>2. (request_num + 1) * PerRequest(payload) <= k
      BY <1>2, <1>3, <1>6, <2>1, ProductGrows
    <2>3. (request_num + 1) * PerRequest(payload) = moved + PerRequest(payload)
      BY <1>2, ProductGrows
    <2>4. k \in Nat BY <1>3, <1>6, ProductGrows
    <2> QED BY <1>2, <2>2, <2>3, <2>4
  <1>8. more \in BOOLEAN /\ (more <=> size > o) OBVIOUS
  <1> HIDE DEF k, o, more
  <1>9. size > o <=> elem_count > k
    BY <1>2, <1>5, <1>7, BytesReached DEF size
  <1>10. more => moved + Piece(moved) < elem_count
    BY <1>2, <1>7, <1>8, <1>9
  <1> QED BY <1>1, <1>8, <1>10, FinishKeepsInv

\* What a reader gets and what both directions ask for, for tags of every size
\* and for all payload sizes: the pieces that create_read_request and
\* create_write_request ask for follow one another, lie inside the tag and fit
\* into their packets, and a read that check_read_response completes has
\* copied the whole tag.
THEOREM PiecesCoverTag == TransferSpec => []PiecesCover
  <1>1. TransferInv /\ [TransferNext]_transferVars => TransferInv'
    <2> SUFFICES ASSUME TransferInv, [TransferNext]_transferVars PROVE TransferInv'
      OBVIOUS
    <2>1. CASE ReadRequest
      BY <2>1, RequestKeepsInv DEF ReadRequest, payload
    <2>2. CASE WriteRequest
      BY <2>2, RequestKeepsInv DEF WriteRequest, payload
    <2>3. CASE UNCHANGED transferVars
      BY <2>3 DEF TransferInv, TransferTypeOK, transferVars, whatVars, payload, PerRequest, Piece
    <2> QED BY <2>1, <2>2, <2>3, ReadResponseKeepsInv, WriteResponseKeepsInv DEF TransferNext
  <1>2. TransferInv => PiecesCover
    <2> SUFFICES ASSUME TransferInv PROVE PiecesCover OBVIOUS
    <2>1. RequestsAdvance
      <3> SUFFICES ASSUME pc = "response"
                   PROVE /\ asked.from = moved /\ asked.count > 0
                         /\ moved + asked.count <= elem_count
                         /\ Bytes(asked.count) <= payload
        BY DEF RequestsAdvance, payload
      <3>1. asked.from = moved /\ asked.count = Piece(moved) BY PieceFacts
      <3> QED BY <3>1, PieceFacts, BytesOfPiece
    <2> QED BY <2>1 DEF TransferInv, ReadIsComplete, PiecesCover
  <1> QED BY <1>1, <1>2, TransferStarts, PTL DEF TransferSpec

-----------------------------------------------------------------------------
(***************************************************************************)
(* TagEvents: every action changes the flags by raising events and by       *)
(* passes of callbacks, one after the other, and each of them keeps Sound,  *)
(* whichever thread does it.                                                *)
(***************************************************************************)
EventRecords ==
  [created : BOOLEAN, had_created : BOOLEAN, aborted : BOOLEAN, destroyed : BOOLEAN,
   started : SUBSET Operations, completed : SUBSET Operations, enabled : SUBSET Operations,
   heard : [created : Nat, started : SUBSET Operations, early : BOOLEAN, over : BOOLEAN]]

\* The flags that wait for a pass of callbacks, and what earlier passes told, agree:
\* the creation is told or waits as soon as it is known, nothing that follows it
\* waits before, and what may complete has been told to start or will be.
Announced(e) ==
  /\ ~e.had_created => ~e.created /\ e.heard.created = 0
  /\ e.created => e.heard.created = 0
  /\ e.had_created /\ ~e.created => e.heard.created = 1
  /\ e.aborted \/ e.completed # {} => e.had_created
  /\ e.enabled \cup e.completed \subseteq e.heard.started \cup e.started
  /\ ~e.heard.early

Sound(e) == e \in EventRecords /\ Announced(e)

LEMMA CreatedIsSound ==
  ASSUME NEW e, Sound(e)
  PROVE  Sound(Created(e)) /\ Created(e).had_created
         /\ Created(e).heard = e.heard /\ Created(e).enabled = e.enabled
         /\ Created(e).completed = e.completed
         /\ Created(e).started = e.started
<1> DEFINE c == e.created \/ ~e.had_created
<1>1. Created(e) = [e EXCEPT !.created = c, !.had_created = TRUE] BY DEF Created, Sound, EventRecords
<1>2. e \in EventRecords /\ c \in BOOLEAN BY DEF Sound, EventRecords
<1>3. c <=> e.created \/ ~e.had_created BY <1>2, Zenon
<1> HIDE DEF c
<1>4. /\ Created(e) \in EventRecords /\ Created(e).created = c /\ Created(e).had_created
      /\ Created(e).heard = e.heard /\ Created(e).enabled = e.enabled
      /\ Created(e).completed = e.completed /\ Created(e).aborted = e.aborted
      /\ Created(e).started = e.started
  BY <1>1, <1>2, Zenon DEF EventRecords
<1>5. Announced(Created(e)) BY <1>2, <1>3, <1>4 DEF Sound, Announced, EventRecords
<1> QED BY <1>4, <1>5 DEF Sound

LEMMA RaiseIsSound ==
  ASSUME NEW e, Sound(e), NEW op \in Operations, NEW other, NEW busy
  PROVE  /\ Sound(tag_raise_event(e, "ABORTED", other, busy))
         /\ Sound(tag_raise_event(e, "CREATED", other, busy))
         /\ Sound(tag_raise_event(e, "DESTROYED", other, busy))
         /\ Sound(tag_raise_event(e, "STARTED", op, busy))
         /\ Sound(tag_raise_event(e, "COMPLETED", op, busy))
<1>1. CASE ~callback BY <1>1 DEF tag_raise_event
<1>2. CASE callback
  <2> DEFINE c == Created(e)
  <2>1. /\ Sound(c) /\ c.had_created /\ c.heard = e.heard /\ c.enabled = e.enabled
        /\ c.completed = e.completed /\ c.started = e.started
    BY CreatedIsSound
  <2>2. tag_raise_event(e, "ABORTED", other, busy) = [c EXCEPT !.aborted = TRUE]
    BY <1>2 DEF tag_raise_event
  <2>3. tag_raise_event(e, "CREATED", other, busy) = c
    BY <1>2 DEF tag_raise_event
  <2>4. tag_raise_event(e, "DESTROYED", other, busy) = [e EXCEPT !.destroyed = TRUE]
    BY <1>2 DEF tag_raise_event
  <2>5. tag_raise_event(e, "STARTED", op, busy)
          = [e EXCEPT !.started = @ \cup {op}, !.enabled = @ \cup {op}]
    BY <1>2 DEF tag_raise_event
  <2>6. tag_raise_event(e, "COMPLETED", op, busy) =
         IF op \in e.enabled
         THEN [c EXCEPT !.completed = @ \cup {op}, !.enabled = @ \ {op},
                        !.heard.over = @ /\ ~(op = "write" /\ op \in busy)]
         ELSE c
    BY <1>2 DEF tag_raise_event
  <2> HIDE DEF c
  <2>7. Sound([c EXCEPT !.aborted = TRUE])
    BY <2>1, Zenon DEF Sound, Announced, EventRecords
  <2>8. Sound([e EXCEPT !.destroyed = TRUE])
    BY Zenon DEF Sound, Announced, EventRecords
  <2>9. Sound([e EXCEPT !.started = @ \cup {op}, !.enabled = @ \cup {op}])
    BY Zenon DEF Sound, Announced, EventRecords
  <2>10. ASSUME op \in e.enabled
         PROVE  Sound([c EXCEPT !.completed = @ \cup {op}, !.enabled = @ \ {op},
                                !.heard.over = @ /\ ~(op = "write" /\ op \in busy)])
    <3> DEFINE over == c.heard.over /\ ~(op = "write" /\ op \in busy)
    <3>1. over \in BOOLEAN BY Zenon
    <3>2. [c EXCEPT !.completed = @ \cup {op}, !.enabled = @ \ {op},
                    !.heard.over = @ /\ ~(op = "write" /\ op \in busy)]
          = [c EXCEPT !.completed = @ \cup {op}, !.enabled = @ \ {op}, !.heard.over = over]
      BY <2>1 DEF Sound, EventRecords
    <3> HIDE DEF over
    <3>3. op \in e.heard.started \cup e.started BY <2>10 DEF Sound, Announced
    <3>4. PICK d : d = [c EXCEPT !.completed = @ \cup {op}, !.enabled = @ \ {op},
                                 !.heard.over = over]
      OBVIOUS
    <3>5. c \in EventRecords BY <2>1 DEF Sound
    <3>6. c.heard \in [created : Nat, started : SUBSET Operations, early : BOOLEAN, over : BOOLEAN]
      BY <3>5 DEF EventRecords
    <3>7. PICK past : past = [c.heard EXCEPT !.over = over] BY Zenon
    <3>8. /\ past \in [created : Nat, started : SUBSET Operations, early : BOOLEAN, over : BOOLEAN]
          /\ past.created = c.heard.created /\ past.started = c.heard.started
          /\ past.early = c.heard.early
      BY <3>1, <3>6, <3>7
    <3>9. /\ d.completed = c.completed \cup {op} /\ d.enabled = c.enabled \ {op}
          /\ d.heard = past /\ d.created = c.created /\ d.had_created = c.had_created
          /\ d.aborted = c.aborted /\ d.started = c.started
      BY <3>4, <3>5, <3>7 DEF EventRecords
    <3>10. d \in EventRecords BY <3>4, <3>5, <3>7, <3>8, Zenon DEF EventRecords
    <3>11. Announced(d) BY <2>1, <3>3, <3>8, <3>9 DEF Sound, Announced
    <3> QED BY <3>2, <3>4, <3>10, <3>11, Zenon DEF Sound
  <2> QED BY <2>1, <2>2, <2>3, <2>4, <2>5, <2>6, <2>7, <2>8, <2>9, <2>10, Zenon
<1> QED BY <1>1, <1>2

LEMMA DeliveredIsSound ==
  ASSUME NEW e, Sound(e)
  PROVE  Sound(Delivered(e))
<1>1. CASE ~callback BY <1>1 DEF Delivered, plc_tag_generic_handle_event_callbacks
<1>2. CASE callback
  <2> DEFINE told == IF e.created THEN e.heard.created + 1 ELSE e.heard.created
             early == \/ e.heard.early
                      \/ e.heard.created = 0 /\ ~e.created /\ (e.aborted \/ e.completed # {})
                      \/ ~(e.completed \subseteq e.heard.started \cup e.started)
             after == [e.heard EXCEPT !.created = told, !.started = @ \cup e.started,
                                      !.early = early]
  <2>1. told \in Nat /\ (e.had_created => told = 1) /\ (~e.had_created => told = 0)
    BY DEF Sound, Announced, EventRecords
  <2>2. early = FALSE
    <3>1. ~e.heard.early /\ e.completed \subseteq e.heard.started \cup e.started
      BY DEF Sound, Announced
    <3>2. ~(e.heard.created = 0 /\ ~e.created /\ (e.aborted \/ e.completed # {}))
      BY DEF Sound, Announced, EventRecords
    <3> QED BY <3>1, <3>2
  <2> HIDE DEF told, early
  <2>3. Delivered(e) = [e EXCEPT !.created = FALSE, !.aborted = FALSE, !.destroyed = FALSE,
                                 !.started = {}, !.completed = {}, !.heard = after]
    <3>1. e \in EventRecords BY DEF Sound
    <3>2. [e EXCEPT !.created = FALSE, !.aborted = FALSE, !.destroyed = FALSE,
                    !.started = {}, !.completed = {}, !.heard.created = told,
                    !.heard.started = @ \cup e.started, !.heard.early = early]
          = [e EXCEPT !.created = FALSE, !.aborted = FALSE, !.destroyed = FALSE,
                      !.started = {}, !.completed = {}, !.heard = after]
      BY <3>1, Zenon DEF EventRecords
    <3> QED BY <1>2, <3>2, Zenon
           DEF Delivered, plc_tag_generic_handle_event_callbacks, told, early
  <2>4. /\ after \in [created : Nat, started : SUBSET Operations, early : BOOLEAN, over : BOOLEAN]
        /\ after.created = told /\ after.started = e.heard.started \cup e.started
        /\ after.early = early
    <3>1. /\ e.heard \in [created : Nat, started : SUBSET Operations, early : BOOLEAN, over : BOOLEAN]
          /\ e.started \in SUBSET Operations
      BY DEF Sound, EventRecords
    <3> QED BY <2>1, <2>2, <3>1, Zenon
  <2>5. e \in EventRecords BY DEF Sound
  <2>6. PICK past : past = after BY Zenon
  <2>7. past.created = told /\ past.started = e.heard.started \cup e.started /\ ~past.early
    BY <2>2, <2>4, <2>6, Zenon
  <2> HIDE DEF after
  <2>8. PICK d : d = Delivered(e) BY Zenon
  <2>9. /\ ~d.created /\ d.had_created = e.had_created /\ ~d.aborted /\ d.completed = {}
        /\ d.enabled = e.enabled /\ d.heard = past /\ d.started = {}
    BY <2>3, <2>5, <2>6, <2>8 DEF EventRecords
  <2>10. d \in EventRecords BY <2>3, <2>4, <2>5, <2>8, Zenon DEF EventRecords
  <2>11. Announced(d) BY <2>1, <2>7, <2>9 DEF Sound, Announced
  <2> QED BY <2>8, <2>10, <2>11 DEF Sound
<1> QED BY <1>1, <1>2

\* The tag as the tickler sees it.
TagRecord(s) == s = [f \in {"ev", "flight", "complete", "abort", "calls"} |-> s[f]]

LEMMA TicklerIsSound ==
  ASSUME NEW s, TagRecord(s), Sound(s.ev), NEW t \in plc_tag_generic_tickler(s)
  PROVE  TagRecord(t) /\ Sound(t.ev)
<1> DEFINE stopped == tag_raise_event(s.ev, "ABORTED", "none", {})
           w == IF "read" \in s.flight
                THEN [s EXCEPT !.ev = stopped, !.flight = @ \ {"read"},
                               !.complete = @ \ {"read"}]
                ELSE s
<1>1. Sound(stopped) BY RaiseIsSound DEF Operations
<1> HIDE DEF stopped
<1>2. TagRecord(w) /\ Sound(w.ev) BY <1>1, Zenon DEF TagRecord
<1> HIDE DEF w
<1>3. Sound(tag_raise_event(w.ev, "STARTED", "write", {})) BY <1>2, RaiseIsSound DEF Operations
<1>4. Sound(tag_raise_event(s.ev, "STARTED", "read", {})) BY RaiseIsSound DEF Operations
<1>5. CASE t = AbortDone(s) BY <1>1, <1>5, Zenon DEF AbortDone, TagRecord, stopped
<1>6. CASE t = s BY <1>6
<1>7. CASE t \in AutoWritten(s)
  <2>1. t = w \/ t = [w EXCEPT !.ev = tag_raise_event(@, "STARTED", "write", {}),
                               !.flight = @ \cup {"write"}, !.calls = @ + 1]
    BY <1>7, Zenon DEF AutoWritten, w, stopped
  <2> QED BY <1>2, <1>3, <2>1, Zenon DEF TagRecord
<1>8. CASE t \in AutoRead(s)
  <2>1. t = [s EXCEPT !.ev = tag_raise_event(@, "STARTED", "read", {}),
                      !.flight = {"read"}, !.calls = @ + 1]
    BY <1>8, Zenon DEF AutoRead
  <2> QED BY <1>4, <2>1, Zenon DEF TagRecord
<1> QED BY <1>5, <1>6, <1>7, <1>8, Zenon DEF plc_tag_generic_tickler

LEMMA FinishedIsSound ==
  ASSUME NEW s, TagRecord(s), Sound(s.ev), NEW op \in Operations
  PROVE  TagRecord(Finished(s, op)) /\ Sound(Finished(s, op).ev)
<1>1. CASE op \in s.complete
  <2> DEFINE over == [s EXCEPT !.complete = @ \ {op}, !.flight = @ \ {op}]
  <2>1. TagRecord(over) /\ over.ev = s.ev BY Zenon DEF TagRecord
  <2>2. Finished(s, op) = [over EXCEPT !.ev = tag_raise_event(@, "COMPLETED", op, over.flight)]
    BY <1>1 DEF Finished
  <2> HIDE DEF over
  <2>3. Sound(tag_raise_event(over.ev, "COMPLETED", op, over.flight))
    BY <2>1, RaiseIsSound, Zenon
  <2> QED BY <2>1, <2>2, <2>3, Zenon DEF TagRecord
<1>2. CASE op \notin s.complete BY <1>2 DEF Finished
<1> QED BY <1>1, <1>2

LEMMA EventsStep ==
  ASSUME Sound(ev), [EventsNext]_evVars
  PROVE  Sound(ev')
<1>0. "read" \in Operations /\ "write" \in Operations BY DEF Operations
<1>1. ASSUME NEW a \in Apps, CreateEnds(a) PROVE Sound(ev')
  BY <1>0, <1>1, RaiseIsSound, Zenon DEF CreateEnds
<1>2. ASSUME NEW a \in Apps, ReadCalled(a) PROVE Sound(ev')
  <2>1. PICK e : e = Delivered(tag_raise_event(ev, "STARTED", "read", flight)) BY Zenon
  <2>2. Sound(e) BY <1>0, <2>1, RaiseIsSound, DeliveredIsSound, Zenon
  <2>3. PICK d : d = tag_raise_event(e, "COMPLETED", "read", {}) BY Zenon
  <2>4. Sound(d) BY <1>0, <2>2, <2>3, RaiseIsSound, Zenon
  <2>5. Sound(Delivered(tag_raise_event(d, "ABORTED", "none", {})))
    BY <1>0, <2>4, RaiseIsSound, DeliveredIsSound, Zenon
  <2> QED BY <1>2, <2>1, <2>2, <2>3, <2>5, Zenon DEF ReadCalled
<1>3. ASSUME NEW a \in Apps, WriteCalled(a) PROVE Sound(ev')
  BY <1>0, <1>3, RaiseIsSound, DeliveredIsSound, Zenon DEF WriteCalled
<1>4. ASSUME NEW a \in Apps, Cleared(a) PROVE Sound(ev')
  <2>1. PICK f : f = flight' BY Zenon
  <2>2. Sound(tag_raise_event(ev, "COMPLETED", "read", f)) BY <1>0, RaiseIsSound, Zenon
  <2> QED BY <1>4, <2>1, <2>2, Zenon DEF Cleared
<1>5. ASSUME NEW a \in Apps, WriteEnds(a) PROVE Sound(ev')
  BY <1>0, <1>5, RaiseIsSound, Zenon DEF WriteEnds
<1>6. ASSUME NEW a \in Apps, AbortHandled(a) PROVE Sound(ev')
  <2>1. PICK r : r = IF "read" \in flight THEN tag_raise_event(ev, "COMPLETED", "read", {}) ELSE ev
    BY Zenon
  <2>2. Sound(r) BY <1>0, <2>1, RaiseIsSound, Zenon
  <2>3. PICK w : w = IF "write" \in flight THEN tag_raise_event(r, "COMPLETED", "write", {}) ELSE r
    BY Zenon
  <2>4. Sound(w) BY <1>0, <2>2, <2>3, RaiseIsSound, Zenon
  <2>5. AbortedBlock(ev) = tag_raise_event(w, "ABORTED", "none", {})
    BY <2>1, <2>3, Zenon DEF AbortedBlock
  <2> QED BY <1>0, <1>6, <2>4, <2>5, RaiseIsSound, Zenon DEF AbortHandled
<1>7. ASSUME NEW a \in Apps, DestroyRaised(a) PROVE Sound(ev')
  BY <1>0, <1>7, RaiseIsSound, Zenon DEF DestroyRaised
<1>8. ASSUME NEW a \in Apps, AbortTold(a) \/ CallEnds(a) PROVE Sound(ev')
  BY <1>8, DeliveredIsSound, Zenon DEF AbortTold, CallEnds
<1>9. ASSUME NEW a \in Apps, \/ WaitOver(a) \/ AbortCalled(a)
                            \/ plc_tag_register_callback_ex(a) \/ plc_tag_unregister_callback(a)
      PROVE  Sound(ev')
  BY <1>9 DEF WaitOver, AbortCalled, plc_tag_register_callback_ex, plc_tag_unregister_callback
<1>10. CASE TicklerRuns
  <2>1. CASE ev' = ev BY <2>1
  <2>2. ASSUME NEW s \in plc_tag_generic_tickler(
                           [ev |-> ev, flight |-> flight, complete |-> complete,
                            abort |-> abort_requested, calls |-> calls]),
               NEW done \in SUBSET s.flight,
               ev' = Finished(Finished([s EXCEPT !.complete = @ \cup done], "read"), "write").ev
        PROVE  Sound(ev')
    <3>1. PICK z : z = [ev |-> ev, flight |-> flight, complete |-> complete,
                        abort |-> abort_requested, calls |-> calls]
      BY Zenon
    <3>2. TagRecord(z) /\ z.ev = ev BY <3>1, Zenon DEF TagRecord
    <3>3. TagRecord(s) /\ Sound(s.ev) BY <2>2, <3>1, <3>2, TicklerIsSound, Zenon
    <3>4. PICK u : u = [s EXCEPT !.complete = @ \cup done] BY Zenon
    <3>5. TagRecord(u) /\ u.ev = s.ev BY <3>3, <3>4, Zenon DEF TagRecord
    <3>6. PICK r : r = Finished(u, "read") BY Zenon
    <3>7. TagRecord(r) /\ Sound(r.ev) BY <1>0, <3>3, <3>5, <3>6, FinishedIsSound, Zenon
    <3> QED BY <1>0, <2>2, <3>4, <3>6, <3>7, FinishedIsSound, Zenon
  <2> QED BY <1>10, <2>1, <2>2, Zenon DEF TicklerRuns
<1>11. CASE TicklerDelivers BY <1>11, DeliveredIsSound, Zenon DEF TicklerDelivers
<1>12. CASE TicklerPicks \/ UNCHANGED evVars BY <1>12 DEF TicklerPicks, evVars
<1> QED BY <1>1, <1>2, <1>3, <1>4, <1>5, <1>6, <1>7, <1>8, <1>9, <1>10, <1>11, <1>12, Zenon
        DEF EventsNext

\* Whichever threads call, complete, abort, register and deliver, and in whatever
\* order, a callback hears of the creation of its tag at most once, of an abort or
\* a completion only after it, and of a completion only after a start
\* (tag_raise_event, plc_tag_generic_handle_event_callbacks).
THEOREM CallbacksInOrder == EventsSpec => []AnnouncedInOrder
<1>1. EventsInit => Sound(ev)
  BY DEF EventsInit, NoEvents, Sound, Announced, EventRecords
<1>2. Sound(ev) /\ [EventsNext]_evVars => Sound(ev)' BY EventsStep
<1>3. Sound(ev) => AnnouncedInOrder BY DEF Sound, Announced, EventRecords, AnnouncedInOrder
<1> QED BY <1>1, <1>2, <1>3, PTL DEF EventsSpec

-----------------------------------------------------------------------------
(***************************************************************************)
(* AbSession: the handler of session.c has at most one packet on its way     *)
(* (Wire), and in most of its states none (Quiet): the answer it reads is    *)
(* the one to the packet it sent.                                            *)
(***************************************************************************)
HandlerFields == {"state", "connected", "auto", "due", "onlyOld", "fo", "ex", "retry", "guess",
                  "payload", "bundle", "answer", "lost"}
RequestFields == {"refs", "abort", "resp", "status", "got"}

Fields(r, names) == r = [f \in names |-> r[f]]

Shaped ==
  /\ Fields(h, HandlerFields) /\ {h.fo, h.ex, h.guess, h.payload} \subseteq Nat
  /\ Fields(net, {"sock", "out", "in"})
  /\ plc.size \in Nat

\* The states in which nothing is under way.
Quiet == {"START_RETRY", "WAIT_ERR_RETRY", "WAIT_IDLE_RECONNECT", "OPEN_SOCKET_START",
          "OPEN_SOCKET_WAIT", "REGISTER", "SEND_FORWARD_OPEN", "IDLE", "process", "send",
          "unpack", "idle_end"}

Clear == net.out = << >> /\ net.in = << >>

Asked(p) ==
  /\ net.out = <<p>> /\ net.in = << >> /\ Fields(p, {"kind", "size", "items"})
  /\ p.kind = "data" /\ h.connected => p.size <= plc.size
  /\ h.state = "RECEIVE_FORWARD_OPEN" => p.kind # "data" /\ p.size = h.guess
  /\ h.state = "receive" => p.kind = "data" /\ p.items = h.bundle

Answered(p) ==
  /\ net.out = << >> /\ net.in = <<p>>
  /\ h.state = "RECEIVE_FORWARD_OPEN" =>
       p.size \in Nat /\ (p.kind = "fo_ok" => h.guess <= plc.size)
  /\ h.state = "receive" /\ p.kind = "data" => p.items = h.bundle

Wire == Clear \/ (h.state \notin Quiet /\ \E p : Asked(p) \/ Answered(p))

\* What the connection allows, while there is one.
Agreed ==
  /\ h.connected /\ h.state \in Steps \cup {"IDLE"} => h.payload <= plc.size
  /\ h.state = "send" => PackedSize(h.bundle) \in 0 .. h.payload

\* The bundle and the answers to it.
Bundled ==
  /\ h.state \in {"send", "receive", "unpack"} => \E S : None \in S /\ h.bundle \in Seq(S)
  /\ h.state = "unpack" => \A i \in DOMAIN h.bundle : h.bundle[i] \in {None, h.answer[i]}

Own(f) ==
  /\ Fields(f, Reqs)
  /\ \A r \in Reqs : Fields(f[r], RequestFields) /\ f[r].got \in {None, r}

ConnInv == Shaped /\ Wire /\ Agreed /\ Bundled

SessionInv == ConnInv /\ Own(req)

-----------------------------------------------------------------------------
(* The requests: every operation on them keeps their answers their own.       *)

LEMMA DecIsOwn ==
  ASSUME NEW f, Own(f), NEW r
  PROVE  Own(rc_dec(f, r))
<1>1. Fields(Free, RequestFields) /\ Free.got = None
  BY Zenon DEF Fields, Free, RequestFields
<1>2. Own([f EXCEPT ![r] = Free]) BY <1>1, Zenon DEF Own, Fields
<1>3. Own([f EXCEPT ![r].refs = @ - 1])
  <2>1. PICK g : g = [f EXCEPT ![r].refs = @ - 1] BY Zenon
  <2>2. Fields(g, Reqs) BY <2>1, Zenon DEF Own, Fields
  <2>3. ASSUME NEW q \in Reqs
        PROVE  Fields(g[q], RequestFields) /\ g[q].got = f[q].got
    <3>1. g[q] = f[q] \/ g[q] = [f[q] EXCEPT !.refs = @ - 1] BY <2>1, Zenon DEF Own, Fields
    <3> QED BY <3>1, Zenon DEF Own, Fields, RequestFields
  <2> QED BY <2>1, <2>2, <2>3, Zenon DEF Own
<1> QED BY <1>2, <1>3, Zenon DEF rc_dec

LEMMA PurgeIsOwn ==
  ASSUME Own(req)
  PROVE  Own(purge_aborted_requests_unsafe)
<1>1. Fields(Free, RequestFields) /\ Free.got = None
  BY Zenon DEF Fields, Free, RequestFields
<1>2. PICK g : g = purge_aborted_requests_unsafe BY Zenon
<1>3. Fields(g, Reqs) BY <1>2, Zenon DEF purge_aborted_requests_unsafe, Fields
<1>4. ASSUME NEW q \in Reqs
      PROVE  Fields(g[q], RequestFields) /\ g[q].got \in {None, q}
  <2>1. \/ g[q] = req[q] \/ g[q] = Free
        \/ g[q] = [req[q] EXCEPT !.refs = @ - 1, !.status = "abort", !.resp = TRUE]
    BY <1>2, Zenon DEF purge_aborted_requests_unsafe
  <2> QED BY <1>1, <2>1, Zenon DEF Own, Fields, RequestFields
<1> QED BY <1>2, <1>3, <1>4, Zenon DEF Own

LEMMA TagIsOwn ==
  ASSUME Own(req), NEW t \in Tags,
         \/ check_request_status(t) \/ ab_tag_abort(t) \/ ab_tag_destroy(t)
         \/ \E r \in Reqs : session_add_request(t, r)
  PROVE  Own(req')
<1>1. CASE check_request_status(t) BY <1>1, DecIsOwn, Zenon DEF check_request_status
<1>2. CASE AbortOf(t)
  <2>1. PICK r : r = holds[t] BY Zenon
  <2>2. PICK g : g = [req EXCEPT ![r].abort = TRUE] BY Zenon
  <2>3. Fields(g, Reqs) BY <2>2, Zenon DEF Own, Fields
  <2>4. ASSUME NEW q \in Reqs
        PROVE  Fields(g[q], RequestFields) /\ g[q].got = req[q].got
    <3>1. g[q] = req[q] \/ g[q] = [req[q] EXCEPT !.abort = TRUE] BY <2>2, Zenon DEF Own, Fields
    <3> QED BY <3>1, Zenon DEF Own, Fields, RequestFields
  <2>5. Own(g) BY <2>3, <2>4, Zenon DEF Own
  <2> QED BY <1>2, <2>1, <2>2, <2>5, DecIsOwn, Zenon DEF AbortOf
<1>3. ASSUME NEW r \in Reqs, session_add_request(t, r) PROVE Own(req')
  <2>1. PICK new : new = [Free EXCEPT !.refs = 2] BY Zenon
  <2>2. Fields(new, RequestFields) /\ new.got = None
    BY <2>1, Zenon DEF Fields, Free, RequestFields
  <2>3. req' = [req EXCEPT ![r] = new]
    BY <1>3, <2>1, Zenon DEF session_add_request, session_create_request
  <2> QED BY <2>2, <2>3, Zenon DEF Own, Fields
<1> QED BY <1>1, <1>2, <1>3, Zenon DEF ab_tag_abort, ab_tag_destroy

LEMMA UnpackIsOwn ==
  ASSUME Own(req), Bundled, UnpackNext
  PROVE  Own(req')
<1>1. CASE req' = req BY <1>1
<1>2. ASSUME NEW i \in 1 .. (Len(h.bundle) + 1), Unanswered(i), i <= Len(h.bundle),
             req' = unpack_response(h.bundle[i], h.answer[i]), h.state = "unpack"
      PROVE  Own(req')
  <2>1. PICK S : h.bundle \in Seq(S) BY <1>2, Zenon DEF Bundled
  <2>2. i \in DOMAIN h.bundle BY <1>2, <2>1
  <2>3. h.bundle[i] # None /\ h.answer[i] = h.bundle[i]
    BY <1>2, <2>2, Zenon DEF Unanswered, Bundled
  <2>4. PICK r : r = h.bundle[i] BY Zenon
  <2>5. PICK g : g = [req EXCEPT ![r].resp = TRUE, ![r].status = "ok", ![r].got = r] BY Zenon
  <2>6. Fields(g, Reqs) BY <2>5, Zenon DEF Own, Fields
  <2>7. ASSUME NEW q \in Reqs
        PROVE  Fields(g[q], RequestFields) /\ g[q].got \in {None, q}
    <3>1. CASE q # r
      <4>1. g[q] = req[q] BY <2>5, <3>1, Zenon DEF Own, Fields
      <4> QED BY <4>1, Zenon DEF Own
    <3>2. CASE q = r
      <4>1. g[q] = [req[q] EXCEPT !.resp = TRUE, !.status = "ok", !.got = q]
        BY <2>5, <3>2, Zenon DEF Own, Fields
      <4> QED BY <4>1, Zenon DEF Own, Fields, RequestFields
    <3> QED BY <3>1, <3>2
  <2>8. Own(g) BY <2>6, <2>7, Zenon DEF Own
  <2>9. req' = rc_dec(g, r) BY <1>2, <2>3, <2>4, <2>5, Zenon DEF unpack_response
  <2> QED BY <2>8, <2>9, DecIsOwn, Zenon
<1> QED BY <1>1, <1>2, Zenon DEF UnpackNext

LEMMA ReleaseIsOwn ==
  ASSUME Own(req), DestroyReleases
  PROVE  Own(req')
<1>1. Fields(Free, RequestFields) /\ Free.got = None
  BY Zenon DEF Fields, Free, RequestFields
<1>2. PICK g : g = req' BY Zenon
<1>3. Fields(g, Reqs) BY <1>2, Zenon DEF DestroyReleases, Fields
<1>4. ASSUME NEW q \in Reqs
      PROVE  Fields(g[q], RequestFields) /\ g[q].got \in {None, q}
  <2>1. g[q] = req[q] \/ g[q] = Free \/ g[q] = [req[q] EXCEPT !.refs = @ - 1]
    BY <1>2, Zenon DEF DestroyReleases
  <2> QED BY <1>1, <2>1, Zenon DEF Own, Fields, RequestFields
<1> QED BY <1>2, <1>3, <1>4, Zenon DEF Own

-----------------------------------------------------------------------------
(* The connection.                                                            *)

\* The handler keeps its record and what the session is like.
Kept ==
  /\ Fields(h', HandlerFields) /\ {h'.guess, h'.payload} \subseteq Nat
  /\ h'.connected = h.connected /\ h'.fo = h.fo /\ h'.ex = h.ex
  /\ Fields(net', {"sock", "out", "in"}) /\ plc' = plc

LEMMA SameConn ==
  ASSUME ConnInv, UNCHANGED <<h, net, plc>>
  PROVE  ConnInv'
BY Zenon DEF ConnInv, Shaped, Wire, Clear, Asked, Answered, Agreed, Bundled

LEMMA KeptIsShaped ==
  ASSUME Shaped, Kept
  PROVE  Shaped'
BY Zenon DEF Shaped, Kept

\* Outside the steps of SESSION_IDLE the wire is all that matters.
LEMMA BetweenIsFine ==
  ASSUME Shaped, Kept, h'.state \notin Steps \cup {"IDLE"}
  PROVE  Agreed' /\ Bundled'
BY DEF Agreed, Bundled, Steps

LEMMA ClearIsFine ==
  ASSUME Shaped, Kept, Clear', h'.state \notin Steps \cup {"IDLE"}
  PROVE  ConnInv'
BY KeptIsShaped, BetweenIsFine, Zenon DEF ConnInv, Wire

\* A step from one state to another with nothing else of the handler changed.
LEMMA GoKeeps ==
  ASSUME Shaped, NEW s, h' = Go(s)
  PROVE  /\ h'.state = s /\ \A f \in HandlerFields \ {"state"} : h'[f] = h[f]
         /\ Fields(h', HandlerFields)
         /\ Fields(net', {"sock", "out", "in"}) /\ plc' = plc => Kept
<1>1. Fields(h', HandlerFields) /\ \A f \in HandlerFields \ {"state"} : h'[f] = h[f]
  BY Zenon DEF Go, Shaped, Fields
<1>2. h'.state = s BY Zenon DEF Go, Shaped, Fields, HandlerFields
<1>3. /\ h'.guess = h.guess /\ h'.payload = h.payload /\ h'.connected = h.connected
      /\ h'.fo = h.fo /\ h'.ex = h.ex
  BY <1>1 DEF HandlerFields
<1> QED BY <1>1, <1>2, <1>3, Zenon DEF Kept, Shaped

LEMMA QuietIsClear ==
  ASSUME Wire, h.state \in Quiet
  PROVE  Clear
BY Zenon DEF Wire

LEMMA SocketSteps ==
  ASSUME ConnInv, OpenSocketStart \/ OpenSocketWait \/ Register
  PROVE  ConnInv'
<1>1. Shaped /\ Wire BY DEF ConnInv
<1>2. plc' = plc BY Zenon DEF OpenSocketStart, OpenSocketWait, Register, Cycle
<1>3. Clear
  BY <1>1, QuietIsClear, Zenon DEF OpenSocketStart, OpenSocketWait, Register, Cycle, Quiet
<1>4. CASE OpenSocketStart
  <2>1. PICK res \in session_open_socket :
          /\ h' = CASE res.rc = "ok" -> [Go("REGISTER") EXCEPT !.retry = 0]
                    [] res.rc = "pending" -> Go("OPEN_SOCKET_WAIT")
                    [] res.rc = "error" -> Go("CLOSE_SOCKET")
          /\ net' = res.net
    BY <1>4, Zenon DEF OpenSocketStart, Cycle
  <2>2. Fields(net', {"sock", "out", "in"}) /\ Clear'
    <3>1. net' = net \/ net' = [NoNet EXCEPT !.sock = TRUE]
      <4>1. PICK n : n = [NoNet EXCEPT !.sock = TRUE] BY Zenon
      <4>2. res \in {[rc |-> "ok", net |-> n], [rc |-> "pending", net |-> n],
                     [rc |-> "error", net |-> net]}
        BY <2>1, <4>1, Zenon DEF session_open_socket
      <4>3. res.net = n \/ res.net = net BY <4>2
      <4> QED BY <2>1, <4>1, <4>3, Zenon
    <3>2. CASE net' = net BY <1>1, <1>3, <3>2, Zenon DEF Shaped, Clear
    <3>3. CASE net' = [NoNet EXCEPT !.sock = TRUE]
      <4>1. net' = [sock |-> TRUE, out |-> << >>, in |-> << >>] BY <3>3, Zenon DEF NoNet
      <4> QED BY <4>1, Zenon DEF Fields, Clear
    <3> QED BY <3>1, <3>2, <3>3
  <2>3. /\ res.rc \in {"ok", "pending", "error"}
    BY <2>1 DEF session_open_socket
  <2>4. CASE res.rc = "ok"
    <3>1. h' = [Go("REGISTER") EXCEPT !.retry = 0] BY <2>1, <2>4
    <3>2. /\ Fields(h', HandlerFields) /\ h'.state = "REGISTER" /\ h'.guess = h.guess
          /\ h'.payload = h.payload /\ h'.connected = h.connected /\ h'.fo = h.fo /\ h'.ex = h.ex
      BY <1>1, <3>1, Zenon DEF Go, Shaped, Fields, HandlerFields
    <3>3. Kept BY <1>1, <1>2, <2>2, <3>2, Zenon DEF Kept, Shaped
    <3>4. "REGISTER" \notin Steps \cup {"IDLE"} BY DEF Steps
    <3> QED BY <1>1, <2>2, <3>2, <3>3, <3>4, ClearIsFine
  <2>5. CASE res.rc # "ok"
    <3>1. PICK s \in {"OPEN_SOCKET_WAIT", "CLOSE_SOCKET"} : h' = Go(s)
      BY <2>1, <2>3, <2>5
    <3>2. s \notin Steps \cup {"IDLE"} BY <3>1 DEF Steps
    <3> QED BY <1>1, <1>2, <2>2, <3>1, <3>2, GoKeeps, ClearIsFine, Zenon
  <2> QED BY <2>4, <2>5
<1>5. CASE OpenSocketWait \/ Register
  <2>1. net' = net BY <1>5, Zenon DEF OpenSocketWait, Register
  <2>2. Fields(net', {"sock", "out", "in"}) /\ Clear'
    BY <1>1, <1>3, <2>1, Zenon DEF Shaped, Clear
  <2>3. PICK s \in {"REGISTER", "CLOSE_SOCKET", "SEND_FORWARD_OPEN", "IDLE"} :
          h' = Go(s) /\ (s = "IDLE" => ~ h.connected)
    BY <1>5 DEF OpenSocketWait, Register, session_register, Cycle
  <2>4. CASE s # "IDLE"
    <3>1. s \notin Steps \cup {"IDLE"} BY <2>3, <2>4 DEF Steps
    <3> QED BY <1>1, <1>2, <2>2, <2>3, <3>1, GoKeeps, ClearIsFine, Zenon
  <2>5. CASE s = "IDLE"
    <3>1. Kept /\ h'.state = "IDLE" BY <1>1, <1>2, <2>2, <2>3, <2>5, GoKeeps, Zenon
    <3>2. Agreed' /\ Bundled' BY <2>3, <2>5, <3>1 DEF Agreed, Bundled, Kept
    <3> QED BY <1>1, <2>2, <3>1, <3>2, KeptIsShaped, Zenon DEF ConnInv, Wire
  <2> QED BY <2>4, <2>5
<1> QED BY <1>4, <1>5

LEMMA RetrySteps ==
  ASSUME ConnInv, StartRetry \/ WaitErrRetry \/ WaitIdleReconnect \/ session_close_socket
  PROVE  ConnInv'
<1>1. Shaped /\ Wire BY DEF ConnInv
<1>2. plc' = plc
  BY Zenon DEF StartRetry, WaitErrRetry, WaitIdleReconnect, session_close_socket, Cycle
<1>3. Fields(net', {"sock", "out", "in"}) /\ Clear'
  <2>1. CASE session_close_socket
    <3>1. net' = [sock |-> FALSE, out |-> << >>, in |-> << >>]
      BY <2>1, Zenon DEF session_close_socket, NoNet
    <3> QED BY <3>1, Zenon DEF Fields, Clear
  <2>2. CASE ~ session_close_socket
    <3>1. net' = net /\ Clear
      BY <1>1, <2>2, QuietIsClear, Zenon
         DEF StartRetry, WaitErrRetry, WaitIdleReconnect, Cycle, Quiet
    <3> QED BY <1>1, <3>1, Zenon DEF Shaped, Clear
  <2> QED BY <2>1, <2>2
<1>4. /\ Fields(h', HandlerFields) /\ h'.guess = h.guess
      /\ h'.payload = h.payload /\ h'.connected = h.connected /\ h'.fo = h.fo /\ h'.ex = h.ex
      /\ h'.state \in {"WAIT_IDLE_RECONNECT", "START_RETRY", "WAIT_ERR_RETRY", "OPEN_SOCKET_START"}
  <2>1. CASE StartRetry
    BY <1>1, <2>1, Zenon DEF StartRetry, Cycle, Go, Shaped, Fields, HandlerFields
  <2>2. CASE WaitErrRetry
    BY <1>1, <2>2, Zenon DEF WaitErrRetry, Cycle, Go, Shaped, Fields, HandlerFields
  <2>3. CASE session_close_socket
    BY <1>1, <2>3, Zenon DEF session_close_socket, Cycle, Go, Shaped, Fields, HandlerFields
  <2>4. CASE WaitIdleReconnect
    <3>1. h.state = "WAIT_IDLE_RECONNECT" BY <2>4 DEF WaitIdleReconnect, Cycle
    <3>2. PICK s \in {"WAIT_IDLE_RECONNECT", "OPEN_SOCKET_START"} :
            h' = [h EXCEPT !.auto = FALSE, !.state = s]
      BY <2>4, <3>1, Zenon DEF WaitIdleReconnect, Cycle
    <3> QED BY <1>1, <3>2, Zenon DEF Shaped, Fields, HandlerFields
  <2> QED BY <2>1, <2>2, <2>3, <2>4
<1>5. h'.state \notin Steps \cup {"IDLE"} BY <1>4 DEF Steps
<1>6. Kept BY <1>1, <1>2, <1>3, <1>4, Zenon DEF Kept, Shaped
<1> QED BY <1>1, <1>3, <1>5, <1>6, ClearIsFine

LEMMA GuessIsNat ==
  ASSUME Shaped
  PROVE  PayloadGuess \in Nat
BY DEF Shaped, PayloadGuess

LEMMA SendForwardOpenStep ==
  ASSUME ConnInv, SendForwardOpen
  PROVE  ConnInv'
<1>1. Shaped /\ Wire BY DEF ConnInv
<1>2. plc' = plc BY Zenon DEF SendForwardOpen, Cycle
<1>3. Clear BY <1>1, QuietIsClear, Zenon DEF SendForwardOpen, Cycle, Quiet
<1>4. PICK g \in Nat : g = PayloadGuess BY <1>1, GuessIsNat
<1>5. PICK s : /\ h' = [Go(s) EXCEPT !.guess = g]
               /\ \/ s = "UNREGISTER" /\ net' = net
                  \/ s = "RECEIVE_FORWARD_OPEN" /\ Send(send_forward_open_request)
  BY <1>4, Zenon DEF SendForwardOpen, Cycle
<1>6. /\ Fields(h', HandlerFields) /\ h'.guess = g
      /\ h'.payload = h.payload /\ h'.connected = h.connected /\ h'.fo = h.fo /\ h'.ex = h.ex
      /\ h'.state = s
  BY <1>1, <1>5, Zenon DEF Go, Shaped, Fields, HandlerFields
<1>7. s \notin Steps \cup {"IDLE"} BY <1>5 DEF Steps
<1>8. CASE net' = net
  <2>1. Clear' /\ Kept BY <1>1, <1>2, <1>3, <1>6, <1>8, Zenon DEF Clear, Kept, Shaped
  <2> QED BY <1>1, <1>6, <1>7, <2>1, ClearIsFine
<1>9. CASE s = "RECEIVE_FORWARD_OPEN" /\ Send(send_forward_open_request)
  <2>1. PICK p : p = send_forward_open_request BY Zenon
  <2>2. PICK k \in {"fo", "fo_ex"} : p = [kind |-> k, size |-> g, items |-> << >>]
    BY <1>4, <2>1, Zenon DEF send_forward_open_request, send_old_forward_open_request,
       send_extended_forward_open_request
  <2>3. p.kind # "data" /\ p.size = g /\ Fields(p, {"kind", "size", "items"})
    BY <2>2 DEF Fields
  <2>4. net' = [net EXCEPT !.out = Append(net.out, p)] BY <1>9, <2>1, Zenon DEF Send
  <2>5. Append(net.out, p) = <<p>> BY <1>3 DEF Clear
  <2>6. Fields(net', {"sock", "out", "in"}) /\ net'.out = <<p>> /\ net'.in = << >>
    BY <1>1, <1>3, <2>4, <2>5, Zenon DEF Shaped, Fields, Clear
  <2>7. Kept BY <1>1, <1>2, <1>6, <2>6, Zenon DEF Kept, Shaped
  <2>8. Asked(p)' BY <1>6, <1>9, <2>3, <2>6 DEF Asked
  <2>9. h'.state \notin Quiet BY <1>6, <1>9 DEF Quiet
  <2> QED BY <1>1, <1>6, <1>7, <2>7, <2>8, <2>9, KeptIsShaped, BetweenIsFine, Zenon
          DEF ConnInv, Wire
<1> QED BY <1>5, <1>8, <1>9

\* The answer that is read is the only thing on the wire.
LEMMA ReadsAnswer ==
  ASSUME Shaped, Wire, net.in # << >>, net' = [net EXCEPT !.in = Tail(@)]
  PROVE  /\ \E p : Answered(p) /\ Head(net.in) = p
         /\ Fields(net', {"sock", "out", "in"}) /\ Clear'
<1>1. PICK p : Answered(p) BY Zenon DEF Wire, Clear, Asked
<1>2. Head(net.in) = p /\ Tail(net.in) = << >> /\ net.out = << >> BY <1>1 DEF Answered
<1>3. net' = [net EXCEPT !.in = << >>] BY <1>2, Zenon
<1>4. Fields(net', {"sock", "out", "in"}) /\ Clear'
  BY <1>2, <1>3, Zenon DEF Shaped, Fields, Clear
<1> QED BY <1>1, <1>2, <1>4

LEMMA ReceiveForwardOpenStep ==
  ASSUME ConnInv, ReceiveForwardOpen
  PROVE  ConnInv'
<1>1. Shaped /\ Wire BY DEF ConnInv
<1>2. plc' = plc /\ h.state = "RECEIVE_FORWARD_OPEN" BY Zenon DEF ReceiveForwardOpen, Cycle
<1>3. PICK p : Answered(p) /\ Head(net.in) = p
  BY <1>1, ReadsAnswer, Zenon DEF ReceiveForwardOpen
<1>4. Fields(net', {"sock", "out", "in"}) /\ Clear'
  BY <1>1, ReadsAnswer, Zenon DEF ReceiveForwardOpen
<1>5. h' = receive_forward_open_response(p) BY <1>3, Zenon DEF ReceiveForwardOpen, Cycle
<1>6. p.size \in Nat /\ (p.kind = "fo_ok" => h.guess <= plc.size) BY <1>2, <1>3 DEF Answered
<1>7. CASE p.kind = "fo_ok"
  <2>1. h' = [Go("IDLE") EXCEPT !.payload = h.guess]
    BY <1>5, <1>7 DEF receive_forward_open_response
  <2>2. /\ Fields(h', HandlerFields) /\ h'.guess = h.guess
        /\ h'.payload = h.guess /\ h'.connected = h.connected /\ h'.fo = h.fo /\ h'.ex = h.ex
        /\ h'.state = "IDLE"
    BY <1>1, <2>1, Zenon DEF Go, Shaped, Fields, HandlerFields
  <2>3. Kept BY <1>1, <1>2, <1>4, <2>2, Zenon DEF Kept, Shaped
  <2>4. Agreed' /\ Bundled' BY <1>2, <1>6, <1>7, <2>2 DEF Agreed, Bundled
  <2> QED BY <1>1, <1>4, <2>3, <2>4, KeptIsShaped, Zenon DEF ConnInv, Wire
<1>8. CASE p.kind # "fo_ok"
  <2>1. PICK s \in {"SEND_FORWARD_OPEN", "UNREGISTER"} :
          \/ h' = Go(s)
          \/ h' = [Go(s) EXCEPT !.guess = p.size]
          \/ h' = [Go(s) EXCEPT !.onlyOld = TRUE]
    BY <1>5, <1>8, Zenon DEF receive_forward_open_response
  <2>2. /\ Fields(h', HandlerFields) /\ h'.guess \in {h.guess, p.size}
        /\ h'.payload = h.payload /\ h'.connected = h.connected /\ h'.fo = h.fo /\ h'.ex = h.ex
        /\ h'.state = s
    BY <1>1, <2>1, ZenonT(40) DEF Go, Shaped, Fields, HandlerFields
  <2>3. Kept BY <1>1, <1>2, <1>4, <1>6, <2>2, Zenon DEF Kept, Shaped
  <2>4. h'.state \notin Steps \cup {"IDLE"} BY <2>1, <2>2 DEF Steps
  <2> QED BY <1>1, <1>4, <2>3, <2>4, ClearIsFine
<1> QED BY <1>7, <1>8

LEMMA IdleSteps ==
  ASSUME ConnInv, IdleBegins \/ IdleEnds
  PROVE  ConnInv'
<1>1. Shaped /\ Wire /\ Agreed BY DEF ConnInv
<1>2. plc' = plc /\ net' = net BY Zenon DEF IdleBegins, IdleEnds, Cycle, Handling
<1>3. Clear BY <1>1, QuietIsClear, Zenon DEF IdleBegins, IdleEnds, Cycle, Quiet
<1>4. /\ Fields(h', HandlerFields) /\ h'.guess = h.guess
      /\ h'.payload = h.payload /\ h'.connected = h.connected /\ h'.fo = h.fo /\ h'.ex = h.ex
      /\ h'.state \in {"process", "IDLE", "DISCONNECT", "UNREGISTER"}
  <2>1. CASE IdleBegins
    BY <1>1, <2>1, ZenonT(40) DEF IdleBegins, Cycle, Go, Shaped, Fields, HandlerFields
  <2>2. CASE IdleEnds
    <3>1. PICK s \in {"IDLE", "DISCONNECT", "UNREGISTER"} :
            h' = [h EXCEPT !.state = s, !.auto = @ \/ h.due]
      BY <2>2, Zenon DEF IdleEnds
    <3> QED BY <1>1, <3>1, Zenon DEF Shaped, Fields, HandlerFields
  <2> QED BY <2>1, <2>2
<1>5. Clear' /\ Kept BY <1>1, <1>2, <1>3, <1>4, Zenon DEF Clear, Kept, Shaped
<1>6. h.state \in Steps \cup {"IDLE"} BY DEF IdleBegins, IdleEnds, Cycle, Steps
<1>7. Agreed' /\ Bundled' BY <1>1, <1>2, <1>4, <1>6 DEF Agreed, Bundled
<1> QED BY <1>1, <1>5, <1>7, KeptIsShaped, Zenon DEF ConnInv, Wire

LEMMA ProcessStep ==
  ASSUME ConnInv, process_requests
  PROVE  ConnInv'
<1>1. Shaped /\ Wire /\ Agreed BY DEF ConnInv
<1>2. plc' = plc /\ net' = net /\ h.state = "process" BY Zenon DEF process_requests
<1>3. Clear BY <1>1, <1>2, QuietIsClear, Zenon DEF Quiet
<1>4. PICK k \in 0 .. MaxRequests, s \in {"crashed", "idle_end", "send"} :
        /\ \A j \in 1 .. k : Packs(Purged, j)
        /\ s = "send" => k # 0
        /\ h' = [h EXCEPT !.state = s, !.bundle = FirstOf(Purged, k)]
  BY Zenon DEF process_requests, Takes
<1>5. /\ Fields(h', HandlerFields) /\ h'.guess = h.guess
      /\ h'.payload = h.payload /\ h'.connected = h.connected /\ h'.fo = h.fo /\ h'.ex = h.ex
      /\ h'.state = s /\ h'.bundle = FirstOf(Purged, k)
  BY <1>1, <1>4, Zenon DEF Shaped, Fields, HandlerFields
<1>6. Clear' /\ Kept BY <1>1, <1>2, <1>3, <1>5, Zenon DEF Clear, Kept, Shaped
<1>7. h.connected => h.payload <= plc.size BY <1>1, <1>2 DEF Agreed, Steps
<1>8. k \in Nat BY <1>4, AbSessionAssumption
<1>9. ASSUME s = "send" PROVE PackedSize(h'.bundle) \in 0 .. h'.payload
  <2>1. Packs(Purged, k) BY <1>4, <1>8, <1>9
  <2> QED BY <1>5, <2>1, Zenon DEF Packs
<1>10. \E S : None \in S /\ h'.bundle \in Seq(S)
  <2>1. PICK S : S = {Purged[i] : i \in 1 .. k} \cup {None} BY Zenon
  <2>2. FirstOf(Purged, k) \in [1 .. k -> S] BY <2>1, Zenon DEF FirstOf, Restrict
  <2>3. FirstOf(Purged, k) \in Seq(S) BY <1>8, <2>2
  <2> QED BY <1>5, <2>1, <2>3, Zenon
<1>11. Agreed' /\ Bundled' BY <1>2, <1>4, <1>5, <1>7, <1>9, <1>10 DEF Agreed, Bundled
<1> QED BY <1>1, <1>6, <1>11, KeptIsShaped, Zenon DEF ConnInv, Wire

LEMMA SendStep ==
  ASSUME ConnInv, send_eip_request
  PROVE  ConnInv'
<1>1. Shaped /\ Wire /\ Agreed /\ Bundled BY DEF ConnInv
<1>2. plc' = plc /\ h.state = "send" BY Zenon DEF send_eip_request, Handling
<1>3. Clear BY <1>1, <1>2, QuietIsClear, Zenon DEF Quiet
<1>4. PICK s : /\ h' = Go(s)
               /\ \/ s = "push" /\ net' = net
                  \/ s = "receive" /\ Send(pack_requests)
  BY Zenon DEF send_eip_request
<1>5. /\ h'.state = s /\ Fields(h', HandlerFields)
      /\ Fields(net', {"sock", "out", "in"}) => Kept
      /\ h'.bundle = h.bundle /\ h'.payload = h.payload /\ h'.connected = h.connected
  BY <1>1, <1>2, <1>4, GoKeeps DEF HandlerFields
<1>6. h.connected => h.payload <= plc.size BY <1>1, <1>2 DEF Agreed, Steps
<1>7. Agreed' /\ Bundled' BY <1>1, <1>2, <1>4, <1>5, <1>6 DEF Agreed, Bundled
<1>8. CASE s = "push" /\ net' = net
  <2>1. Clear' /\ Kept BY <1>1, <1>3, <1>5, <1>8, Zenon DEF Clear, Shaped
  <2> QED BY <1>1, <1>7, <2>1, KeptIsShaped, Zenon DEF ConnInv, Wire
<1>9. CASE s = "receive" /\ Send(pack_requests)
  <2>1. PICK p : p = pack_requests BY Zenon
  <2>2. /\ p.kind = "data" /\ p.size = PackedSize(h.bundle) /\ p.items = h.bundle
        /\ Fields(p, {"kind", "size", "items"})
    BY <2>1, Zenon DEF pack_requests, Fields
  <2>3. net' = [net EXCEPT !.out = Append(net.out, p)] BY <1>9, <2>1, Zenon DEF Send
  <2>4. Append(net.out, p) = <<p>> BY <1>3 DEF Clear
  <2>5. Fields(net', {"sock", "out", "in"}) /\ net'.out = <<p>> /\ net'.in = << >>
    BY <1>1, <1>3, <2>3, <2>4, Zenon DEF Shaped, Fields, Clear
  <2>6. h.connected => p.size <= plc.size
    <3>1. p.size \in 0 .. h.payload BY <1>1, <1>2, <2>2, Zenon DEF Agreed
    <3>2. h.payload \in Nat /\ plc.size \in Nat BY <1>1 DEF Shaped
    <3> HIDE <2>2
    <3> QED BY <1>6, <3>1, <3>2
  <2>7. Asked(p)' BY <1>2, <1>5, <1>9, <2>2, <2>5, <2>6, Zenon DEF Asked
  <2>8. h'.state \notin Quiet BY <1>5, <1>9 DEF Quiet
  <2> QED BY <1>1, <1>5, <1>7, <2>5, <2>7, <2>8, KeptIsShaped, Zenon DEF ConnInv, Wire
<1> QED BY <1>4, <1>8, <1>9

LEMMA ReceiveStep ==
  ASSUME ConnInv, recv_eip_response
  PROVE  ConnInv'
<1>1. Shaped /\ Wire /\ Agreed /\ Bundled BY DEF ConnInv
<1>2. plc' = plc /\ h.state = "receive" BY Zenon DEF recv_eip_response, Handling
<1>3. h.connected => h.payload <= plc.size BY <1>1, <1>2 DEF Agreed, Steps
<1>4. CASE h' = Go("push") /\ net' = net
  <2>1. Kept /\ h'.state = "push" /\ h'.connected = h.connected
    BY <1>1, <1>2, <1>4, GoKeeps, Zenon DEF Shaped, Kept
  <2>2. h'.payload = h.payload BY <1>1, <1>4, GoKeeps DEF HandlerFields
  <2>3. Agreed' /\ Bundled' BY <1>2, <1>3, <2>1, <2>2 DEF Agreed, Bundled
  <2>4. Wire'
    <3>1. CASE Clear BY <1>4, <3>1, Zenon DEF Wire, Clear
    <3>2. ASSUME NEW p, Asked(p) PROVE Asked(p)'
      BY <1>2, <1>4, <2>1, <3>2 DEF Asked
    <3>3. ASSUME NEW p, Answered(p) PROVE Answered(p)'
      BY <1>2, <1>4, <2>1, <3>3 DEF Answered
    <3>4. h'.state \notin Quiet BY <2>1 DEF Quiet
    <3> QED BY <1>1, <3>1, <3>2, <3>3, <3>4, Zenon DEF Wire
  <2> QED BY <1>1, <2>1, <2>3, <2>4, KeptIsShaped, Zenon DEF ConnInv
<1>5. CASE /\ net.in # << >> /\ net' = [net EXCEPT !.in = Tail(@)]
           /\ h' = IF Accepts(Head(net.in))
                     THEN [Go("unpack") EXCEPT !.answer = Head(net.in).items]
                     ELSE Go("push")
  <2>1. PICK p : Answered(p) /\ Head(net.in) = p BY <1>1, <1>5, ReadsAnswer, Zenon
  <2>2. Fields(net', {"sock", "out", "in"}) /\ Clear' BY <1>1, <1>5, ReadsAnswer, Zenon
  <2>3. CASE ~ Accepts(p)
    <3>1. h' = Go("push") BY <1>5, <2>1, <2>3
    <3>2. Kept /\ h'.state = "push" BY <1>1, <1>2, <2>2, <3>1, GoKeeps, Zenon
    <3>3. h'.payload = h.payload BY <1>1, <3>1, GoKeeps DEF HandlerFields
    <3>4. Agreed' /\ Bundled' BY <1>2, <1>3, <3>2, <3>3 DEF Agreed, Bundled, Kept
    <3> QED BY <1>1, <2>2, <3>2, <3>4, KeptIsShaped, Zenon DEF ConnInv, Wire
  <2>4. CASE Accepts(p)
    <3>1. h' = [Go("unpack") EXCEPT !.answer = p.items] BY <1>5, <2>1, <2>4
    <3>2. p.items = h.bundle BY <1>2, <2>1, <2>4 DEF Accepts, Answered
    <3>3. /\ Fields(h', HandlerFields) /\ h'.guess = h.guess
          /\ h'.payload = h.payload /\ h'.connected = h.connected /\ h'.fo = h.fo /\ h'.ex = h.ex
          /\ h'.state = "unpack" /\ h'.bundle = h.bundle /\ h'.answer = h.bundle
      BY <1>1, <3>1, <3>2, Zenon DEF Go, Shaped, Fields, HandlerFields
    <3>4. Kept BY <1>1, <1>2, <2>2, <3>3, Zenon DEF Kept, Shaped
    <3>5. Agreed' BY <1>2, <1>3, <3>3 DEF Agreed
    <3>6. Bundled' BY <1>1, <1>2, <3>3, Zenon DEF Bundled
    <3> QED BY <1>1, <2>2, <3>4, <3>5, <3>6, KeptIsShaped, Zenon DEF ConnInv, Wire
  <2> QED BY <2>3, <2>4
<1> QED BY <1>4, <1>5, Zenon DEF recv_eip_response

LEMMA UnpackStep ==
  ASSUME ConnInv, UnpackNext
  PROVE  ConnInv'
<1>1. Shaped /\ Wire /\ Agreed /\ Bundled BY DEF ConnInv
<1>2. plc' = plc /\ net' = net /\ h.state = "unpack" BY Zenon DEF UnpackNext, Handling
<1>3. Clear BY <1>1, <1>2, QuietIsClear, Zenon DEF Quiet
<1>4. h.connected => h.payload <= plc.size BY <1>1, <1>2 DEF Agreed, Steps
<1>5. Clear' /\ Fields(net', {"sock", "out", "in"}) BY <1>1, <1>2, <1>3, Zenon DEF Clear, Shaped
<1>6. ASSUME NEW b, NEW a, NEW l,
             h' = [Go("idle_end") EXCEPT !.bundle = b, !.answer = a, !.lost = l]
                \/ h' = [Go("idle_end") EXCEPT !.bundle = b, !.answer = a]
      PROVE  ConnInv'
  <2>1. /\ Fields(h', HandlerFields) /\ h'.guess = h.guess
        /\ h'.payload = h.payload /\ h'.connected = h.connected /\ h'.fo = h.fo /\ h'.ex = h.ex
        /\ h'.state = "idle_end"
    BY <1>1, <1>6, ZenonT(40) DEF Go, Shaped, Fields, HandlerFields
  <2>2. Kept BY <1>1, <1>2, <1>5, <2>1, Zenon DEF Kept, Shaped
  <2>3. Agreed' /\ Bundled' BY <1>2, <1>4, <2>1 DEF Agreed, Bundled
  <2> QED BY <1>1, <1>5, <2>2, <2>3, KeptIsShaped, Zenon DEF ConnInv, Wire
<1>7. ASSUME NEW i \in 1 .. (Len(h.bundle) + 1), i <= Len(h.bundle), h' = [h EXCEPT !.bundle[i] = None]
      PROVE  ConnInv'
  <2>1. PICK S : None \in S /\ h.bundle \in Seq(S) BY <1>1, <1>2, Zenon DEF Bundled
  <2>2. PICK b : b = [h.bundle EXCEPT ![i] = None] BY Zenon
  <2>3. b \in Seq(S) BY <1>7, <2>1, <2>2
  <2>4. h' = [h EXCEPT !.bundle = b] BY <1>7, <2>2, Zenon
  <2>5. /\ Fields(h', HandlerFields) /\ h'.guess = h.guess
        /\ h'.payload = h.payload /\ h'.connected = h.connected /\ h'.fo = h.fo /\ h'.ex = h.ex
        /\ h'.state = h.state /\ h'.bundle = b /\ h'.answer = h.answer
    BY <1>1, <2>4, Zenon DEF Shaped, Fields, HandlerFields
  <2>6. Kept BY <1>1, <1>2, <1>5, <2>5, Zenon DEF Kept, Shaped
  <2>7. Agreed' BY <1>2, <1>4, <2>5 DEF Agreed
  <2>8. \A j \in DOMAIN b : b[j] \in {None, h.answer[j]}
    BY <1>1, <1>2, <2>2, Zenon DEF Bundled
  <2>9. Bundled' BY <1>2, <2>1, <2>3, <2>5, <2>8, Zenon DEF Bundled
  <2> QED BY <1>1, <1>5, <2>6, <2>7, <2>9, KeptIsShaped, Zenon DEF ConnInv, Wire
<1> QED BY <1>6, <1>7, Zenon DEF UnpackNext

\* In the other states a packet may be left over, until the socket is closed.
LEMMA LeftOver ==
  ASSUME Shaped, Wire, Kept, net' = net,
         h'.state \notin Quiet \cup {"RECEIVE_FORWARD_OPEN", "receive"}
  PROVE  Wire'
<1>1. CASE Clear BY <1>1, Zenon DEF Wire, Clear
<1>2. ASSUME NEW p, Asked(p) PROVE Asked(p)' BY <1>2, Zenon DEF Asked, Kept
<1>3. ASSUME NEW p, Answered(p) PROVE Answered(p)' BY <1>3, Zenon DEF Answered, Kept
<1> QED BY <1>1, <1>2, <1>3, Zenon DEF Wire

LEMMA PushSteps ==
  ASSUME ConnInv, PushBegins \/ PushEnds \/ PushDone
  PROVE  ConnInv'
<1>1. Shaped /\ Wire /\ Agreed BY DEF ConnInv
<1>2. plc' = plc /\ net' = net /\ h.state = "push"
  BY Zenon DEF PushBegins, PushEnds, PushDone, Handling
<1>3. /\ Fields(h', HandlerFields) /\ h'.guess = h.guess
      /\ h'.payload = h.payload /\ h'.connected = h.connected /\ h'.fo = h.fo /\ h'.ex = h.ex
      /\ h'.state \in {"push", "DISCONNECT", "UNREGISTER"}
  <2>1. CASE PushBegins
    <3>1. PICK b : h' = [h EXCEPT !.bundle = b] BY <2>1, Zenon DEF PushBegins
    <3> QED BY <1>1, <1>2, <3>1, Zenon DEF Shaped, Fields, HandlerFields
  <2>2. CASE PushEnds BY <1>1, <1>2, <2>2, Zenon DEF PushEnds, Shaped
  <2>3. CASE PushDone
    <3>1. PICK s \in {"DISCONNECT", "UNREGISTER"} :
            h' = [h EXCEPT !.state = s, !.auto = @ \/ h.due]
      BY <2>3, Zenon DEF PushDone
    <3> QED BY <1>1, <3>1, Zenon DEF Shaped, Fields, HandlerFields
  <2> QED BY <2>1, <2>2, <2>3
<1>4. Kept BY <1>1, <1>2, <1>3, Zenon DEF Kept, Shaped
<1>5. h'.state \notin Quiet \cup {"RECEIVE_FORWARD_OPEN", "receive"} BY <1>3 DEF Quiet
<1>6. Agreed' /\ Bundled'
  BY <1>1, <1>2, <1>3 DEF Agreed, Bundled, Steps
<1> QED BY <1>1, <1>2, <1>4, <1>5, <1>6, LeftOver, KeptIsShaped, Zenon DEF ConnInv

LEMMA CloseSteps ==
  ASSUME ConnInv, perform_forward_close \/ session_unregister \/ HandlerExits
  PROVE  ConnInv'
<1>1. Shaped /\ Wire BY DEF ConnInv
<1>2. PICK s \in {"UNREGISTER", "CLOSE_SOCKET", "exited"} : h' = Go(s)
  BY Zenon DEF perform_forward_close, session_unregister, HandlerExits, Cycle
<1>3. plc' = plc BY Zenon DEF perform_forward_close, session_unregister, HandlerExits, Cycle, Handling
<1>4. s \notin Steps \cup {"IDLE"} /\ s \notin Quiet \cup {"RECEIVE_FORWARD_OPEN", "receive"}
  BY <1>2 DEF Steps, Quiet
<1>5. CASE net' = net
  <2>1. Kept /\ h'.state = s BY <1>1, <1>2, <1>3, <1>5, GoKeeps, Zenon DEF Shaped
  <2> QED BY <1>1, <1>4, <1>5, <2>1, LeftOver, KeptIsShaped, BetweenIsFine, Zenon DEF ConnInv
<1>6. CASE net.in # << >> /\ net' = [net EXCEPT !.in = Tail(@)]
  <2>1. Fields(net', {"sock", "out", "in"}) /\ Clear' BY <1>1, <1>6, ReadsAnswer, Zenon
  <2>2. Kept /\ h'.state = s BY <1>1, <1>2, <1>3, <2>1, GoKeeps, Zenon
  <2> QED BY <1>1, <1>4, <2>1, <2>2, ClearIsFine, Zenon
<1>7. net' = net \/ (net.in # << >> /\ net' = [net EXCEPT !.in = Tail(@)])
  <2>1. CASE perform_forward_close
    <3>1. CASE net.in = << >>
      <4>1. net' = [net EXCEPT !.in = net.in] BY <2>1, <3>1, Zenon DEF perform_forward_close
      <4> QED BY <1>1, <4>1, Zenon DEF Shaped, Fields
    <3>2. CASE net.in # << >> BY <2>1, <3>2, Zenon DEF perform_forward_close
    <3> QED BY <3>1, <3>2
  <2>2. CASE session_unregister \/ HandlerExits BY <2>2, Zenon DEF session_unregister, HandlerExits
  <2> QED BY <2>1, <2>2
<1> QED BY <1>5, <1>6, <1>7

LEMMA PlcStep ==
  ASSUME ConnInv, PlcAnswers
  PROVE  ConnInv'
<1>1. Shaped /\ Wire /\ Agreed /\ Bundled BY DEF ConnInv
<1>2. plc' = plc /\ h' = h BY Zenon DEF PlcAnswers
<1>3. PICK p : Asked(p) /\ h.state \notin Quiet BY <1>1, Zenon DEF PlcAnswers, Wire, Clear, Answered
<1>4. Head(net.out) = p /\ Tail(net.out) = << >> /\ net.in = << >> BY <1>3 DEF Asked
<1>5. PICK a : /\ net' = [net EXCEPT !.out = << >>, !.in = Append(@, a)]
               /\ \/ a = AnswerTo(p)
                  \/ \E k \in IF p.kind = "data" THEN {"bad"} ELSE {"fo_duplicate", "fo_error"} :
                       a = [kind |-> k, size |-> 0, items |-> << >>]
  BY <1>4, Zenon DEF PlcAnswers
<1>6. Append(net.in, a) = <<a>> BY <1>4
<1>7. Fields(net', {"sock", "out", "in"}) /\ net'.out = << >> /\ net'.in = <<a>>
  BY <1>1, <1>5, <1>6, Zenon DEF Shaped, Fields
<1>8. /\ h.state = "RECEIVE_FORWARD_OPEN" =>
           a.size \in Nat /\ (a.kind = "fo_ok" => h.guess <= plc.size)
      /\ h.state = "receive" /\ a.kind = "data" => a.items = h.bundle
  <2>1. CASE p.kind = "data"
    <3>1. h.state # "RECEIVE_FORWARD_OPEN" /\ (h.state = "receive" => p.items = h.bundle)
      BY <1>3, <2>1 DEF Asked
    <3>2. CASE a = AnswerTo(p)
      <4>1. a = [p EXCEPT !.size = 0] BY <2>1, <3>2, Zenon DEF AnswerTo
      <4>2. a.items = p.items BY <1>3, <4>1, Zenon DEF Asked, Fields
      <4> QED BY <3>1, <4>2
    <3>3. CASE a # AnswerTo(p)
      <4>1. a = [kind |-> "bad", size |-> 0, items |-> << >>] BY <1>5, <2>1, <3>3
      <4>2. a.kind # "data" BY <4>1
      <4> QED BY <3>1, <4>2
    <3> QED BY <3>2, <3>3
  <2>2. CASE p.kind # "data"
    <3>1. h.state # "receive" /\ (h.state = "RECEIVE_FORWARD_OPEN" => p.size = h.guess)
      BY <1>3, <2>2 DEF Asked
    <3>2. plc.size \in Nat /\ h.guess \in Nat BY <1>1 DEF Shaped
    <3>3. CASE a = AnswerTo(p)
      <4>0. PICK k : k = IF p.kind = "fo_ex" /\ ~ plc.ex THEN "fo_unsupported"
                         ELSE IF p.size > plc.size THEN "fo_large" ELSE "fo_ok"
        BY Zenon
      <4>1. /\ a = [kind |-> k, size |-> plc.size, items |-> << >>]
            /\ k = "fo_ok" => ~ (p.size > plc.size)
        <5>1. a = [kind |-> k, size |-> plc.size, items |-> << >>]
          BY <2>2, <3>3, <4>0, Zenon DEF AnswerTo
        <5>2. k = "fo_ok" => ~ (p.size > plc.size) BY <4>0
        <5> QED BY <5>1, <5>2, Zenon
      <4>2. a.size = plc.size /\ a.kind = k BY <4>1
      <4>3. h.state = "RECEIVE_FORWARD_OPEN" /\ k = "fo_ok" => h.guess <= plc.size
        BY <3>1, <3>2, <4>1
      <4> QED BY <3>1, <3>2, <4>2, <4>3, Zenon
    <3>4. CASE a # AnswerTo(p)
      <4>1. PICK k \in {"fo_duplicate", "fo_error"} : a = [kind |-> k, size |-> 0, items |-> << >>]
        BY <1>5, <2>2, <3>4
      <4>2. a.size \in Nat /\ a.kind # "fo_ok" BY <4>1
      <4> QED BY <3>1, <4>2, Zenon
    <3> QED BY <3>3, <3>4
  <2> QED BY <2>1, <2>2
<1>9. Answered(a)' BY <1>2, <1>7, <1>8, Zenon DEF Answered
<1>10. Kept BY <1>1, <1>2, <1>7, Zenon DEF Kept, Shaped
<1>11. Agreed' /\ Bundled' BY <1>1, <1>2, Zenon DEF Agreed, Bundled
<1> QED BY <1>1, <1>2, <1>3, <1>9, <1>10, <1>11, KeptIsShaped, Zenon DEF ConnInv, Wire

LEMMA ReleaseStep ==
  ASSUME ConnInv, DestroyReleases
  PROVE  ConnInv'
<1>1. Shaped /\ Wire /\ Agreed /\ Bundled BY DEF ConnInv
<1>2. plc' = plc /\ h' = h /\ net' = [sock |-> FALSE, out |-> << >>, in |-> << >>]
  BY Zenon DEF DestroyReleases, NoNet
<1>3. Clear' /\ Fields(net', {"sock", "out", "in"}) BY <1>2, Zenon DEF Clear, Fields
<1>4. Kept BY <1>1, <1>2, <1>3, Zenon DEF Kept, Shaped
<1>5. Agreed' /\ Bundled' BY <1>1, <1>2, Zenon DEF Agreed, Bundled
<1> QED BY <1>1, <1>3, <1>4, <1>5, KeptIsShaped, Zenon DEF ConnInv, Wire

-----------------------------------------------------------------------------
LEMMA SessionStarts == Init => SessionInv
<1> SUFFICES ASSUME Init PROVE SessionInv
  OBVIOUS
<1>1. PICK c \in BOOLEAN, k \in Types, forced \in BOOLEAN : h = session_create_unsafe(k, c, forced)
  BY AbSessionAssumption, Zenon DEF Init
<1>2. k.fo \in Nat /\ k.ex \in Nat
  BY AbSessionAssumption DEF Types, create_plc5_session_unsafe, create_slc_session_unsafe,
     create_mlgx_session_unsafe, create_lgx_pccc_session_unsafe, create_lgx_session_unsafe,
     create_micro800_session_unsafe
<1>3. /\ h.state = "OPEN_SOCKET_START" /\ Fields(h, HandlerFields)
      /\ h.fo = k.fo /\ h.ex = k.ex /\ h.guess = 0 /\ h.payload = k.fo
  BY <1>1, Zenon DEF session_create_unsafe, Fields, HandlerFields
<1>4. Fields(net, {"sock", "out", "in"}) /\ Clear BY Zenon DEF Init, Fields, Clear
<1>5. plc.size \in Nat BY AbSessionAssumption, Zenon DEF Init
<1>6. Shaped BY <1>2, <1>3, <1>4, <1>5 DEF Shaped
<1>7. Agreed /\ Bundled BY <1>3 DEF Agreed, Bundled, Steps
<1>8. Own(req)
  <2>1. Fields(Free, RequestFields) /\ Free.got = None BY Zenon DEF Fields, Free, RequestFields
  <2> QED BY <2>1, Zenon DEF Init, Own, Fields
<1> QED BY <1>4, <1>6, <1>7, <1>8, Zenon DEF SessionInv, ConnInv, Wire

LEMMA SessionStep ==
  ASSUME SessionInv, [Next]_vars
  PROVE  SessionInv'
<1>1. ConnInv /\ Own(req) /\ Bundled BY DEF SessionInv, ConnInv
<1>2. ASSUME Own(req'), ConnInv' PROVE SessionInv' BY <1>2, Zenon DEF SessionInv, Own
<1>3. CASE OpenSocketStart \/ OpenSocketWait \/ Register
  BY <1>1, <1>2, <1>3, SocketSteps, PurgeIsOwn, Zenon DEF OpenSocketStart, OpenSocketWait, Register, Cycle
<1>4. CASE SendForwardOpen
  BY <1>1, <1>2, <1>4, SendForwardOpenStep, PurgeIsOwn, Zenon DEF SendForwardOpen, Cycle
<1>5. CASE ReceiveForwardOpen
  BY <1>1, <1>2, <1>5, ReceiveForwardOpenStep, PurgeIsOwn, Zenon DEF ReceiveForwardOpen, Cycle
<1>6. CASE IdleBegins \/ IdleEnds
  BY <1>1, <1>2, <1>6, IdleSteps, PurgeIsOwn, Zenon DEF IdleBegins, IdleEnds, Cycle
<1>7. CASE process_requests
  BY <1>1, <1>2, <1>7, ProcessStep, PurgeIsOwn, Zenon DEF process_requests
<1>8. CASE send_eip_request
  BY <1>1, <1>2, <1>8, SendStep, Zenon DEF send_eip_request
<1>9. CASE recv_eip_response
  BY <1>1, <1>2, <1>9, ReceiveStep, Zenon DEF recv_eip_response
<1>10. CASE UnpackNext
  BY <1>1, <1>2, <1>10, UnpackStep, UnpackIsOwn, Zenon
<1>11. CASE PushBegins \/ PushEnds \/ PushDone
  BY <1>1, <1>2, <1>11, PushSteps, Zenon DEF PushBegins, PushEnds, PushDone
<1>12. CASE perform_forward_close \/ session_unregister \/ HandlerExits
  BY <1>1, <1>2, <1>12, CloseSteps, PurgeIsOwn, Zenon
     DEF perform_forward_close, session_unregister, HandlerExits, Cycle
<1>13. CASE StartRetry \/ WaitErrRetry \/ WaitIdleReconnect \/ session_close_socket
  BY <1>1, <1>2, <1>13, RetrySteps, PurgeIsOwn, Zenon
     DEF StartRetry, WaitErrRetry, WaitIdleReconnect, session_close_socket, Cycle
<1>14. CASE DestroyReleases BY <1>1, <1>2, <1>14, ReleaseStep, ReleaseIsOwn, Zenon
<1>15. CASE PlcAnswers BY <1>1, <1>2, <1>15, PlcStep, Zenon DEF PlcAnswers
<1>16. CASE session_destroy \/ DestroyJoins \/ Shutdown \/ UNCHANGED vars
  BY <1>1, <1>2, <1>16, SameConn, Zenon DEF session_destroy, DestroyJoins, Shutdown, vars
<1>17. ASSUME NEW t \in Tags,
              \/ check_request_status(t) \/ ab_tag_abort(t) \/ ab_tag_destroy(t)
              \/ \E r \in Reqs : session_add_request(t, r)
       PROVE  SessionInv'
  <2>1. UNCHANGED <<h, net, plc>>
    BY <1>17, Zenon DEF check_request_status, ab_tag_abort, ab_tag_destroy, session_add_request
  <2> QED BY <1>1, <1>2, <1>17, <2>1, SameConn, TagIsOwn, Zenon
<1> QED BY <1>3, <1>4, <1>5, <1>6, <1>7, <1>8, <1>9, <1>10, <1>11, <1>12, <1>13, <1>14, <1>15,
           <1>16, <1>17, Zenon
        DEF Next, Handler, Destroy

\* The answer that a request gets is the one to this request, and never one to a
\* request of an earlier packet or to its neighbour in the packet, whatever is
\* lost, refused, timed out or aborted: nothing in a packet says what it answers,
\* so this rests on the order in which the handler sends, reads and closes
\* (recv_eip_response, unpack_response, session_close_socket).
THEOREM AnswersAreOwn == Spec => []AnswerIsOwn
<1>1. Init => SessionInv BY SessionStarts
<1>2. SessionInv /\ [Next]_vars => SessionInv' BY SessionStep
<1>3. SessionInv => AnswerIsOwn BY Zenon DEF SessionInv, Own, AnswerIsOwn
<1> QED BY <1>1, <1>2, <1>3, PTL DEF Spec

\* On a connection no packet is larger than what the PLC agreed to in the Forward
\* Open of this connection, whatever sizes were negotiated, refused and tried
\* again before (process_requests, receive_forward_open_response).
THEOREM PacketsFit == Spec => []PacketFits
<1>1. Init => SessionInv BY SessionStarts
<1>2. SessionInv /\ [Next]_vars => SessionInv' BY SessionStep
<1>3. SessionInv => PacketFits
  <2> SUFFICES ASSUME SessionInv, h.connected, NEW i \in DOMAIN net.out, net.out[i].kind = "data"
               PROVE  net.out[i].size <= plc.size
    BY DEF PacketFits
  <2>1. PICK p : Asked(p) BY DEF SessionInv, ConnInv, Wire, Clear, Answered
  <2>2. net.out[i] = p BY <2>1 DEF Asked
  <2> QED BY <2>1, <2>2, Zenon DEF Asked
<1> QED BY <1>1, <1>2, <1>3, PTL DEF Spec
=============================================================================
