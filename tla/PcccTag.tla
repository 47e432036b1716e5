------------------------------- MODULE PcccTag -------------------------------
(* Tags of PLC/5, SLC and MicroLogix PLCs, directly or over a DH+ bridge      *)
(* (protocols/ab/pccc.c), and of Logix PLCs with mapped files                 *)
(* (protocols/ab/eip_lgx_pccc.c).  The tag knows its size from the start, and *)
(* a read or a write is one request or none.                                  *)
EXTENDS AbTag

CONSTANTS
  NameSize, TypeSize, Elems, Memory, TagBits, Bits,   \* as in EipCip
  PcccAvails      \* what these sessions may have room for

C == INSTANCE EipCip WITH Avails <- PcccAvails, ElemSizes <- {0}, PadTo <- 1

Request(svc, data, mask, bytes) == C!Request(svc, 0, data, mask, bytes)

IsPlc5(t) == t.kind \in {"plc5", "plc5_dhp"}

\* How every start ends: a request that could not be made, for whatever reason,
\* takes down the one in flight.
ReadTried(t, rc, r) ==
  IF rc # "OK" THEN Ret(ab_tag_abort_request(t), rc)
  ELSE IF t.req # None THEN Ret([t EXCEPT !.rip = TRUE], "BAD_DATA")
  ELSE Ret(session_add_request([t EXCEPT !.rip = TRUE], r), "PENDING")

WriteTried(t, rc, r) ==
  IF rc # "OK" THEN Ret(ab_tag_abort_request([t EXCEPT !.wdone = TRUE]), rc)
  ELSE IF t.req # None THEN Ret([t EXCEPT !.wip = TRUE], "BAD_DATA")
  ELSE Ret(session_add_request([t EXCEPT !.wip = TRUE], r), "PENDING")

\* What an answer with the data of a read does: the size must be the tag's.
Sized(t, r) ==
  IF r.status # "OK" THEN Ret(t, "REMOTE_ERR")
  ELSE IF Len(r.data) > t.size THEN Ret(t, "TOO_LARGE")
  ELSE IF Len(r.data) < t.size THEN Ret(t, "TOO_SMALL")
  ELSE Ret([t EXCEPT !.data = r.data], "OK")

(***************************************************************************)
(* Directly connected PLCs.                                                 *)
(***************************************************************************)
\* Sizes: 13 bytes of cip_pccc_req, 11 and 4 of the reply, 9 or 6 of the command.
pccc_tag_read_start(t) ==
  LET overhead == 13 + (IF IsPlc5(t) THEN 9 ELSE 6) + NameSize + 1
  IN  ReadTried(t, IF InProgress(t) THEN "BUSY"
                   ELSE IF avail - (11 + 4) < t.size \/ avail < overhead THEN "TOO_LARGE"
                   ELSE "OK",
                Request("READ", <<>>, <<>>, overhead))

pccc_check_read_status(t) ==
  LET a == Sized(t, t.req.resp)
  IN  Ret([ab_tag_abort_request(a) EXCEPT !.rdone = TRUE], a.rc)

plc5_tag_write_bit_start(t) ==
  WriteTried(t, IF InProgress(t) THEN "BUSY"
                ELSE IF avail - (13 + 9 + NameSize + 1) < t.size THEN "TOO_LARGE" ELSE "OK",
             Request("RMW", C!OrMask(t), C!AndMask(t),
                     13 + 5 + NameSize + 2 * t.elem_size))

\* The bits that the data will change.
ChangeMask(t) == [i \in 1..t.elem_size |-> IF i = t.bit.byte THEN {t.bit.nth} ELSE {}]

slc_tag_write_bit_start(t) ==
  WriteTried(t, IF InProgress(t) THEN "BUSY"
                ELSE IF t.size # 2 \/ t.elem_size # 2 THEN "UNSUPPORTED"
                ELSE IF avail - (13 + 6 + NameSize + 1) < t.size THEN "TOO_LARGE" ELSE "OK",
             Request("WRITE_MASK", t.data, ChangeMask(t),
                     13 + 6 + NameSize + 2 * t.elem_size))

pccc_tag_write_start(t) ==
  IF t.bit # None
  THEN IF IsPlc5(t) THEN plc5_tag_write_bit_start(t) ELSE slc_tag_write_bit_start(t)
  ELSE LET overhead == 13 + (IF IsPlc5(t) THEN 9 ELSE 6) + NameSize + 1
       IN  WriteTried(t, IF InProgress(t) THEN "BUSY"
                         ELSE IF avail - overhead < t.size \/ avail = overhead THEN "TOO_LARGE"
                         ELSE "OK",
                      Request("WRITE", t.data, <<>>, overhead - 1 + t.size))

pccc_check_write_status(t) ==
  Ret([ab_tag_abort_request(t) EXCEPT !.wdone = TRUE],
      IF t.req.resp.status = "OK" THEN "OK" ELSE "REMOTE_ERR")

\* The tickler of all these tags after check_request_status left c; r and w are
\* what taking the answer to a read or a write makes of it.
Tickled(c, r, w) ==
  IF c.rc # "OK" THEN c
  ELSE IF c.rip THEN [r EXCEPT !.status = r.rc, !.rdone = @ \/ ~r.rip,
                               !.first = @ /\ r.rip]
  ELSE IF c.wip THEN [w EXCEPT !.status = w.rc, !.wdone = @ \/ ~w.wip]
  ELSE Ret(c, c.status)

pccc_tag_tickler(t) ==
  LET c == check_request_status(t)
  IN  Tickled(c, pccc_check_read_status(c), pccc_check_write_status(c))

(***************************************************************************)
(* PLCs behind a DH+ bridge: 8 bytes of routing instead of the PCCC object. *)
(***************************************************************************)
pccc_dhp_tag_read_start(t) ==
  LET overhead == 8 + (IF IsPlc5(t) THEN 9 ELSE 6) + NameSize + 1
  IN  ReadTried(t, IF InProgress(t) THEN "BUSY"
                   ELSE IF avail - (8 + 4) < t.size \/ avail < overhead THEN "TOO_LARGE"
                   ELSE "OK",
                Request("READ", <<>>, <<>>, overhead))

\* Only a good answer is noted here, a bad one by the tickler.
pccc_dhp_check_read_status(t) ==
  LET a == Sized(t, t.req.resp)
  IN  Ret([ab_tag_abort_request(a) EXCEPT !.rdone = @ \/ a.rc = "OK"], a.rc)

plc5_dhp_tag_write_bit_start(t) ==
  WriteTried(t, IF InProgress(t) THEN "BUSY"
                ELSE IF avail - (46 + 13 + NameSize + 2 * t.elem_size) < 2 * t.elem_size
                THEN "TOO_LARGE" ELSE "OK",
             Request("RMW", C!OrMask(t), C!AndMask(t), 13 + NameSize + 2 * t.elem_size))

slc_dhp_tag_write_bit_start(t) ==
  WriteTried(t, IF InProgress(t) THEN "BUSY"
                ELSE IF t.size # 2 \/ t.elem_size # 2 THEN "UNSUPPORTED"
                ELSE IF avail - (46 + 8 + 6 + NameSize + t.elem_size + 2) < t.size
                THEN "TOO_LARGE" ELSE "OK",
             Request("WRITE_MASK", t.data, ChangeMask(t), 14 + NameSize + 2 * t.elem_size))

pccc_dhp_tag_write_start(t) ==
  IF t.bit # None
  THEN IF IsPlc5(t) THEN plc5_dhp_tag_write_bit_start(t) ELSE slc_dhp_tag_write_bit_start(t)
  ELSE LET overhead == 8 + (IF IsPlc5(t) THEN 9 ELSE 6) + NameSize
       IN  WriteTried(t, IF InProgress(t) THEN "BUSY"
                         ELSE IF avail - overhead < t.size \/ avail = overhead THEN "TOO_LARGE"
                         ELSE "OK",
                      Request("WRITE", t.data, <<>>, overhead + t.size))

pccc_dhp_check_write_status(t) ==
  LET ok == t.req.resp.status = "OK"
  IN  Ret([ab_tag_abort_request(t) EXCEPT !.wdone = @ \/ ok],
          IF ok THEN "OK" ELSE "REMOTE_ERR")

pccc_dhp_tag_tickler(t) ==
  LET c == check_request_status(t)
  IN  Tickled(c, pccc_dhp_check_read_status(c), pccc_dhp_check_write_status(c))

(***************************************************************************)
(* PCCC-mapped Logix PLCs.  A start that is refused leaves what is in flight *)
(* without its flag.                                                        *)
(***************************************************************************)
tag_read_start(t) ==
  LET overhead == 50 + 22 + NameSize + 2
  IN  IF InProgress(t) THEN Ret([t EXCEPT !.rip = FALSE], "BUSY")
      ELSE IF avail - overhead < t.size THEN Ret(t, "TOO_LARGE")
      ELSE Ret(session_add_request([t EXCEPT !.rip = TRUE],
                 Request("READ", <<>>, <<>>, C!Even(22 + NameSize + 2))), "PENDING")

\* A tag that was never read sends no type with its data.
tag_write_start(t) ==
  LET overhead == 50 + 22 + NameSize + t.typed
  IN  IF InProgress(t) THEN Ret([t EXCEPT !.wip = FALSE], "BUSY")
      ELSE IF t.first THEN LET r == tag_read_start([t EXCEPT !.pre = TRUE])
                           IN  IF r.rc = "PENDING" THEN r ELSE [r EXCEPT !.wip = FALSE]
      ELSE IF avail - overhead < t.size THEN Ret(t, "TOO_LARGE")
      ELSE Ret(session_add_request([t EXCEPT !.wip = TRUE],
                 Request(IF t.typed = 0 THEN "WRITE_UNTYPED" ELSE "WRITE", t.data, <<>>,
                         C!Even(22 + NameSize + t.typed + t.size))), "PENDING")

\* A shorter answer is taken for all of it.
check_read_status(t) ==
  LET r == t.req.resp
      a == IF r.status # "OK" THEN Ret(t, "REMOTE_ERR")
           ELSE IF ~r.known THEN Ret(t, "BAD_DATA")
           ELSE IF Len(r.data) > t.size THEN Ret(t, "TOO_LARGE")
           ELSE [t EXCEPT !.typed = TypeSize, !.rc = "OK",
                          !.data = [i \in DOMAIN @ |->
                            IF ~t.pre /\ i <= Len(r.data) THEN r.data[i] ELSE @[i]]]
      c == Ret(ab_tag_abort_request(a), a.rc)
  IN  IF c.rc = "OK" /\ c.pre THEN tag_write_start([c EXCEPT !.pre = FALSE]) ELSE c

check_write_status(t) ==
  Ret(ab_tag_abort_request(t), IF t.req.resp.status = "OK" THEN "OK" ELSE "REMOTE_ERR")

tag_tickler(t) ==
  LET c == check_request_status(t)
  IN  Tickled(c, check_read_status(c), check_write_status(c))

(***************************************************************************)
(* The PLC.                                                                 *)
(***************************************************************************)
\* A reply to PCCC has no service of its own that the code would look at.
Troubles(svc) == {a \in C!Troubles(svc) : a.svc = svc}

\* Answers to a read: all of it, too little or too much; a Logix PLC sends no
\* less than it was asked for.
ReadAnswers(p) ==
  Troubles("READ")
    \cup {C!Answer("OK", "READ", "OK", d, k) :
            d \in {p, Append(p, {})}
                  \cup (IF tag.kind = "lgx_pccc" THEN {} ELSE {SubSeq(p, 1, Len(p) - 1)}),
            k \in BOOLEAN}

Stored(r, p) ==
  CASE r.svc = "WRITE" -> r.data
    [] r.svc = "RMW" -> [i \in DOMAIN p |-> (p[i] \cap r.mask[i]) \cup r.data[i]]
    [] r.svc = "WRITE_MASK" -> [i \in DOMAIN p |->
                                  (p[i] \ r.mask[i]) \cup (r.data[i] \cap r.mask[i])]

Serve(r, p) ==
  IF r.svc = "READ" THEN {[plc |-> p, resp |-> a] : a \in ReadAnswers(p)}
  ELSE {[plc |-> p, resp |-> a] : a \in Troubles(r.svc)}
       \cup (IF r.svc = "WRITE_UNTYPED" THEN {}
             ELSE {[plc |-> Stored(r, p), resp |-> C!Answer("OK", r.svc, "OK", <<>>, TRUE)]})

(***************************************************************************)
(* The steps.                                                               *)
(***************************************************************************)
\* ab_tag_create for these types: no first read, the size from the attributes.
Blank(kind, bit) ==
  LET n == IF bit = None THEN Len(Memory) ELSE Len(Memory) \div Elems
  IN  [C!Blank(kind, kind \in {"plc5_dhp", "slc_dhp"}, bit, Len(Memory) \div Elems)
         EXCEPT !.size = n, !.data = [i \in 1..n |-> {}], !.first = FALSE, !.rif = FALSE]

Init ==
  /\ avail \in PcccAvails
  /\ \E k \in {"plc5", "slc", "plc5_dhp", "slc_dhp", "lgx_pccc"},
        bit \in {None} \cup TagBits :
       /\ k = "lgx_pccc" => bit = None
       /\ tag = Blank(k, bit)
       /\ plc = IF bit = None THEN Memory ELSE SubSeq(Memory, 1, Len(Memory) \div Elems)
  /\ op = NoOp /\ touched = {}

\* The vtables of the kinds.
vtable_read(t) ==
  CASE t.kind \in {"plc5", "slc"} -> pccc_tag_read_start(t)
    [] t.kind \in {"plc5_dhp", "slc_dhp"} -> pccc_dhp_tag_read_start(t)
    [] t.kind = "lgx_pccc" -> tag_read_start(t)
vtable_write(t) ==
  CASE t.kind \in {"plc5", "slc"} -> pccc_tag_write_start(t)
    [] t.kind \in {"plc5_dhp", "slc_dhp"} -> pccc_dhp_tag_write_start(t)
    [] t.kind = "lgx_pccc" -> tag_write_start(t)
vtable_tickler(t) ==
  CASE t.kind \in {"plc5", "slc"} -> pccc_tag_tickler(t)
    [] t.kind \in {"plc5_dhp", "slc_dhp"} -> pccc_dhp_tag_tickler(t)
    [] t.kind = "lgx_pccc" -> tag_tickler(t)

Next ==
  \/ LET t == vtable_read(ReadCalled)
     IN  plc_tag_read(t, ab_tag_abort_request(plc_tag_abort_impl(t)))
  \/ \E d \in NewData : LET t == vtable_write(WriteCalled(d))
                        IN  plc_tag_write(t, ab_tag_abort_request(t))
  \/ AbortRequested
  \/ AbortHandled(ab_tag_abort_request(plc_tag_abort_impl(tag)))
  \/ plc_tag_status(vtable_tickler(tag))
  \/ tag_tickler_func(vtable_tickler(plc_tag_generic_tickler(ab_tag_abort_request(tag))))
  \/ PlcServes(Serve(Head(Waiting), plc))
  \/ AnswerLost(Serve(Head(Waiting), plc), PcccAvails)
  \/ Purged
  \/ PlcChanges
=============================================================================
