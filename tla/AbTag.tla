-------------------------------- MODULE AbTag --------------------------------
(* One Allen-Bradley tag between the library and its session: the calls of   *)
(* lib/lib.c that start, poll and abort an operation, and what the tag kinds *)
(* share (protocols/ab/ab_common.c).  A kind adds how an operation starts,   *)
(* how its answers are taken and what the PLC does with its requests.        *)
(*                                                                           *)
(* The functions of the C code that work on a tag are operators from a tag   *)
(* to the tag they leave; the value they return is its field rc.  All of     *)
(* them run with the tag's api_mutex held, so a call is one step.            *)
EXTENDS Integers, Sequences, SequencesExt

CONSTANTS
  NewData,        \* what the application may put into the tag before a write
  Other,          \* what another client of the PLC may put at some place
  Places,         \* the places others change
  MaxLate,        \* bound: requests given up while the session holds them
  None

VARIABLES
  tag,            \* the tag
  plc,            \* what the PLC holds for it, a sequence
  avail,          \* the room for a request the session negotiated last
  op,             \* the operation called last: what, how it began and ended
  touched         \* places others changed in the PLC since op was called

tagVars == <<tag, plc, avail, op, touched>>

Ret(t, rc) == [t EXCEPT !.rc = rc]

\* The tag between calls: the returned value is gone, and so is
\* write_data_per_packet, which is computed anew before each use.
Settled(t) == [t EXCEPT !.rc = "OK", !.per = 0]

Errors == {"ABORT", "BAD_DATA", "BUSY", "NO_MEM", "REMOTE_ERR", "TOO_LARGE",
           "TOO_SMALL", "UNSUPPORTED", "BAD_STATUS", "NOT_IMPLEMENTED", "CRASH"}

\* A vtable without the function.
NotImplemented(t) == Ret(t, "NOT_IMPLEMENTED")

InProgress(t) == t.rip \/ t.wip
InFlight(t)   == t.rif \/ t.wif

Answered(t) == t.req # None /\ t.req.resp # None

\* The session holds requests in the order they were made; those before the
\* tag's own were given up by the tag and are purged or sent all the same.
session_add_request(t, r) == [t EXCEPT !.req = [r EXCEPT !.resp = None], !.rc = "OK"]

ab_tag_abort_request_only(t) ==
  [t EXCEPT !.late = IF t.req = None \/ Answered(t) THEN @ ELSE Append(@, t.req),
            !.req = None, !.rip = FALSE, !.wip = FALSE, !.rc = "OK"]

ab_tag_abort_request(t) == [ab_tag_abort_request_only(t) EXCEPT !.offset = 0]

ab_tag_abort(t) ==
  IF t.req # None
  THEN [ab_tag_abort_request(t) EXCEPT !.status = "ABORT", !.rc = "ABORT"]
  ELSE Ret(t, "OK")

\* What every tickler does first.  An answer whose EtherNet/IP header reports
\* an error ends the request but not the operation.
check_request_status(t) ==
  IF t.abort
  THEN Ret(ab_tag_abort_request([t EXCEPT !.abort = FALSE]), "ABORT")
  ELSE IF t.req = None
  THEN Ret(IF InProgress(t) THEN [t EXCEPT !.rip = FALSE, !.wip = FALSE, !.offset = 0]
                            ELSE t, "OK")
  ELSE IF ~Answered(t) THEN Ret(t, "PENDING")
  ELSE IF t.req.resp.encap # "OK" THEN Ret(ab_tag_abort(t), "REMOTE_ERR")
  ELSE Ret(t, "OK")

\* ab_tag_status and plc_tag_status_impl after it.
ab_tag_status(t) == IF InProgress(t) THEN "PENDING" ELSE t.status

plc_tag_status_impl(t) ==
  IF ab_tag_status(t) = "OK" /\ InFlight(t) THEN "PENDING" ELSE ab_tag_status(t)

(***************************************************************************)
(* The calls.  What a call hands to a function of the tag's vtable is an    *)
(* operator here, and what the function left is a parameter of the action.  *)
(***************************************************************************)
NoOp == [what |-> "none", from |-> 0, pre |-> FALSE, rc |-> None]

Called(what, t) ==
  [what |-> what, from |-> t.offset + t.next_id, pre |-> t.pre, rc |-> None]

Alive == tag.status # "CRASH"

\* The block of plc_tag_abort_impl: what the vtable's abort gets.
plc_tag_abort_impl(t) ==
  [t EXCEPT !.abort = FALSE, !.rif = FALSE, !.wif = FALSE,
            !.rdone = t.rif, !.wdone = t.wif]

\* What the application does before a write: it stores d, and gives a raw tag
\* the size of d.
Filled(t, d) ==
  IF t.kind \in {"raw", "omron_raw"} THEN [t EXCEPT !.size = Len(d), !.data = d]
  ELSE [t EXCEPT !.data = [i \in 1..t.size |-> IF i \in DOMAIN d THEN d[i] ELSE @[i]]]

\* What the vtable's read and write get.
ReadCalled == [tag EXCEPT !.rif = TRUE, !.status = "PENDING"]
WriteCalled(d) == [Filled(tag, d) EXCEPT !.wif = TRUE, !.status = "OK"]

\* plc_tag_read and plc_tag_write up to the wait, which a timeout of zero skips.
\* t is the tag that was started, and aborted what an abort makes of it.
plc_tag_read(t, aborted) ==
  /\ Alive /\ ~InFlight(tag) /\ Len(tag.late) < MaxLate
  /\ tag' = Settled(IF t.rc = "PENDING" THEN t
                    ELSE [IF t.rc = "OK" THEN t ELSE aborted EXCEPT !.rif = FALSE])
  /\ op' = Called("read", tag) /\ touched' = {}
  /\ UNCHANGED <<plc, avail>>

plc_tag_write(t, aborted) ==
  /\ Alive /\ ~InFlight(tag) /\ Len(tag.late) < MaxLate
  /\ tag' = Settled(IF t.rc = "PENDING" THEN t
                    ELSE [IF t.rc = "OK" THEN t
                          ELSE IF t.rc = "CRASH" THEN [t EXCEPT !.status = "CRASH"]
                          ELSE aborted EXCEPT !.wif = FALSE])
  /\ op' = Called("write", tag) /\ touched' = {}
  /\ UNCHANGED <<plc, avail>>

\* plc_tag_abort raises the flag without the mutex; whoever has the mutex next
\* finds it.
AbortRequested ==
  /\ Alive /\ InFlight(tag) /\ ~tag.abort /\ Len(tag.late) < MaxLate
  /\ tag' = [tag EXCEPT !.abort = TRUE]
  /\ UNCHANGED <<plc, avail, op, touched>>

AbortHandled(aborted) ==
  /\ Alive /\ tag.abort
  /\ tag' = Settled(aborted)
  /\ op' = NoOp
  /\ UNCHANGED <<plc, avail, touched>>

\* The operation ended in t, the tag that the kind's tickler left.
Ended(t) ==
  IF InProgress(tag) /\ ~InProgress(t) /\ op.rc = None /\ (t.rdone \/ t.wdone)
  THEN [op EXCEPT !.rc = IF (op.what = "read" /\ tag.rip) \/ (op.what = "write" /\ tag.wip)
                         THEN t.status ELSE "FAILED"]
  ELSE op

Polled(t) == tag' = Settled(t) /\ op' = IF tag.abort THEN NoOp ELSE Ended(t)

\* Another thread polls the tag with plc_tag_status.
plc_tag_status(tickled) ==
  /\ Alive
  /\ Polled(tickled)
  /\ UNCHANGED <<plc, avail, touched>>

\* The done flags that the tickler left in t are turned into events.
Announced(t) ==
  /\ tag' = [Settled(t) EXCEPT !.rdone = FALSE, !.rif = @ /\ ~t.rdone,
                               !.wdone = FALSE, !.wif = @ /\ ~t.wdone]
  /\ op' = IF tag.abort THEN NoOp ELSE Ended(t)

\* The tag as plc_tag_generic_tickler leaves it; aborted is the tag after the
\* vtable's abort.
plc_tag_generic_tickler(aborted) ==
  IF tag.abort THEN [aborted EXCEPT !.rdone = FALSE, !.rif = FALSE, !.wdone = FALSE,
                                    !.wif = FALSE, !.abort = FALSE]
  ELSE tag

\* One pass of tag_tickler_func over the tag; tickled is what the vtable's tickler
\* made of what plc_tag_generic_tickler left.
tag_tickler_func(tickled) ==
  /\ Alive
  /\ Announced(tickled)
  /\ UNCHANGED <<plc, avail, touched>>

(***************************************************************************)
(* The session and the PLC.  served is the set of things the PLC may do     *)
(* with the first request: what it then holds and its answer.               *)
(***************************************************************************)
Waiting == IF tag.req = None \/ Answered(tag) THEN tag.late ELSE Append(tag.late, tag.req)

\* The first request reaches the PLC and the answer comes back.
PlcServes(served) ==
  /\ Alive /\ Waiting # <<>>
  /\ \E s \in served :
       /\ plc' = s.plc
       /\ tag' = IF tag.late # <<>> THEN [tag EXCEPT !.late = Tail(@)]
                 ELSE [tag EXCEPT !.req = [resp |-> s.resp]]
  /\ UNCHANGED <<avail, op, touched>>

\* The connection is lost before the answer: the session sends the request
\* again, to a PLC that may offer it more or less room.
AnswerLost(served, rooms) ==
  /\ Alive /\ Waiting # <<>>
  /\ \E s \in served : plc' = s.plc
  /\ avail' \in rooms
  /\ UNCHANGED <<tag, op, touched>>

\* purge_aborted_requests_unsafe drops what the tag gave up.
Purged ==
  /\ Alive /\ tag.late # <<>>
  /\ tag' = [tag EXCEPT !.late = <<>>]
  /\ UNCHANGED <<plc, avail, op, touched>>

\* Another client changes the PLC.
PlcChanges ==
  /\ Alive
  /\ \E i \in Places : plc' = [plc EXCEPT ![i] = Other] /\ touched' = touched \cup {i}
  /\ UNCHANGED <<tag, avail, op>>

\* The process has died.
Dead == ~Alive /\ UNCHANGED tagVars

(***************************************************************************)
(* Properties.                                                              *)
(***************************************************************************)

\* Places of the tag's data before those of the PLC: a connected identity tag
\* keeps the header of the reply.
Lead(t) == IF t.kind = "identity" /\ t.co THEN 1 ELSE 0

\* When a read ends well, the tag holds what the PLC holds, except where
\* others changed the PLC meanwhile: all the pieces of a fragmented answer are
\* in place (check_read_status_*, listing_tag_check_read_status_connected,
\* udt_tag_check_read_fields_status_connected).  A read that begins in the
\* middle because of an earlier operation is excepted.
ReadDelivers ==
  (op.what = "read" /\ op.rc = "OK" /\ op.from = 0 /\ ~op.pre) =>
    /\ tag.size >= Len(plc) + Lead(tag) /\ Len(tag.data) = tag.size
    /\ \A i \in DOMAIN plc \ touched : tag.data[i + Lead(tag)] = plc[i]

\* When a write ends well, the PLC holds what the application put into the
\* tag, except where others changed the PLC meanwhile (build_write_request_*,
\* check_write_status_*): every piece reached its place, although requests are
\* sent again after a lost connection and abandoned ones may arrive late.  A tag
\* whose first read broke off does not know its size and is excepted.
WriteDelivers ==
  (op.what = "write" /\ op.rc = "OK" /\ op.from = 0 /\ tag.size >= Len(plc)) =>
    \A i \in DOMAIN plc \ touched :
      IF tag.bit = None THEN tag.data[i] = plc[i]
      ELSE i = tag.bit.byte => (tag.bit.nth \in tag.data[i] <=> tag.bit.nth \in plc[i])

\* A step of the PLC for a bit tag changes no bit but the tag's own (the masks
\* of build_write_bit_request_*, plc5_tag_write_bit_start,
\* slc_tag_write_bit_start), whatever the tag believed the others to be.
OtherBitsKept ==
  [][(tag.bit # None /\ touched' = touched) =>
       \A i \in DOMAIN plc : \A b \in (plc[i] \ plc'[i]) \cup (plc'[i] \ plc[i]) :
         i = tag.bit.byte /\ b = tag.bit.nth]_tagVars

\* No request is larger than the room its session had when it was made: the
\* sizes calculate_write_data_per_packet allows for cover what the builders
\* really put in.
RequestFits ==
  (tag.req # None /\ ~Answered(tag)) => tag.req.fits

\* How far the operation has come.
Further(t, u) == t.offset > u.offset \/ t.fields # u.fields

\* An answer that does not end the operation brings it further: a tickler that
\* asks again asks for more, so a transfer in pieces cannot go round in circles
\* (tag_read_start and tag_write_start from check_read_status_* and
\* check_write_status_*, the listing and the UDT alike).  Excepted are the read
\* before a first write, and answers a kind declares it starts again from.
Advances ==
  [][(Answered(tag) /\ tag.req.resp.status # "AGAIN" /\ ~tag.pre
      /\ tag'.req # None /\ ~Answered(tag')) => Further(tag', tag)]_tagVars

\* plc_tag_status answers "pending" only while an operation is under way.
PendingIsOutstanding ==
  plc_tag_status_impl(tag) = "PENDING" => InFlight(tag) \/ InProgress(tag)
=============================================================================
