------------------------------- MODULE TagOps -------------------------------
(***************************************************************************)
(* One tag between the application and the PLC: the blocking and the       *)
(* asynchronous API of lib/lib.c (plc_tag_read, plc_tag_write,             *)
(* plc_tag_status, plc_tag_abort), the tag tickler thread with automatic   *)
(* reads and writes, and the state of a Logix tag (protocols/ab/eip_cip.c, *)
(* ab_common.c) whose requests a session answers.                          *)
(*                                                                         *)
(* Every critical block on the tag's API mutex is one step.  Callbacks and *)
(* the read cache are left out (no callback, read_cache_ms = 0).           *)
(***************************************************************************)
EXTENDS Naturals, TagState

CONSTANTS
  Ops,           \* Ops[a]: what thread a calls, see Calls
  Waits,         \* whether reads and writes have a timeout: a set of BOOLEANs
  Answers,       \* how the session may answer: "ok", "more", "cip_error", "eip_error"
  AutoRead,      \* auto_sync_read_ms > 0
  AutoWrite,     \* auto_sync_write_ms > 0
  MayTimeOut,    \* whether the caller's timeout may run out
  StartMayFail   \* whether building or queueing a request may fail

Calls == {"read", "write", "status", "abort", "set"}

ASSUME TagOpsAssumption ==
  /\ Ops \in [App -> SUBSET Calls] /\ Waits \subseteq BOOLEAN
  /\ Answers \subseteq {"ok", "more", "cip_error", "eip_error"}
  /\ {AutoRead, AutoWrite, MayTimeOut, StartMayFail} \subseteq BOOLEAN

VARIABLES
  cond,      \* the flag of tag->tag_cond_wait
  caller     \* caller[a]: where thread a is in a call, and the call's status

opsVars == <<tag, cond, caller>>

CallerRecord ==
  [pc: {"idle", "wait", "woken", "flagged", "finish"},
   op: {"none", "read", "write", "abort"}, rc: Status]

OpsTypeOK ==
  /\ tag \in TagRecord
  /\ cond \in BOOLEAN
  /\ caller \in [App -> CallerRecord]
  /\ \A a \in App :
       /\ caller[a].pc = "wait" => caller[a].rc = "pending"
       /\ caller[a].pc = "finish" => caller[a].rc # "pending"

\* plc_tag_create_ex with a zero timeout has just returned: ab_tag_create has
\* started the first read, which finds out the type and the size of the data.
OpsInit ==
  /\ tag = [rif |-> TRUE, wif |-> FALSE, rcomp |-> FALSE, wcomp |-> FALSE,
            dirty |-> FALSE, nextWrite |-> FALSE, abortReq |-> FALSE,
            status |-> "ok", rip |-> TRUE, wip |-> FALSE, first |-> TRUE,
            pre |-> FALSE, data |-> FALSE, req |-> "sent", want |-> FALSE, got |-> {}]
  /\ cond = FALSE
  /\ caller = [a \in App |-> [pc |-> "idle", op |-> "none", rc |-> "ok"]]

-----------------------------------------------------------------------------
\* The tag's protocol functions.  t is the tag before; the results are records
\* of the tag after and the return code.

Result(t, rc) == [tag |-> t, rc |-> rc]

\* The ghost of the write that was asked for ends with the operation.
Settled(t) == IF t.rip \/ t.wip THEN t ELSE [t EXCEPT !.want = FALSE]

\* Fault: the request goes but the flags stay.
ab_tag_abort_request_half(t) == [t EXCEPT !.req = "none"]

ab_tag_abort_request_only(t) ==
  [t EXCEPT !.req = "none", !.rip = FALSE, !.wip = FALSE]

\* The abort of the vtable, which leaves tag->status alone.
ab_tag_abort_request(t) == Result(Settled(ab_tag_abort_request_only(t)), "ok")

\* What a bad answer does to the tag.
ab_tag_abort(t) ==
  IF t.req = "none"
    THEN Result(t, "ok")
    ELSE Result(Settled([ab_tag_abort_request_only(t) EXCEPT !.status = "abort"]),
                "abort")

\* Building the request or adding it to the session's list failed.
Unstarted(t) == IF StartMayFail THEN {Result(t, "error")} ELSE {}

tag_read_start(t) ==
  IF t.rip \/ t.wip
    THEN {Result(t, "busy")}
    ELSE {Result([t EXCEPT !.rip = TRUE, !.req = "sent"], "pending")} \cup Unstarted(t)

\* A tag that was never read is read before it is written.
tag_write_start(t) ==
  IF t.rip \/ t.wip
    THEN {Result(t, "busy")}
    ELSE IF t.first
      THEN tag_read_start([t EXCEPT !.pre = TRUE])
      ELSE {Result([t EXCEPT !.wip = TRUE, !.req = "sent"], "pending")} \cup Unstarted(t)

\* Fault: the CIP status of the response is not looked at.
check_read_statusOk(t) ==
  LET u == ab_tag_abort_request_only(t) IN
    IF t.req = "cip_error" THEN {Result(u, "ok")}
    ELSE IF t.req = "more" THEN tag_read_start(u)
    ELSE {Result([u EXCEPT !.got = App], "ok")}

\* Fault: a complete answer is taken for a partial one.
check_read_statusAgain(t) ==
  LET u == [ab_tag_abort_request_only(t) EXCEPT !.data = @ \/ t.req # "cip_error"] IN
    IF t.req = "cip_error" THEN {Result(u, "error")}
    ELSE IF t.pre THEN tag_write_start([u EXCEPT !.pre = FALSE])
    ELSE tag_read_start(u)

check_read_status(t) ==
  LET u == [ab_tag_abort_request_only(t) EXCEPT !.data = @ \/ t.req # "cip_error"] IN
    IF t.req = "cip_error" THEN {Result(u, "error")}
    ELSE IF t.pre THEN tag_write_start([u EXCEPT !.pre = FALSE])
    ELSE IF t.req = "more" THEN tag_read_start(u)
    ELSE {Result([u EXCEPT !.got = App], "ok")}

check_write_status(t) ==
  LET u == ab_tag_abort_request_only(t) IN
    IF t.req = "cip_error" THEN {Result(u, "error")}
    ELSE IF t.req = "more" THEN tag_write_start(u)
    ELSE {Result(u, "ok")}

\* check_request_status: an abort, no request, no answer yet, or an answer that
\* is no good at the encapsulation level.
RequestNotReady(t) ==
  t.abortReq \/ t.req \in {"none", "sent", "eip_error"}

check_request_status(t) ==
  CASE t.abortReq -> Settled([ab_tag_abort_request_only(t) EXCEPT !.abortReq = FALSE])
    [] ~ t.abortReq /\ t.req = "none" -> Settled(ab_tag_abort_request_only(t))
    [] ~ t.abortReq /\ t.req = "eip_error" -> ab_tag_abort(t).tag
    [] OTHER -> t

\* Fault: a partial read is reported as complete.
tag_ticklerEarly(t) ==
  IF RequestNotReady(t) THEN {check_request_status(t)}
  ELSE IF t.rip
    THEN {Settled([r.tag EXCEPT !.status = r.rc, !.first = FALSE, !.rcomp = TRUE])
            : r \in check_read_status(t)}
    ELSE {Settled([r.tag EXCEPT !.status = r.rc, !.wcomp = ~ r.tag.wip])
            : r \in check_write_status(t)}

\* The tags that tag_tickler may leave behind.
tag_tickler(t) ==
  IF RequestNotReady(t) THEN {check_request_status(t)}
  ELSE IF t.rip
    THEN {Settled(IF r.tag.rip
                    THEN [r.tag EXCEPT !.status = r.rc]
                    ELSE [r.tag EXCEPT !.status = r.rc, !.first = FALSE,
                                       !.rcomp = TRUE])
            : r \in check_read_status(t)}
    ELSE {Settled(IF r.tag.wip
                    THEN [r.tag EXCEPT !.status = r.rc]
                    ELSE [r.tag EXCEPT !.status = r.rc, !.wcomp = TRUE])
            : r \in check_write_status(t)}

\* ab_tag_status, and what plc_tag_status_impl makes of it.
StatusOf(t) ==
  IF t.rip \/ t.wip THEN "pending"
  ELSE IF t.status = "ok" /\ (t.rif \/ t.wif) THEN "pending"
  ELSE t.status

-----------------------------------------------------------------------------
\* The application's calls.

Return(a, o, rc) == caller' = [caller EXCEPT ![a] = [pc |-> "idle", op |-> o, rc |-> rc]]
Goto(a, pc, o, rc) == caller' = [caller EXCEPT ![a] = [pc |-> pc, op |-> o, rc |-> rc]]

\* The critical block of plc_tag_abort_impl; by then the tickler may have dealt
\* with the request to abort.
AbortBlock(t) ==
  IF t.abortReq
    THEN ab_tag_abort_request([t EXCEPT !.abortReq = FALSE,
                                        !.rcomp = t.rif, !.rif = FALSE,
                                        !.wcomp = t.wif, !.wif = FALSE])
    ELSE Result(t, "ok")

Idle(a, op) == op \in Ops[a] /\ caller[a].pc = "idle"

\* plc_tag_read or plc_tag_write while something is under way.
Refused(a) ==
  /\ \/ /\ Idle(a, "read") /\ (tag.rif \/ tag.wif \/ tag.dirty)
        /\ Return(a, "read", "busy")
     \/ /\ Idle(a, "write") /\ (tag.rif \/ tag.wif)
        /\ Return(a, "write", "busy")
  /\ UNCHANGED <<tag, cond>>

\* plc_tag_read up to its wait; w: the timeout is not zero.
plc_tag_read(a, w) ==
  /\ Idle(a, "read")
  /\ ~ (tag.rif \/ tag.wif \/ tag.dirty)
  /\ \E r \in tag_read_start([tag EXCEPT !.rif = TRUE, !.status = "pending",
                                         !.got = @ \ {a}]) :
       IF r.rc = "pending"
         THEN /\ tag' = r.tag /\ cond' = FALSE
              /\ Goto(a, IF w THEN "wait" ELSE "idle", "read", "pending")
         ELSE LET x == AbortBlock([r.tag EXCEPT !.abortReq = TRUE]) IN
              /\ tag' = [x.tag EXCEPT !.rif = FALSE] /\ cond' = TRUE
              /\ Return(a, "read", x.rc)

\* plc_tag_write up to its wait.
plc_tag_write(a, w) ==
  /\ Idle(a, "write")
  /\ ~ (tag.rif \/ tag.wif)
  /\ cond' = FALSE
  /\ \E r \in tag_write_start([tag EXCEPT !.wif = TRUE, !.status = "ok",
                                          !.want = TRUE]) :
       IF r.rc = "pending"
         THEN /\ tag' = r.tag
              /\ Goto(a, IF w THEN "wait" ELSE "idle", "write", "pending")
         ELSE /\ tag' = [ab_tag_abort_request(r.tag).tag EXCEPT !.wif = FALSE]
              /\ Return(a, "write", r.rc)

\* cond_wait returns: the condition was signalled ...
Woken(a) ==
  /\ caller[a].pc = "wait" /\ cond
  /\ cond' = FALSE
  /\ caller' = [caller EXCEPT ![a].pc = "woken"]
  /\ UNCHANGED tag

\* plc_tag_abort_impl flags the abort before it waits for the mutex.
Flag(a, op, rc) ==
  /\ tag' = [tag EXCEPT !.abortReq = TRUE]
  /\ Goto(a, "flagged", op, rc)

\* ... or the time is over, and the operation is aborted.
TimedOut(a) ==
  /\ MayTimeOut /\ caller[a].pc = "wait"
  /\ Flag(a, caller[a].op, "timeout")
  /\ cond' = FALSE

\* plc_tag_status_impl in the loop of plc_tag_read and plc_tag_write.
CheckStatus(a) ==
  /\ caller[a].pc = "woken"
  /\ \E t \in tag_tickler(tag) :
       LET rc == StatusOf(t) IN
         \/ /\ rc = "pending"
            /\ tag' = t
            /\ Goto(a, "wait", caller[a].op, rc)
         \/ /\ rc = "pending" /\ MayTimeOut
            /\ tag' = t
            /\ Goto(a, "finish", caller[a].op, "timeout")
         \/ /\ rc = "ok"
            /\ tag' = t
            /\ Goto(a, "finish", caller[a].op, rc)
         \/ /\ rc \notin {"ok", "pending"}
            /\ tag' = [t EXCEPT !.abortReq = TRUE]
            /\ Goto(a, "flagged", caller[a].op, rc)
  /\ UNCHANGED cond

\* The block of plc_tag_abort_impl.
Abort(a) ==
  /\ caller[a].pc = "flagged"
  /\ LET x == AbortBlock(tag) IN
       /\ tag' = x.tag
       /\ cond' = (cond \/ tag.abortReq)
       /\ IF caller[a].op = "abort"
            THEN Return(a, "abort", x.rc)
            ELSE Goto(a, "finish", caller[a].op, caller[a].rc)

\* The last block of plc_tag_read and plc_tag_write.
Finish(a) ==
  /\ caller[a].pc = "finish"
  /\ tag' = IF caller[a].op = "read"
              THEN [tag EXCEPT !.rif = FALSE, !.rcomp = FALSE]
              ELSE [tag EXCEPT !.wif = FALSE, !.wcomp = FALSE]
  /\ \E rc \in {caller[a].rc} \cup {r \in {"timeout"} : MayTimeOut /\ caller[a].rc # "ok"} :
       Return(a, caller[a].op, rc)
  /\ UNCHANGED cond

plc_tag_abort(a) ==
  /\ Idle(a, "abort")
  /\ Flag(a, "abort", "ok")
  /\ UNCHANGED cond

plc_tag_status(a) ==
  /\ Idle(a, "status")
  /\ tag' \in tag_tickler(tag)
  /\ UNCHANGED <<cond, caller>>

\* A plc_tag_set function: there is no buffer before a read succeeded.
SetData(a) ==
  /\ Idle(a, "set")
  /\ tag' = IF tag.data
              THEN [tag EXCEPT !.dirty = @ \/ AutoWrite, !.status = "ok"]
              ELSE [tag EXCEPT !.status = "error"]
  /\ UNCHANGED <<cond, caller>>

-----------------------------------------------------------------------------
\* The tag tickler thread: plc_tag_generic_tickler, the protocol's tickler and
\* the completion flags, while it holds the API mutex.

Started(r) == Settled([r.tag EXCEPT !.status = r.rc])

AutoWriteOf(t, due) ==
  LET u == IF t.rif
             THEN [ab_tag_abort_request(t).tag EXCEPT !.rcomp = FALSE, !.rif = FALSE]
             ELSE t
  IN IF ~ (AutoWrite /\ t.dirty) THEN {t}
     ELSE IF ~ u.nextWrite THEN {[u EXCEPT !.nextWrite = TRUE]}
     ELSE IF u.wif \/ ~ due THEN {u}
     ELSE {Started(r) : r \in tag_write_start([u EXCEPT !.dirty = FALSE,
             !.wif = TRUE, !.nextWrite = FALSE, !.want = TRUE])}

\* Fault: automatic reads stop after an error.
AutoReadOfOk(t, due) ==
  IF AutoRead /\ due /\ t.status = "ok" /\ ~ (t.rif \/ t.dirty \/ t.wif)
    THEN {Started(r) : r \in tag_read_start([t EXCEPT !.rif = TRUE])}
    ELSE {t}

AutoReadOf(t, due) ==
  IF AutoRead /\ due /\ ~ (t.rif \/ t.dirty \/ t.wif)
    THEN {Started(r) : r \in tag_read_start([t EXCEPT !.rif = TRUE])}
    ELSE {t}

plc_tag_generic_tickler(t, due) ==
  IF t.abortReq
    THEN {[ab_tag_abort_request(t).tag EXCEPT !.rcomp = FALSE, !.rif = FALSE,
             !.wcomp = FALSE, !.wif = FALSE, !.abortReq = FALSE]}
    ELSE UNION {AutoReadOf(u, due) : u \in AutoWriteOf(t, due)}

Completed(t) ==
  [t EXCEPT !.rcomp = FALSE, !.rif = @ /\ ~ t.rcomp,
            !.wcomp = FALSE, !.wif = @ /\ ~ t.wcomp,
            !.nextWrite = @ /\ ~ t.wcomp]

Tickler(due) ==
  /\ \E u \in plc_tag_generic_tickler(tag, due) : \E v \in tag_tickler(u) :
       /\ tag' = Completed(v)
       /\ cond' = (cond \/ v.rcomp \/ v.wcomp)
  /\ UNCHANGED caller

\* The session has an answer from the PLC for the tag's request.
Answer(r) ==
  /\ tag.req = "sent"
  /\ tag' = [tag EXCEPT !.req = r]
  /\ UNCHANGED <<cond, caller>>

SessionAnswers == \E r \in Answers : Answer(r)

\* The data of a tag is finite: some answer is the last one.
LastAnswer == \E r \in Answers \ {"more"} : Answer(r)

-----------------------------------------------------------------------------
Call(a) ==
  \/ Refused(a) \/ plc_tag_abort(a) \/ plc_tag_status(a) \/ SetData(a)
  \/ \E w \in Waits : plc_tag_read(a, w) \/ plc_tag_write(a, w)

Proceed(a) == Woken(a) \/ CheckStatus(a) \/ Abort(a) \/ Finish(a)

OpsNext ==
  \/ \E a \in App : Call(a) \/ Proceed(a) \/ TimedOut(a)
  \/ \E due \in BOOLEAN : Tickler(due)
  \/ SessionAnswers

\* Threads run; a timer of an automatic operation is due again and again; the
\* session answers every request, and not for ever in part only.
OpsFairness ==
  /\ \A a \in App : WF_opsVars(Proceed(a))
  /\ WF_opsVars(Tickler(TRUE))
  /\ WF_opsVars(SessionAnswers) /\ SF_opsVars(LastAnswer)

OpsSpec == OpsInit /\ [][OpsNext]_opsVars
FairOpsSpec == OpsSpec /\ OpsFairness

-----------------------------------------------------------------------------
\* plc_tag_read returns PLCTAG_STATUS_OK only if a read was completed since it
\* was called.
ReadOkIsFresh ==
  \A a \in App :
    caller[a].pc = "idle" /\ caller[a].op = "read" /\ caller[a].rc = "ok"
      => a \in tag.got

\* A write goes to the PLC only if the application or auto_sync_write asked.
NoUnaskedWrite == tag.wip => tag.want

\* While a request of the tag is under way the tag is flagged as in flight, so
\* that another read or write is refused and does not disturb it.
InFlightIsFlagged == tag.rip \/ tag.wip => tag.rif \/ tag.wif

\* plc_tag_status reports PLCTAG_STATUS_PENDING only while there is something
\* left to do for the tag.
PendingIsReal ==
  StatusOf(tag) = "pending" =>
    \/ tag.rip \/ tag.wip \/ tag.rcomp \/ tag.wcomp \/ tag.abortReq
    \/ \E a \in App : caller[a].pc # "idle"

\* A thread waits in plc_tag_read or plc_tag_write only while there is something
\* that will wake it up: a signal, an operation to complete or an abort.
WaiterIsWoken ==
  (\E a \in App : caller[a].pc = "wait") =>
    \/ cond \/ tag.rip \/ tag.wip \/ tag.rcomp \/ tag.wcomp \/ tag.abortReq
    \/ \E a \in App : caller[a].pc \in {"woken", "flagged"}

\* A thread that waits in plc_tag_read or plc_tag_write returns, however long
\* its timeout is.
WaitEnds == \A a \in App : caller[a].pc = "wait" ~> caller[a].pc = "idle"

\* Data set on a tag with automatic writes is sent to the PLC.
DirtyIsWritten == tag.dirty ~> tag.wip

=============================================================================
