----------------------------- MODULE TagEvents -----------------------------
(***************************************************************************)
(* The events of one tag with a callback: tag_raise_event of lib/tag.h and *)
(* plc_tag_generic_handle_event_callbacks of lib/lib.c, as the API calls   *)
(* of several threads and the tickler thread use them.  Raising an event   *)
(* sets a flag; the flags are turned into callbacks later, by whichever    *)
(* thread comes first, always in the same order.                           *)
(*                                                                         *)
(* A block under tag->api_mutex is one step.  The operation itself is      *)
(* reduced to the flags of lib.c; the protocol may complete it at any time *)
(* the tickler or plc_tag_status runs.  TagOps has it in full.             *)
(***************************************************************************)
EXTENDS Integers

CONSTANTS
  Apps,          \* the application's threads
  AutoSync,      \* whether the tickler starts reads and writes by itself
  MaxCalls       \* bound: reads, writes and aborts called

VARIABLES
  ev,            \* the event flags of the tag; ev.heard is the callback's history
  callback,      \* whether a callback is registered
  flight,        \* the operations in flight, a subset of {"read", "write"}
  complete,      \* read_complete and write_complete, likewise
  abort_requested,
  present,        \* whether the tag can still be looked up
  app,           \* app[a]: where thread a is, in which call
  tickler,       \* where the tickler thread is
  calls

evVars == <<ev, callback, flight, complete, abort_requested, present, app, tickler, calls>>

Operations == {"read", "write"}

\* heard: the creations announced; the operations whose start was; early: an abort
\* or a completion came before the creation, or a completion before any start;
\* over: every completion of a write was raised when no write was in flight.
NoEvents ==
  [created |-> FALSE, had_created |-> FALSE, aborted |-> FALSE, destroyed |-> FALSE,
   started |-> {}, completed |-> {}, enabled |-> {},
   heard |-> [created |-> 0, started |-> {}, early |-> FALSE,
              over |-> TRUE]]

EventsTypeOK ==
  /\ {ev.created, ev.had_created, ev.aborted, ev.destroyed} \subseteq BOOLEAN
  /\ ev.started \cup ev.completed \cup ev.enabled \subseteq Operations
  /\ flight \subseteq Operations /\ complete \subseteq Operations
  /\ app \in [Apps -> [at : {"idle", "create", "wait", "clear", "end", "flagged", "told",
                             "doomed", "deliver", "gone"},
                       op : {"none", "create", "read", "write", "abort", "destroy"}]]
  /\ tickler \in {"idle", "held", "deliver"}

-----------------------------------------------------------------------------
Created(e) == [e EXCEPT !.created = @ \/ ~e.had_created, !.had_created = TRUE]

\* Fault: a completion is announced whether or not a start was.
RaiseUnasked(e, event, op, busy) ==
  IF ~callback THEN e ELSE
  CASE event = "ABORTED"   -> [Created(e) EXCEPT !.aborted = TRUE]
    [] event = "CREATED"   -> Created(e)
    [] event = "DESTROYED" -> [e EXCEPT !.destroyed = TRUE]
    [] event = "STARTED"   -> [e EXCEPT !.started = @ \cup {op}]
    [] event = "COMPLETED" -> [Created(e) EXCEPT !.completed = @ \cup {op}]

\* tag_raise_event: nothing without a callback; the first completion or abort
\* also announces the creation; a completion counts once per start.  busy are the
\* operations in flight.
tag_raise_event(e, event, op, busy) ==
  IF ~callback THEN e ELSE
  CASE event = "ABORTED"   -> [Created(e) EXCEPT !.aborted = TRUE]
    [] event = "CREATED"   -> Created(e)
    [] event = "DESTROYED" -> [e EXCEPT !.destroyed = TRUE]
    [] event = "STARTED"   -> [e EXCEPT !.started = @ \cup {op}, !.enabled = @ \cup {op}]
    [] event = "COMPLETED" ->
         IF op \in e.enabled
         THEN [Created(e) EXCEPT !.completed = @ \cup {op}, !.enabled = @ \ {op},
                                 !.heard.over = @ /\ ~(op = "write" /\ op \in busy)]
         ELSE Created(e)

\* The callbacks of one pass: created, starts, abort, completions, destroyed; each
\* flag is cleared when its callback returns.
plc_tag_generic_handle_event_callbacks(e) ==
  IF ~callback THEN e ELSE
  [e EXCEPT
     !.created = FALSE, !.aborted = FALSE, !.destroyed = FALSE, !.started = {}, !.completed = {},
     !.heard.created = IF e.created THEN @ + 1 ELSE @,
     !.heard.started = @ \cup e.started,
     !.heard.early = \/ @
                     \/ e.heard.created = 0 /\ ~e.created /\ (e.aborted \/ e.completed # {})
                     \/ ~(e.completed \subseteq e.heard.started \cup e.started)]

Delivered(e) == plc_tag_generic_handle_event_callbacks(e)

-----------------------------------------------------------------------------
\* plc_tag_create_ex has put the tag into the table; the constructor started the
\* first read, with no event.  The other threads learn of the tag when the
\* creation returns.
EventsInit ==
  /\ ev = NoEvents /\ callback \in BOOLEAN
  /\ flight = {"read"} /\ complete = {} /\ abort_requested = FALSE /\ present = TRUE
  /\ \E a \in Apps :
       app = [b \in Apps |-> IF a = b THEN [at |-> "create", op |-> "create"]
                                      ELSE [at |-> "idle", op |-> "none"]]
  /\ tickler = "idle" /\ calls = 0

At(a, where, op) == app' = [app EXCEPT ![a] = [at |-> where, op |-> op]]

\* With a timeout the flags are cleared and the creation is announced.
CreateEnds(a) ==
  /\ app[a].at = "create"
  /\ At(a, "deliver", "create")
  /\ \/ flight' = {} /\ ev' = tag_raise_event(ev, "CREATED", "none", {})
     \/ UNCHANGED <<flight, ev>>
  /\ UNCHANGED <<callback, complete, abort_requested, present, tickler, calls>>

MayCall(a) ==
  /\ app[a].at = "idle" /\ present /\ calls < MaxCalls
  /\ \A b \in Apps : app[b].op # "create"
  /\ calls' = calls + 1

\* The block of plc_tag_abort_impl: what was in flight is completed, then the
\* abort is announced.
AbortedBlock(e) ==
  LET read  == IF "read" \in flight THEN tag_raise_event(e, "COMPLETED", "read", {}) ELSE e
      write == IF "write" \in flight THEN tag_raise_event(read, "COMPLETED", "write", {}) ELSE read
  IN  tag_raise_event(write, "ABORTED", "none", {})

\* plc_tag_read: the start is announced before anything is checked.  A read that
\* cannot be started is aborted in the same block.
ReadCalled(a) ==
  /\ MayCall(a)
  /\ LET e == Delivered(tag_raise_event(ev, "STARTED", "read", flight))
     IN  \/ /\ ev' = e /\ At(a, "deliver", "read")
            /\ UNCHANGED <<flight, complete>>
         \/ /\ flight = {} /\ ev' = e /\ flight' = {"read"}
            /\ \E where \in {"wait", "deliver"} : At(a, where, "read")
            /\ UNCHANGED complete
         \/ /\ flight = {} /\ complete' = {"read"}
            /\ ev' = Delivered(tag_raise_event(tag_raise_event(e, "COMPLETED", "read", {}),
                                               "ABORTED", "none", {}))
            /\ At(a, "deliver", "read")
            /\ UNCHANGED flight
  /\ UNCHANGED <<callback, abort_requested, present, tickler>>

\* plc_tag_write: a refused write goes to its end, where it announces a completion.
WriteCalled(a) ==
  /\ MayCall(a)
  /\ \/ /\ flight # {} /\ At(a, "end", "write")
        /\ UNCHANGED <<ev, flight>>
     \/ /\ flight = {}
        /\ ev' = Delivered(tag_raise_event(ev, "STARTED", "write", flight))
        /\ \/ flight' = {"write"} /\ \E where \in {"wait", "deliver"} : At(a, where, "write")
           \/ At(a, "end", "write") /\ UNCHANGED flight
  /\ UNCHANGED <<callback, complete, abort_requested, present, tickler>>

\* The wait is over: with the result, or by an abort.
WaitOver(a) ==
  /\ app[a].at = "wait"
  /\ \/ At(a, "clear", app[a].op) /\ UNCHANGED abort_requested
     \/ At(a, "flagged", app[a].op) /\ abort_requested' = TRUE
  /\ UNCHANGED <<ev, callback, flight, complete, present, tickler, calls>>

\* The operation is not in flight any more.  plc_tag_read announces its completion
\* in the same block, plc_tag_write in a block of its own.
Cleared(a) ==
  /\ app[a].at = "clear"
  /\ flight' = flight \ {app[a].op} /\ complete' = complete \ {app[a].op}
  /\ IF app[a].op = "read"
     THEN At(a, "deliver", "read") /\ ev' = tag_raise_event(ev, "COMPLETED", "read", flight')
     ELSE At(a, "end", "write") /\ UNCHANGED ev
  /\ UNCHANGED <<callback, abort_requested, present, tickler, calls>>

WriteEnds(a) ==
  /\ app[a].at = "end"
  /\ ev' = tag_raise_event(ev, "COMPLETED", "write", flight)
  /\ At(a, "deliver", "write")
  /\ UNCHANGED <<callback, flight, complete, abort_requested, present, tickler, calls>>

AbortCalled(a) ==
  /\ MayCall(a)
  /\ abort_requested' = TRUE
  /\ \/ At(a, "flagged", "abort") /\ UNCHANGED present
     \/ At(a, "flagged", "destroy") /\ present' = FALSE
  /\ UNCHANGED <<ev, callback, flight, complete, tickler>>

\* The flag may have been dealt with by the tickler in the meantime.
AbortHandled(a) ==
  /\ app[a].at = "flagged"
  /\ At(a, "told", app[a].op)
  /\ IF abort_requested
     THEN abort_requested' = FALSE /\ flight' = {} /\ complete' = flight /\ ev' = AbortedBlock(ev)
     ELSE UNCHANGED <<abort_requested, flight, complete, ev>>
  /\ UNCHANGED <<callback, present, tickler, calls>>

\* The callbacks at the end of plc_tag_abort_impl; the caller goes on.
AbortTold(a) ==
  /\ app[a].at = "told"
  /\ ev' = Delivered(ev)
  /\ At(a, CASE app[a].op = "abort" -> "idle"
             [] app[a].op = "destroy" -> "doomed"
             [] OTHER -> "clear", IF app[a].op = "abort" THEN "none" ELSE app[a].op)
  /\ UNCHANGED <<callback, flight, complete, abort_requested, present, tickler, calls>>

DestroyRaised(a) ==
  /\ app[a].at = "doomed"
  /\ ev' = tag_raise_event(ev, "DESTROYED", "none", {})
  /\ At(a, "deliver", "destroy")
  /\ UNCHANGED <<callback, flight, complete, abort_requested, present, tickler, calls>>

\* The callbacks at the end of every call.
CallEnds(a) ==
  /\ app[a].at = "deliver"
  /\ ev' = Delivered(ev)
  /\ IF app[a].op = "destroy" THEN At(a, "gone", "none") ELSE At(a, "idle", "none")
  /\ UNCHANGED <<callback, flight, complete, abort_requested, present, tickler, calls>>

plc_tag_register_callback_ex(a) ==
  /\ MayCall(a) /\ ~callback
  /\ callback' = TRUE
  /\ UNCHANGED <<ev, flight, complete, abort_requested, present, app, tickler>>

plc_tag_unregister_callback(a) ==
  /\ MayCall(a) /\ callback
  /\ callback' = FALSE
  /\ UNCHANGED <<ev, flight, complete, abort_requested, present, app, tickler>>

-----------------------------------------------------------------------------
(* The tickler thread.  s is the tag: [ev, flight, complete, abort, calls].*)

TicklerPicks ==
  /\ tickler = "idle" /\ present
  /\ tickler' = "held"
  /\ UNCHANGED <<ev, callback, flight, complete, abort_requested, present, app, calls>>

AbortDone(s) ==
  [s EXCEPT !.ev = tag_raise_event(@, "ABORTED", "none", {}), !.flight = {}, !.complete = {},
            !.abort = FALSE]

\* A dirty tag with automatic writes: a read in flight is aborted; the write is
\* queued, or started when it is due.
AutoWritten(s) ==
  LET w == IF "read" \in s.flight
           THEN [s EXCEPT !.ev = tag_raise_event(@, "ABORTED", "none", {}),
                          !.flight = @ \ {"read"}, !.complete = @ \ {"read"}]
           ELSE s
  IN  {w} \cup
      {[w EXCEPT !.ev = tag_raise_event(@, "STARTED", "write", {}),
                 !.flight = @ \cup {"write"}, !.calls = @ + 1] :
         once \in {x \in {1} : "write" \notin w.flight /\ s.calls < MaxCalls}}

AutoRead(s) ==
  {[s EXCEPT !.ev = tag_raise_event(@, "STARTED", "read", {}),
             !.flight = {"read"}, !.calls = @ + 1] :
     once \in {x \in {1} : s.flight = {} /\ s.calls < MaxCalls}}

plc_tag_generic_tickler(s) ==
  IF s.abort THEN {AbortDone(s)}
  ELSE {s} \cup (IF AutoSync THEN AutoWritten(s) \cup AutoRead(s) ELSE {})

\* The protocol's tickler may complete what is in flight; tag_tickler_func clears
\* the flags and announces the completions.
Finished(s, op) ==
  IF op \in s.complete
  THEN LET over == [s EXCEPT !.complete = @ \ {op}, !.flight = @ \ {op}]
       IN  [over EXCEPT !.ev = tag_raise_event(@, "COMPLETED", op, over.flight)]
  ELSE s

TicklerRuns ==
  /\ tickler = "held"
  /\ \/ \E s \in plc_tag_generic_tickler(
                   [ev |-> ev, flight |-> flight, complete |-> complete,
                    abort |-> abort_requested, calls |-> calls]) :
        \E done \in SUBSET s.flight :
          LET t == Finished(Finished([s EXCEPT !.complete = @ \cup done], "read"), "write")
          IN  /\ ev' = t.ev /\ flight' = t.flight /\ complete' = t.complete
              /\ abort_requested' = t.abort /\ calls' = t.calls
              /\ tickler' = "deliver"
     \/ /\ tickler' = "idle"           \* the mutex was taken
        /\ UNCHANGED <<ev, flight, complete, abort_requested, calls>>
  /\ UNCHANGED <<callback, present, app>>

TicklerDelivers ==
  /\ tickler = "deliver"
  /\ ev' = Delivered(ev)
  /\ tickler' = "idle"
  /\ UNCHANGED <<callback, flight, complete, abort_requested, present, app, calls>>

-----------------------------------------------------------------------------
EventsNext ==
  \/ \E a \in Apps :
       \/ CreateEnds(a) \/ ReadCalled(a) \/ WriteCalled(a) \/ WaitOver(a) \/ Cleared(a)
       \/ WriteEnds(a) \/ AbortCalled(a) \/ AbortHandled(a) \/ AbortTold(a)
       \/ DestroyRaised(a) \/ CallEnds(a)
       \/ plc_tag_register_callback_ex(a) \/ plc_tag_unregister_callback(a)
  \/ TicklerPicks \/ TicklerRuns \/ TicklerDelivers

EventsSpec == EventsInit /\ [][EventsNext]_evVars

-----------------------------------------------------------------------------
\* The callback hears of the creation once, and of it before any abort or
\* completion, and of a completion only after a start, whichever thread delivers
\* the events and in whatever order the creation and the first operations end.
AnnouncedInOrder == ev.heard.created <= 1 /\ ~ev.heard.early

\* The completion of a write is announced when no write is in flight any more
\* (libplctag.h: PLCTAG_EVENT_WRITE_COMPLETED, "When a tag write operation
\* completes").
WriteCompletedIsOver == ev.heard.over
=============================================================================
