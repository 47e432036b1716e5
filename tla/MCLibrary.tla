----------------------------- MODULE MCLibrary -----------------------------
(***************************************************************************)
(* Two models of lib.c checked side by side: the life of the library and   *)
(* of its handles, and the events of one tag.  A behaviour is one or the   *)
(* other; the variables of the model that is not chosen keep their values. *)
(***************************************************************************)
EXTENDS Library, TagEvents, TLC

CONSTANTS t1, t2

VARIABLE part

\* Ids that share slots, so that lookups step over holes and tables grow.
MCHash == [k \in Ids |-> 2 * (k + 5) % 8]

NoEventsYet ==
  /\ ev = NoEvents /\ callback = FALSE /\ flight = {} /\ complete = {}
  /\ abort_requested = FALSE /\ present = FALSE /\ tickler = "idle" /\ calls = 0
  /\ app = [a \in Apps |-> [at |-> "idle", op |-> "none"]]

MCInit ==
  \/ part = "life" /\ Init /\ NoEventsYet
  \/ part = "events" /\ Init /\ EventsInit

\* Bound: after a failed start, which may leave a second tickler thread, one tag.
OneTagAfterFailure == failures' > 0 => stage'[t2] = "none"

MCNext ==
  /\ UNCHANGED part
  /\ \/ part = "life" /\ Next /\ OneTagAfterFailure /\ UNCHANGED evVars
     \/ part = "events" /\ EventsNext /\ UNCHANGED vars

MCSpec == MCInit /\ [][MCNext]_<<vars, evVars, part>> /\ Fairness
=============================================================================
