------------------------------ MODULE TagState ------------------------------
(***************************************************************************)
(* The state of one tag (lib/tag.h, protocols/ab/tag.h) as its operations  *)
(* in TagOps see it, and what every one of them has to keep.               *)
(***************************************************************************)

CONSTANT App    \* application threads

VARIABLE tag    \* the tag's flags, status and request; want and got are ghosts

Status == {"ok", "pending", "abort", "busy", "error", "timeout"}

TagRecord ==
  [rif: BOOLEAN, wif: BOOLEAN,        \* read_in_flight, write_in_flight
   rcomp: BOOLEAN, wcomp: BOOLEAN,    \* read_complete, write_complete
   dirty: BOOLEAN, nextWrite: BOOLEAN,\* tag_is_dirty, auto_sync_next_write # 0
   abortReq: BOOLEAN, status: Status,
   rip: BOOLEAN, wip: BOOLEAN,        \* read_in_progress, write_in_progress
   first: BOOLEAN, pre: BOOLEAN,      \* first_read, pre_write_read
   data: BOOLEAN,                     \* tag->data # NULL
   req: {"none", "sent", "ok", "more", "cip_error", "eip_error"},
   want: BOOLEAN,                     \* a write was asked for and is not over
   got: SUBSET App]                   \* who has seen a read since its start

\* The tag keeps exactly one request while a read or a write is in progress,
\* never both, and none otherwise, whoever starts, completes, aborts or times out
\* (lib.c, eip_cip.c): no answer is applied to the wrong operation.
OneRequest ==
  /\ ~ (tag.rip /\ tag.wip)
  /\ tag.req # "none" <=> tag.rip \/ tag.wip

=============================================================================
