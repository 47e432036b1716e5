----------------------------- MODULE MCSessions -----------------------------
(***************************************************************************)
(* An AB session or an Omron connection with the requests of two tags, or  *)
(* one tag that two threads use (TagOps), whichever the initial state says. *)
(***************************************************************************)
EXTENDS AbSession, TagState, TLC

CONSTANTS t1, t2, r1, r2, r3, RespSize, FirstReads, RespHeader, RespEntry

VARIABLES
  part,         \* "ab", "omron" or "tag"
  cond, caller  \* see TagOps

tagVars == <<tag, cond, caller>>

Omron == INSTANCE OmronConn

\* Both threads call anything at any time, and anything may happen to a call.
Ops == INSTANCE TagOps WITH
         Ops <- [a \in App |-> {"read", "write", "status", "abort", "set"}],
         Waits <- BOOLEAN, Answers <- {"ok", "more", "cip_error", "eip_error"},
         AutoRead <- TRUE, AutoWrite <- TRUE, MayTimeOut <- TRUE, StartMayFail <- TRUE

\* Two small requests that fit into one packet, and a large one.
Sizes == [r \in Reqs |-> IF r = r3 THEN 3 ELSE 1]

\* What the PLC is like matters only to those who negotiate with it.
PlcMatters ==
  /\ h.onlyOld \/ ~h.connected => plc.ex
  /\ ~plc.ex \/ h.onlyOld \/ ~h.connected => plc.size = 5

SessionsInit ==
  /\ part \in {"ab", "omron", "tag"}
  /\ Ops!OpsInit
  /\ IF part = "ab" THEN Init ELSE Omron!Init
  /\ PlcMatters
  /\ part = "tag" => h.onlyOld

SessionsNext ==
  /\ UNCHANGED part
  /\ \/ part = "ab" /\ Next /\ UNCHANGED tagVars
     \/ part = "omron" /\ Omron!Next /\ UNCHANGED tagVars
     \/ part = "tag" /\ Ops!OpsNext /\ UNCHANGED vars

SessionsSpec == SessionsInit /\ [][SessionsNext]_<<vars, tagVars, part>>

\* What TLC tells apart.  How an earlier call ended, got and want only record what
\* happened: no step and no property of this run depends on them.
NoRecords ==
  <<part, vars, cond, [tag EXCEPT !.got = {}, !.want = FALSE],
    [a \in App |-> IF caller[a].pc = "idle" THEN None ELSE caller[a]]>>

Symmetry == Permutations(Tags) \cup Permutations(App)
=============================================================================
