------------------------------- MODULE MCPools -------------------------------
(***************************************************************************)
(* Connections, from both sides: how tags share and give up the Modbus ones *)
(* (ModbusPool) or the AB and Omron ones (SessionPool), and how one AB     *)
(* session (AbSession) or Omron connection (OmronConn) serves two requests. *)
(* The initial state says which; the other variables stay as they are.     *)
(***************************************************************************)
EXTENDS Pools

CONSTANTS p1, p2, p3, k1, Tags, Reqs

Keys == [t \in PoolTags |-> k1]

VARIABLES
  part,  \* "modbus", "session", "ab" or "omron"
  requests, moving, req, holds, tags, h, net, plc, life, left  \* see AbSession

Ab == INSTANCE AbSession WITH
        queue <- requests, Size <- [r \in Reqs |-> 1], Packable <- Reqs, PcccSize <- 3,
        FoSize <- 3, FoExSize <- 7, PlcSizes <- {5}, Connects <- BOOLEAN, MaxRequests <- 2,
        MultiHeader <- 1, OffsetEntry <- 1, Faults <- 1
Omron == INSTANCE OmronConn WITH
           queue <- requests, Size <- [r \in Reqs |-> 1], Packable <- Reqs, PcccSize <- 3,
           FoSize <- 3, FoExSize <- 7, PlcSizes <- {5}, Connects <- {TRUE},
           MaxRequests <- 2, MultiHeader <- 1, OffsetEntry <- 1, Faults <- 1,
           RespSize <- [r \in Reqs |-> 1], FirstReads <- {}, RespHeader <- 0, RespEntry <- 1

sessionVars == <<requests, moving, req, holds, tags, h, net, plc, life, left>>
allVars == <<vars, poolVars, sessionVars, part>>

PoolsInit ==
  /\ part \in {"modbus", "session", "ab", "omron"}
  /\ Init /\ PoolInit
  /\ part # "session" => brand = "ab"
  /\ IF part = "ab" THEN Ab!Init ELSE Omron!Init
  /\ part = "ab" => ~h.onlyOld /\ ~plc.ex     \* large packets are asked for and refused
  /\ part # "ab" => h.onlyOld /\ h.ex > 0 /\ plc.ex  \* they are not asked for

PoolsNext ==
  /\ UNCHANGED part
  /\ \/ part = "modbus" /\ Next /\ UNCHANGED <<poolVars, sessionVars>>
     \/ part = "session" /\ PoolNext /\ UNCHANGED <<vars, sessionVars>>
     \/ part = "ab" /\ Ab!Next /\ UNCHANGED <<vars, poolVars>>
     \/ part = "omron" /\ Omron!Next /\ UNCHANGED <<vars, poolVars>>

\* The fairness of the four modules, each in its part.
PoolsFairness ==
  /\ WF_vars(part = "modbus" /\ Cleanup)
  /\ \A p \in Plc : WF_vars(part = "modbus" /\ Handler(p))
  /\ \A t \in Tag : WF_vars(part = "modbus" /\ lib # "up" /\ DestroyTag(t))
  /\ WF_vars(part = "modbus" /\ TeardownStops) /\ WF_vars(part = "modbus" /\ TeardownCounts)
  /\ WF_vars(part = "modbus" /\ TeardownEnds)
  /\ WF_poolVars(part = "session" /\ Cleaner) /\ WF_poolVars(part = "session" /\ Waits)
  /\ \A s \in Sessions : WF_poolVars(part = "session" /\ SessionExits(s))
  /\ \A t \in PoolTags : WF_poolVars(part = "session" /\ down # "up" /\ plc_tag_destroy(t))
  /\ WF_sessionVars(part = "ab" /\ Ab!Handler) /\ WF_sessionVars(part = "omron" /\ Omron!Handler)
  /\ WF_sessionVars(part = "ab" /\ Ab!Destroy) /\ WF_sessionVars(part = "omron" /\ Omron!Destroy)
  /\ WF_sessionVars(part \in {"ab", "omron"} /\ Ab!PlcAnswers)

PoolsSpec == PoolsInit /\ [][PoolsNext]_allVars /\ PoolsFairness

\* A shutdown ends, whoever waits for whom: the teardown for the connections, the
\* cleanup thread for the handlers (modbus.c:3398-3474, session.c:171-256).
PoolsEnd == ShutdownEnds /\ SessionsEnd

\* A request that a tag adds is answered in the end, unless the tag gives it up or
\* the push-back race of session.c:2020 takes it off the queue.
Served == Ab!Served
=============================================================================
