------------------------------- MODULE MCBase -------------------------------
(***************************************************************************)
(* The parts that everything else rests on, one of them in each behaviour: *)
(* the reference counts of tags and PLCs, the vector, the condition        *)
(* variable, and the handler of a Modbus PLC on its socket.  A part that   *)
(* does not run stays in an initial state.                                 *)
(***************************************************************************)
EXTENDS RefCount, Cond, Vector, MCStream

VARIABLE part  \* the part that runs

refVars == vars
baseVars == <<part, refVars, condVars, vecVars, streamVars>>

BaseInit ==
  /\ part \in {"refs", "cond", "vector", "stream"}
  /\ Init /\ CondInit /\ VecInit /\ StreamInit
  /\ part # "cond" => build = "posix"
  /\ part # "vector" => vec.capacity = 1 /\ vec.max_inc = 1
  /\ part # "stream" => os = "posix"

Refs == part = "refs" /\ Next /\ UNCHANGED <<part, condVars, vecVars, streamVars>>
Conds == part = "cond" /\ CondNext /\ UNCHANGED <<part, refVars, vecVars, streamVars>>
Vectors == part = "vector" /\ VecNext /\ UNCHANGED <<part, refVars, condVars, streamVars>>
Streams == part = "stream" /\ StreamNext /\ UNCHANGED <<part, refVars, condVars, vecVars>>

\* The fairness of RefCount and of ModbusStream, for the part that runs.
BaseFairness ==
  /\ \A o \in Object : WF_refVars(part = "refs" /\ Cleanup(o))
  /\ WF_refVars(part = "refs" /\ CleanerStep)
  /\ WF_refVars(part = "refs" /\ Teardown)
  /\ WF_streamVars(part = "stream" /\ Handler)
  /\ WF_streamVars(part = "stream" /\ Wake)
  /\ WF_streamVars(part = "stream" /\ WakeToEnd)
  /\ WF_streamVars(part = "stream" /\ JoinAndDestroy)

BaseSpec ==
  BaseInit /\ [][Refs \/ Conds \/ Vectors \/ Streams]_baseVars /\ BaseFairness
=============================================================================
