---------------------------- MODULE MCModbusPlc -----------------------------
(* How many requests the data of each tag takes.                            *)
EXTENDS ModbusPlc

\* One large tag, the others fit into a packet.
TwoChunks == [t \in Tag |-> IF t = CHOOSE u \in Tag : TRUE THEN 2 ELSE 1]
OneChunk == [t \in Tag |-> 1]
=============================================================================
