------------------------------ MODULE MCModbus ------------------------------
(***************************************************************************)
(* Modbus, in three scenarios: tags of a PLC whose connection breaks and   *)
(* whose answers come out of order (ModbusPlc as the configuration says),  *)
(* tags whose operations are aborted, and the transfer of the data of one  *)
(* tag in pieces, with the payload sizes of the code (ModbusTransfer).     *)
(***************************************************************************)
EXTENDS MCModbusPlc, ModbusTransfer

\* Tags of one register up to a little more than four requests, and coils next
\* to the ends of packets: every remainder at every boundary.
RegisterCounts == 1 .. 510
CoilCounts == {1, 7, 8, 9, 1967, 1968, 1969, 1999, 2000, 2001, 3999, 4000, 4001}
Counts == RegisterCounts \cup CoilCounts

VARIABLE scenario  \* "faults", "aborts" or "transfer"

Aborting == INSTANCE ModbusPlc WITH
              AutoRead <- {CHOOSE u \in Tag : TRUE}, AutoWrite <- {}, MayWrite <- {},
              ReadOnly <- {}, Contended <- {}, Reorder <- FALSE, Answers <- {"ok"},
              MaxFaults <- 0, MaxAborts <- 1

modbusVars == <<scenario, vars, transferVars>>

ModbusInit ==
  /\ scenario \in {"faults", "aborts", "transfer"}
  /\ Init /\ TransferInit
  /\ scenario # "transfer" => dir = "read" /\ elem_size = 1 /\ elem_count = 1

Faults == scenario = "faults" /\ Next /\ UNCHANGED <<scenario, transferVars>>
Aborts == scenario = "aborts" /\ Aborting!Next /\ UNCHANGED <<scenario, transferVars>>
Transfers == scenario = "transfer" /\ TransferNext /\ UNCHANGED <<scenario, vars>>

\* The fairness of ModbusPlc, where the connection stays up.
ModbusFairness ==
  /\ WF_vars(scenario = "aborts" /\ Aborting!Handler)
  /\ \A t \in Tag : WF_vars(scenario = "aborts" /\ Aborting!AppFinishes(t))
  /\ WF_vars(scenario = "aborts" /\ Aborting!PlcAnswers)

ModbusSpec == ModbusInit /\ [][Faults \/ Aborts \/ Transfers]_modbusVars /\ ModbusFairness

\* A read of a tag ends: tags that read over and over again do not keep it
\* waiting for ever, and neither does an abort, of its own or of another tag.
ReadEnds ==
  \A t \in Tag :
    (scenario = "aborts" /\ tag[t].op = "READ_REQUEST") ~> tag[t].op = "IDLE"
=============================================================================
