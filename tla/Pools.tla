-------------------------------- MODULE Pools --------------------------------
(* What the two pools of connections promise to their tags: ModbusPool, and   *)
(* SessionPool for the AB and Omron protocols.  A program may use both; they  *)
(* share the library's shutdown and otherwise nothing.                        *)
EXTENDS ModbusPool, SessionPool

\* Tags of one server share one connection: threads that race in
\* find_or_create_plc or in session_find_or_create make no duplicate of it, and
\* get it ready for use (modbus.c:545-735, session.c:340-490).
OneConnection == OnePlc /\ SharersShare /\ SessionIsReady

\* What is freed is out of use: neither a tag nor a handler thread nor the list
\* leads to a PLC or a session that its destructor has freed, and a teardown
\* leaves nothing behind (modbus.c:739-829, 3398-3474, session.c:171-256,
\* 1118-1222).
FreedIsOut == /\ FreedIsUnused /\ ListedIsAllocated /\ TeardownIsComplete
              /\ SessionsSafe /\ ListIsDone
=============================================================================
