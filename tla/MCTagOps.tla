------------------------------ MODULE MCTagOps ------------------------------
(* Two threads and one tag: the first one reads, the other one aborts.      *)
EXTENDS TagOps

CONSTANTS a1, a2

ReadVsAbort == [a \in App |-> IF a = a1 THEN {"read"} ELSE {"abort"}]
=============================================================================
