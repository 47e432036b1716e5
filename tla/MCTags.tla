------------------------------- MODULE MCTags -------------------------------
(* Tags of all kinds against the PLCs that their modules describe, and the    *)
(* simulated PLC of the tests, by itself (plc_type is not "NONE") and as one  *)
(* of the PLCs that the tags may talk to.                                     *)
EXTENDS EipCip, AbServer, TLC

CONSTANTS PcccAvails, RawAvails, Rooms,
  ServerRooms,    \* bytes that an answer may take
  c1, c2          \* the clients of ab_server

(***************************************************************************)
(* ab_server: one tag, two connections, and what they send.  A packet of 84 *)
(* bytes leaves 38 for CIP, what the largest request takes.                 *)
(***************************************************************************)
MCMaxSends == [c \in Clients |-> IF c = c1 THEN 2 ELSE 1]

T1 == [name |-> "A", file |-> 7, type |-> "INT", elem_size |-> 2, dims |-> <<1, 2>>]
MCServerTags == {T1}
MCFirstBytes == [n \in {"A"} |-> <<{}, {}, {}, {}>>]

Cip(svc, idx, count, off, data) ==
  [svc |-> svc, name |-> "A", idx |-> idx, count |-> count, off |-> off, data |-> data,
   type |-> "INT", pad |-> 0]
PcccRequest(svc, elem, off, size, data, mask) ==
  [svc |-> svc, file |-> 7, elem |-> elem, off |-> off, size |-> size, data |-> data,
   mask |-> mask, type |-> "INT", sub |-> 0]
Ones == <<{1}, {1}, {1}, {1}>>
Open(svc, serial, size, ok) == [svc |-> svc, path_ok |-> ok, serial |-> serial, size |-> size]

Eip(cmd, session, conn, cip) == [cmd |-> cmd, session |-> session, conn |-> conn, cip |-> cip]
NoCip == [svc |-> "NONE"]
Embedded(r) == [svc |-> "UNCONNECTED_SEND", embedded |-> r]

Read1 == Cip("READ", <<0, 1>>, 1, 0, <<>>)
ReadAll == Cip("READ_FRAG", <<>>, 2, 0, <<>>)
CipRequests ==
  {ReadAll, Cip("READ_FRAG", <<>>, 2, 2, <<>>), [Read1 EXCEPT !.pad = 1],
   Cip("WRITE", <<>>, 2, 0, Ones), Cip("WRITE_FRAG", <<>>, 2, 2, <<{2}, {2}>>),
   [svc |-> "MULTI", subs |-> <<ReadAll, Read1, ReadAll>>]}

MCRequests == [p \in PlcTypes |->
  IF p = "LOGIX"
  THEN {Eip("REGISTER", 0, 0, NoCip), Eip("UNREGISTER", 1, 0, NoCip), Eip("LIST", 0, 0, NoCip),
        Eip("UNCONNECTED", 1, 0, Open("FORWARD_OPEN", 1, 512 + 84, TRUE)),
        Eip("UNCONNECTED", 1, 0, Open("FORWARD_OPEN_EX", 1, 84, TRUE)),
        Eip("UNCONNECTED", 1, 0, Open("FORWARD_CLOSE", 1, 0, TRUE)),
        Eip("UNCONNECTED", 1, 0, Embedded(ReadAll)),
        Eip("UNCONNECTED", 1, 0, Embedded(Cip("WRITE", <<>>, 2, 0, Ones))),
        Eip("UNCONNECTED", 1, 0, Embedded([svc |-> "RMW"])),
        Eip("CONNECTED", 1, 1, [svc |-> "MULTI", subs |-> <<>>])}
       \cup {Eip("CONNECTED", 1, 1, r) : r \in CipRequests}
  ELSE {Eip("UNCONNECTED", 1, 0, r) : r \in
          IF p = "PLC5"
          THEN {PcccRequest("PLC5_READ", 0, 0, 2, <<>>, <<>>), PcccRequest("PLC5_WRITE", 0, 0, 2, Ones, <<>>),
                PcccRequest("PLC5_RMW", 0, 0, 0, <<{1}, {}>>, <<{1, 2}, {1, 2}>>),
                PcccRequest("SLC_READ", 0, 0, 4, <<>>, <<>>)}
          ELSE {PcccRequest("SLC_READ", 0, 0, 4, <<>>, <<>>), PcccRequest("SLC_WRITE", 0, 0, 4, Ones, <<>>),
                PcccRequest("SLC_RMW", 0, 0, 2, <<{1}, {}>>, <<{1}, {}>>)}}]

(***************************************************************************)
(* The tags.                                                                *)
(***************************************************************************)

Omron == INSTANCE OmronTag
Pccc == INSTANCE PcccTag
Special == INSTANCE SpecialTag

MCData == {<<{0}, {0, 1}, {1}, {0}>>}
MCMemory == <<{1}, {0}, {}, {0, 1}>>
MCBits == {[byte |-> 2, nth |-> 1]}

MCRooms == [raw |-> {5, 40}, identity |-> {40}, listing |-> {18, 40}, udt |-> {18, 40}]

NoTag == [Blank("none", FALSE, None, 0) EXCEPT !.rif = FALSE]

MCInit ==
  \/ /\ Init \/ Omron!Init \/ Pccc!Init \/ Special!Init
     /\ plc_type = "NONE" /\ Unstarted
  \/ /\ tag = NoTag /\ plc = <<>> /\ avail = 0 /\ op = NoOp /\ touched = {}
     /\ plc_type \in PlcTypes /\ Unstarted

TagNext ==
  \/ tag.kind = "cip" /\ Next
  \/ tag.kind \in {"omron", "omron_raw"} /\ Omron!Next
  \/ tag.kind \in {"plc5", "slc", "plc5_dhp", "slc_dhp", "lgx_pccc"} /\ Pccc!Next
  \/ tag.kind \in {"raw", "identity", "listing", "udt"} /\ Special!Next

MCNext ==
  \/ plc_type = "NONE" /\ TagNext /\ UNCHANGED serverVars
  \/ plc_type # "NONE" /\ ServerNext /\ UNCHANGED tagVars

MCSpec == MCInit /\ [][MCNext]_<<tagVars, serverVars>>

(***************************************************************************)
(* ab_server as the PLC of a tag.                                           *)
(***************************************************************************)
\* The tag as ab_server is told of it, and a request as it reads it.
Served == [name |-> "A", file |-> 7, type |-> "INT",
           elem_size |-> Len(plc) \div tag.elem_count, dims |-> <<tag.elem_count>>]

CipRead(r) == [svc |-> r.svc, name |-> "A", idx |-> <<>>, count |-> tag.elem_count,
               off |-> r.off, data |-> r.data, type |-> "INT", pad |-> 0]

PcccRead(r, svc) == [svc |-> svc, file |-> 7, elem |-> 0, off |-> 0, sub |-> 0, type |-> "INT",
                     size |-> IF tag.kind = "plc5" THEN Len(plc) \div 2 ELSE Len(plc),
                     data |-> r.data, mask |-> r.mask]

PcccService(r) ==
  CASE tag.kind = "plc5" -> [READ |-> "PLC5_READ", WRITE |-> "PLC5_WRITE", RMW |-> "PLC5_RMW"][r.svc]
    [] tag.kind = "slc" -> [READ |-> "SLC_READ", WRITE |-> "SLC_WRITE", WRITE_MASK |-> "SLC_RMW"][r.svc]

Told(r, status, data) ==
  Answer("OK", r.svc, IF status \in {"OK", "FRAG"} THEN status ELSE "ERROR", data, TRUE)

CipServes(r, room) ==
  LET q == CipRead(r)
      b == handle_read_request("LOGIX", {Served}, [A |-> plc], q, room)
  IN  IF r.svc = "READ_FRAG" THEN [plc |-> plc, resp |-> Told(r, b.status, b.data)]
      ELSE IF r.svc = "RMW" THEN [plc |-> plc, resp |-> Told(r, "UNSUPPORTED", <<>>)]
      ELSE [plc |-> WriteLeaves("LOGIX", {Served}, [A |-> plc], q).A,
            resp |-> Told(r, write_error("LOGIX", {Served}, q), <<>>)]

PcccServes(r) ==
  LET q == PcccRead(r, PcccService(r))
      e == dispatch_pccc_request(IF tag.kind = "plc5" THEN "PLC5" ELSE "SLC", {Served}, q)
  IN  IF e.err # "OK" THEN [plc |-> plc, resp |-> Told(r, e.err, <<>>)]
      ELSE IF r.svc = "READ"
      THEN [plc |-> plc, resp |-> Told(r, "OK", SubSeq(plc, e.start + 1, e.start + e.n))]
      ELSE [plc |-> [i \in DOMAIN plc |->
                       IF i > e.start /\ i <= e.start + e.n
                       THEN StoredByte(q, i - e.start, plc[i]) ELSE plc[i]],
            resp |-> Told(r, "OK", <<>>)]

\* Whatever a Logix, PLC/5 or SLC tag has asked for, in whatever state the abort of
\* earlier requests and lost answers left it, ab_server (cip.c:704-1027,
\* pccc.c:136-691) answers as the PLC that the tag's code is written for may.
\* Only a plain write with less data than its elements need is taken for good, which
\* the TODO at cip.c:958 leaves open.
ServerIsPlc ==
  (plc_type = "NONE" /\ Alive /\ Waiting # <<>>) =>
    LET r == Head(Waiting)
        short == r.svc = "WRITE" /\ Len(r.data) < Len(plc)
    IN  /\ tag.kind = "cip" /\ ~short => \A room \in ServerRooms : CipServes(r, room) \in Serve(r, plc)
        /\ tag.kind \in {"plc5", "slc"} => PcccServes(r) \in Pccc!Serve(r, plc)
=============================================================================
