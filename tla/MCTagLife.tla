----------------------------- MODULE MCTagLife ------------------------------
(***************************************************************************)
(* One thread and one tag: with calls that wait (TagOps as the             *)
(* configuration says), with automatic reads and writes between calls that *)
(* do not wait, and with the accessors of its data (TagData).              *)
(***************************************************************************)
EXTENDS TagOps, Integers, Sequences

(***************************************************************************)
(* Data of tags for TagData: the byte orders that the protocols define      *)
(* (capacities scaled down from 82) and overrides good and bad.             *)
(***************************************************************************)
Ascending(n) == [i \in 1..n |-> i - 1]
Descending(n) == [i \in 1..n |-> n - i]

\* counted, fixed, zero terminated, swapped, count word, capacity, total, pad
Layout(c, f, z, s, word, cap, total, pad) ==
  [int16_byte_order |-> Ascending(2), int32_byte_order |-> Ascending(4),
   int64_byte_order |-> Ascending(8), float32_byte_order |-> Ascending(4),
   float64_byte_order |-> Ascending(8), str_is_defined |-> 1,
   str_is_counted |-> c, str_is_fixed_length |-> f, str_is_zero_terminated |-> z,
   str_is_byte_swapped |-> s, str_count_word_bytes |-> word, str_max_capacity |-> cap,
   str_total_length |-> total, str_pad_bytes |-> pad]

logix == Layout(1, 1, 0, 0, 4, 2, 8, 2)
logix_listing == Layout(1, 0, 0, 0, 2, 0, 0, 0)
plc5 == [Layout(1, 1, 0, 1, 2, 2, 4, 0) EXCEPT !.float32_byte_order = <<2, 3, 0, 1>>]
udt == Layout(0, 0, 1, 0, 0, 0, 0, 0)
omron == Layout(1, 0, 1, 0, 2, 0, 0, 0)
modbus ==
  [Layout(0, 0, 0, 0, 0, 0, 0, 0) EXCEPT !.str_is_defined = 0,
     !.int16_byte_order = Descending(2), !.int32_byte_order = Descending(4),
     !.int64_byte_order = Descending(8), !.float32_byte_order = Descending(4),
     !.float64_byte_order = Descending(8)]

MCDefaults == {logix, logix_listing, plc5, udt, omron, modbus}

MCOverrides ==
  {<<>>, [int16_byte_order |-> <<1, 0>>], [int32_byte_order |-> <<1, 0, 3, 2>>],
   [int32_byte_order |-> <<1, 0, 1, 2>>],
   [str_is_counted |-> 1, str_count_word_bytes |-> 1],
   [str_is_byte_swapped |-> 1, str_max_capacity |-> 2, str_total_length |-> 4],
   [str_is_counted |-> 0, str_is_zero_terminated |-> 1],
   [str_max_capacity |-> 0, str_total_length |-> 6],
   [str_max_capacity |-> 1], [str_max_capacity |-> 1, str_total_length |-> 3],
   [str_is_zero_terminated |-> 1, str_total_length |-> 5]}

\* Bytes with a string at offset 0 for each layout, and something behind it.
MCBuffers == {<<>>, <<1, 0, 0, 0, 65, 7, 8, 9, 10, 11>>, <<2, 0, 65, 66, 0, 2, 0, 67, 68, 0>>}

MCNumbers == [w \in {1, 2, 4, 8} |-> {[i \in 1..w |-> 0], [i \in 1..w |-> 10 * i]}]
MCStrings == {<<>>, <<65>>, <<66, 67>>, <<68, 69, 70>>}
MCOffsets == {-1, 0, 1, 5, 9}

VARIABLES
  scenario,         \* "waiting", "automatic" or "data"
  data, made, last  \* the tag of TagData, see there

Auto == INSTANCE TagOps WITH
          AutoRead <- TRUE, AutoWrite <- TRUE, Waits <- {FALSE}, Answers <- {"ok", "cip_error"}

D == INSTANCE TagData WITH
       tag <- data, Defaults <- MCDefaults, Overrides <- MCOverrides,
       Buffers <- MCBuffers, Numbers <- MCNumbers, Strings <- MCStrings,
       Offsets <- MCOffsets, Garbage <- 99, MaxCalls <- 1

dataVars == <<data, made, last>>
lifeVars == <<scenario, opsVars, dataVars>>

\* Anything but an abort.
NoAbort == [a \in App |-> Calls \ {"abort"}]

LifeInit ==
  /\ scenario \in {"waiting", "automatic", "data"}
  /\ OpsInit /\ D!DataInit
  /\ scenario # "data" => data = CHOOSE t \in D!FirstTags : TRUE

Waiting == scenario = "waiting" /\ OpsNext /\ UNCHANGED <<scenario, dataVars>>
Automatic == scenario = "automatic" /\ Auto!OpsNext /\ UNCHANGED <<scenario, dataVars>>
Accessors == scenario = "data" /\ D!DataNext /\ UNCHANGED <<scenario, opsVars>>
\* The application makes no more calls.
Finished == scenario = "data" /\ made # "no" /\ ~D!Usable /\ UNCHANGED lifeVars

\* The fairness of TagOps in each of the two.
LifeFairness ==
  /\ \A a \in App : /\ WF_opsVars(scenario = "waiting" /\ Proceed(a))
                    /\ WF_opsVars(scenario = "automatic" /\ Auto!Proceed(a))
  /\ WF_opsVars(scenario = "waiting" /\ Tickler(TRUE))
  /\ WF_opsVars(scenario = "automatic" /\ Auto!Tickler(TRUE))
  /\ WF_opsVars(scenario = "waiting" /\ SessionAnswers)
  /\ WF_opsVars(scenario = "automatic" /\ Auto!SessionAnswers)
  /\ SF_opsVars(scenario = "waiting" /\ LastAnswer)
  /\ SF_opsVars(scenario = "automatic" /\ Auto!LastAnswer)

LifeSpec ==
  LifeInit /\ [][Waiting \/ Automatic \/ Accessors \/ Finished]_lifeVars /\ LifeFairness

\* A tag with auto_sync_read_ms goes on reading, whatever fails, unless the
\* application keeps on writing (lib.c:344-398).
AutoReads == <>[](~ tag.dirty /\ ~ tag.want) => []<>(tag.rip \/ scenario # "automatic")

\* Automatic reads go on, and what a setter stores is written (lib.c:322-398).
AutoGoesOn == AutoReads /\ DirtyIsWritten

\* The flags of the tag and the operation of its protocol agree while one thread
\* uses it: what runs is flagged, what is pending is real, a waiting thread has
\* something to wake it, and nothing is written that nobody asked for.
FlagsAgree ==
  scenario = "waiting" =>
    InFlightIsFlagged /\ PendingIsReal /\ WaiterIsWoken /\ NoUnaskedWrite

\* What a setter stores is got again, the rest of the data is kept, and a tag
\* with automatic writes becomes dirty (lib.c:2367-4037).
SettersFaithful == D!SettersFaithful
=============================================================================
