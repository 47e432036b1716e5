---------------------------- MODULE RefContract ----------------------------
(***************************************************************************)
(* What utils/rc.c promises its callers: an object lives as long as some   *)
(* place holds a reference to it.  References can be added and passed on   *)
(* only while there is one.  When the last one goes the object is doomed,  *)
(* nobody can hold it again, and its destructor runs once, some time later.*)
(***************************************************************************)
CONSTANTS Object, Holder

VARIABLES
  life,      \* life[o]: "none", "alive", "doomed" or "destroyed"
  holders    \* holders[o]: the places that hold a reference to o

vars == <<life, holders>>

Init ==
  /\ life = [o \in Object |-> "none"]
  /\ holders = [o \in Object |-> {}]

Create(o, h) ==
  /\ life[o] = "none"
  /\ life' = [life EXCEPT ![o] = "alive"]
  /\ holders' = [holders EXCEPT ![o] = {h}]

Acquire(o, h) ==
  /\ life[o] = "alive" /\ holders[o] # {}
  /\ holders' = [holders EXCEPT ![o] = @ \cup {h}]
  /\ UNCHANGED life

PassOn(o, h, g) ==
  /\ life[o] = "alive" /\ h \in holders[o]
  /\ holders' = [holders EXCEPT ![o] = (@ \ {h}) \cup {g}]
  /\ UNCHANGED life

GiveUp(o, h) ==
  /\ life[o] = "alive" /\ h \in holders[o]
  /\ holders' = [holders EXCEPT ![o] = @ \ {h}]
  /\ life' = [life EXCEPT ![o] = IF holders[o] = {h} THEN "doomed" ELSE @]

Destroy(o) ==
  /\ life[o] = "doomed" /\ holders[o] = {}
  /\ life' = [life EXCEPT ![o] = "destroyed"]
  /\ UNCHANGED holders

Next ==
  \E o \in Object :
    \/ Destroy(o)
    \/ \E h \in Holder :
         \/ Create(o, h) \/ Acquire(o, h) \/ GiveUp(o, h)
         \/ \E g \in Holder : PassOn(o, h, g)

Spec == Init /\ [][Next]_vars

=============================================================================
