-------------------------------- MODULE Cond --------------------------------
(***************************************************************************)
(* The condition variable of the platform layer: a flag under a mutex and  *)
(* the condition variable of the system.  A signal without a waiter is     *)
(* kept in the flag for the next wait, so a session, the tickler or a call *)
(* that waits for its tag may test its work first and wait then.  The      *)
(* POSIX signal wakes inside the mutex, the Windows one outside of it.     *)
(***************************************************************************)
EXTENDS Integers, FiniteSets

CONSTANTS
  Threads,     \* threads that use the condition variable
  MaxSignals   \* bound of the model on the signals

ASSUME CondAssumption == MaxSignals \in Nat

VARIABLES
  build,    \* the platform: "posix" or "windows"
  flag,     \* c->flag
  th,       \* each thread: "out", "sleeps", "woken", "expired" or "leaving"
  signals,  \* signals so far
  heard     \* waits that returned OK

condVars == <<build, flag, th, signals, heard>>

cond_create ==
  /\ flag = FALSE
  /\ th = [t \in Threads |-> "out"]

CondInit ==
  /\ build \in {"posix", "windows"}
  /\ cond_create
  /\ signals = 0 /\ heard = 0

\* The end of cond_wait, with the mutex held: the flag is taken.
Take(t) ==
  /\ flag' = FALSE
  /\ th' = [th EXCEPT ![t] = "out"]
  /\ UNCHANGED <<build, signals>>

\* Fault: a wait sleeps without a look at the flag.
SleepsFirst(t) ==
  /\ th[t] = "out"
  /\ th' = [th EXCEPT ![t] = "sleeps"]
  /\ UNCHANGED <<build, flag, signals, heard>>

\* cond_wait enters: a signal that came before ends it at once.
cond_wait(t) ==
  /\ th[t] = "out"
  /\ IF flag THEN Take(t) /\ heard' = heard + 1
     ELSE /\ th' = [th EXCEPT ![t] = "sleeps"]
          /\ UNCHANGED <<build, flag, signals, heard>>

\* The system call returns, woken for a reason or for none, or out of time.
Spurious(t) ==
  /\ th[t] = "sleeps"
  /\ th' = [th EXCEPT ![t] = "woken"]
  /\ UNCHANGED <<build, flag, signals, heard>>

Expires(t) ==
  /\ th[t] = "sleeps"
  /\ th' = [th EXCEPT ![t] = "expired"]
  /\ UNCHANGED <<build, flag, signals, heard>>

\* Back with the mutex: OK when the flag is set, else it sleeps again, or
\* stops because the time is over.
WokenReturns(t) ==
  /\ th[t] = "woken"
  /\ IF flag THEN Take(t) /\ heard' = heard + 1
     ELSE /\ th' \in {[th EXCEPT ![t] = "sleeps"], [th EXCEPT ![t] = "out"]}
          /\ UNCHANGED <<build, flag, signals, heard>>

\* PLCTAG_ERR_TIMEOUT, and the flag is cleared all the same.
ExpiredReturns(t) ==
  /\ th[t] = "expired"
  /\ Take(t)
  /\ UNCHANGED heard

\* The system wakes one of the sleepers, if there is one.
Woken(now) ==
  LET asleep == {t \in Threads : now[t] = "sleeps"} IN
  IF asleep = {} THEN {now} ELSE {[now EXCEPT ![t] = "woken"] : t \in asleep}

cond_signal(t) ==
  /\ build = "posix"
  /\ th[t] = "out" /\ signals < MaxSignals
  /\ flag' = TRUE /\ signals' = signals + 1
  /\ th' \in Woken(th)
  /\ UNCHANGED <<build, heard>>

\* Windows: the flag first, the wake up after the critical section.
cond_signal_set(t) ==
  /\ build = "windows"
  /\ th[t] = "out" /\ signals < MaxSignals
  /\ flag' = TRUE /\ signals' = signals + 1
  /\ th' = [th EXCEPT ![t] = "leaving"]
  /\ UNCHANGED <<build, heard>>

cond_signal_wake(t) ==
  /\ th[t] = "leaving"
  /\ th' \in Woken([th EXCEPT ![t] = "out"])
  /\ UNCHANGED <<build, flag, signals, heard>>

cond_clear(t) ==
  /\ th[t] = "out"
  /\ flag' = FALSE
  /\ UNCHANGED <<build, th, signals, heard>>

CondStep(t) ==
  \/ cond_wait(t) \/ Spurious(t) \/ Expires(t) \/ WokenReturns(t) \/ ExpiredReturns(t)
  \/ cond_signal(t) \/ cond_signal_set(t) \/ cond_signal_wake(t) \/ cond_clear(t)

CondNext == \E t \in Threads : CondStep(t)

CondSpec == CondInit /\ [][CondNext]_condVars

CondTypeOK ==
  /\ build \in {"posix", "windows"} /\ flag \in BOOLEAN
  /\ th \in [Threads -> {"out", "sleeps", "woken", "expired", "leaving"}]
  /\ signals \in Nat /\ heard \in Nat

(***************************************************************************)
(* Nobody sleeps through a signal: while one stands, every thread is awake *)
(* or one of them is on its way to take it, or the signaller is about to   *)
(* wake one (platform.c:944-1057; windows 997-1087).                       *)
(***************************************************************************)
SignalWakes ==
  flag /\ (\E t \in Threads : th[t] = "sleeps")
    => \E t \in Threads : th[t] \in {"woken", "expired", "leaving"}

(***************************************************************************)
(* A wait that returns OK was signalled, each by a signal of its own,      *)
(* though the system may wake a thread for no reason (platform.c:976-1009).*)
(***************************************************************************)
HeardIsSignalled == heard + (IF flag THEN 1 ELSE 0) <= signals

(***************************************************************************)
(* A condition variable loses no signal and makes none up: SignalWakes and *)
(* HeardIsSignalled, for any number of threads (platform.c:944-1057).      *)
(***************************************************************************)
CondInv == CondTypeOK /\ SignalWakes /\ HeardIsSignalled
=============================================================================
