-------------------------- MODULE SessionPoolProofs --------------------------
(***************************************************************************)
(* Proofs about SessionPool, for any number of tags, sessions and failures. *)
(* The inductive invariant says whose session is whose (UsersAgree), where  *)
(* it is in the list (FirstOfList), how far its creator has come            *)
(* (ThreadsAgree) and what the cleanup thread has still to do (JobsAgree).  *)
(***************************************************************************)
EXTENDS SessionPool, ListLemmas

\* Which provers to try on a step that names none, and for how many seconds.
USE SMTT(30), ZenonT(30), Z3T(30)

Creating(t) == at[t] \in {"new", "init"}

UsersAgree ==
  /\ \A t \in PoolTags, s \in Sessions : t \in users[s] <=> sessionOf[t] = s
  /\ \A t \in PoolTags : sessionOf[t] = NoSession <=> at[t] \in {"none", "gone"}
  /\ \A t \in PoolTags, s \in Sessions : t \in users[s] => sess[s].key = Key[t]
  /\ \A s \in Sessions : users[s] # {} => sess[s].phase = "live"

\* A session that a tag that shares is on is the first one in the list that the
\* tag could be on.
FirstOfList ==
  /\ Distinct(sessions)
  /\ \A s \in Sessions : s \in Elements(sessions) <=> sess[s].phase = "live"
  /\ \A i, j \in 1 .. Len(sessions) :
       /\ i < j /\ sess[sessions[i]].key = sess[sessions[j]].key
       /\ users[sessions[j]] \ Private # {}
       => users[sessions[i]] = {} \/ sess[sessions[i]].failed

\* A session has one creator at a time, and its thread only after it.
ThreadsAgree ==
  /\ \A t \in PoolTags : Creating(t) =>
       /\ sess[sessionOf[t]].thread = "none" /\ ~ sess[sessionOf[t]].failed
       /\ at[t] = "init" => sess[sessionOf[t]].mutex
  /\ \A t, u \in PoolTags : Creating(t) /\ Creating(u) /\ sessionOf[t] = sessionOf[u] => t = u
  /\ \A s \in Sessions : sess[s].thread # "none" => sess[s].mutex /\ ~ sess[s].failed
  /\ \A t \in PoolTags : at[t] = "attached" /\ t \notin early => sess[sessionOf[t]].thread # "none"
  /\ \A s \in Sessions : sess[s].phase = "freed" => sess[s].thread # "running"

JobsAgree ==
  /\ Distinct(jobs)
  /\ \A t \in PoolTags : t \in Elements(jobs) => at[t] = "queued"
  /\ \A s \in Sessions : s \in Elements(jobs) => users[s] = {} /\ sess[s].phase # "none"
  /\ down \in {"handlers", "down"} => sessions = <<>>

SessionInv == PoolTypeOK /\ UsersAgree /\ FirstOfList /\ ThreadsAgree /\ JobsAgree

\* The session objects have their types.
SessionRecords ==
  [key: {Key[t] : t \in PoolTags} \cup {NoSession},
   mutex: BOOLEAN, failed: BOOLEAN, terminating: BOOLEAN,
   thread: {"none", "running", "exited"}, phase: {"none", "live", "joining", "freed"}]

LEMMA SessTyped ==
  ASSUME SessionInv
  PROVE  sess \in [Sessions -> SessionRecords]
BY DEF SessionInv, PoolTypeOK, SessionRecords

LEMMA StagesSet == Elements(Stages) = {"up", "closing", "list", "handlers", "down"}
BY DEF Elements, Stages

LEMMA ListInSessions ==
  ASSUME SessionInv
  PROVE  /\ \A i \in 1 .. Len(sessions) : sessions[i] \in Sessions
         /\ \A t \in PoolTags : at[t] \notin {"none", "gone"} =>
              sessionOf[t] \in Sessions /\ t \in users[sessionOf[t]]
BY DEF SessionInv, PoolTypeOK, UsersAgree

LEMMA SessionInvInit == PoolInit => SessionInv
<1> SUFFICES ASSUME PoolInit PROVE SessionInv
  OBVIOUS
<1>1. PoolTypeOK
  BY SessionPoolAssumption, StagesSet DEF PoolInit, PoolTypeOK, NewSession
<1>2. UsersAgree
  BY SessionPoolAssumption DEF PoolInit, UsersAgree
<1>3. FirstOfList
  BY DEF PoolInit, FirstOfList, Distinct, Elements, NewSession
<1>4. ThreadsAgree
  BY DEF PoolInit, ThreadsAgree, Creating, NewSession
<1>5. JobsAgree
  BY DEF PoolInit, JobsAgree, Distinct, Elements
<1> QED BY <1>1, <1>2, <1>3, <1>4, <1>5 DEF SessionInv

\* Either a session matches, and the first one is found, or none does.
LEMMA FindsFirst ==
  ASSUME Least, SessionInv, NEW t \in PoolTags, find_session_by_host_unsafe(t) = {}
  PROVE  \A i \in 1 .. Len(sessions) : ~ Matches(t, i)
<1> DEFINE M == {i \in 1 .. Len(sessions) : Matches(t, i)}
<1> SUFFICES ASSUME M # {} PROVE FALSE
  OBVIOUS
<1>1. M \in SUBSET Nat
  OBVIOUS
<1>2. PICK i \in M : \A k \in M : i <= k
  BY <1>1, Zenon DEF Least
<1>3. \A k \in 1 .. i - 1 : ~ Matches(t, k)
  <2> SUFFICES ASSUME NEW k \in 1 .. i - 1, Matches(t, k) PROVE FALSE
    OBVIOUS
  <2>1. i \in 1 .. Len(sessions) /\ Len(sessions) \in Nat
    BY DEF SessionInv, PoolTypeOK
  <2>2. k \in 1 .. Len(sessions) /\ ~ (i <= k)
    BY <2>1
  <2> QED BY <2>2, <1>2
<1>4. i \in DOMAIN sessions
  BY DEF SessionInv, PoolTypeOK
<1> QED BY <1>3, <1>4 DEF find_session_by_host_unsafe

\* Tag t joins a session that it found.
LEMMA JoinKeeps ==
  ASSUME SessionInv, NEW t \in PoolTags \ Private, NEW i \in 1 .. Len(sessions),
         at[t] = "none", Matches(t, i), \A k \in 1 .. i - 1 : ~ Matches(t, k),
         sessionOf' = [sessionOf EXCEPT ![t] = sessions[i]],
         users' = [users EXCEPT ![sessions[i]] = @ \cup {t}],
         early' = IF sess[sessions[i]].thread = "none" THEN early \cup {t} ELSE early,
         at' = [at EXCEPT ![t] = "attached"],
         UNCHANGED <<brand, sess, sessions, jobs, down, failed>>
  PROVE  SessionInv'
<1> DEFINE s == sessions[i]
<1>1. /\ s \in Sessions /\ users[s] # {} /\ ~ sess[s].failed /\ sess[s].key = Key[t]
      /\ sess[s].phase = "live"
  BY ListInSessions DEF Matches, session_match_valid, SessionInv, UsersAgree
<1>2. t \in PoolTags /\ sessionOf[t] = NoSession
  BY DEF SessionInv, UsersAgree
<1>3. PoolTypeOK'
  BY <1>1 DEF SessionInv, PoolTypeOK
<1>4. UsersAgree'
  BY <1>1, <1>2, SessionPoolAssumption DEF SessionInv, PoolTypeOK, UsersAgree
<1>5. FirstOfList'
  <2>1. Distinct(sessions') /\ \A q \in Sessions : (q \in Elements(sessions) <=> sess[q].phase = "live")'
    BY DEF SessionInv, FirstOfList
  <2>2. ASSUME NEW k \in 1 .. Len(sessions), NEW j \in 1 .. Len(sessions), k < j,
               sess[sessions[k]].key = sess[sessions[j]].key,
               users'[sessions[j]] \ Private # {}
        PROVE  users'[sessions[k]] = {} \/ sess[sessions[k]].failed
    <3>1. CASE j = i
      <4>1. k \in 1 .. i - 1 /\ sessions[k] \in Sessions /\ sessions[k] # s
        BY <2>2, <3>1, ListInSessions DEF SessionInv, PoolTypeOK, FirstOfList, Distinct
      <4>2. ~ Matches(t, k)
        BY <4>1
      <4>3. users[sessions[k]] = {} \/ sess[sessions[k]].failed
        BY <4>2, <1>1, <2>2, <3>1 DEF Matches, session_match_valid
      <4> QED BY <4>1, <4>3 DEF SessionInv, PoolTypeOK
    <3>2. CASE j # i
      <4>1. sessions[j] # s /\ sessions[j] \in Sessions /\ sessions[k] \in Sessions
        BY <3>2, ListInSessions, Zenon DEF SessionInv, FirstOfList, Distinct
      <4>2. users[sessions[j]] \ Private # {}
        BY <2>2, <4>1 DEF SessionInv, PoolTypeOK
      <4>3. users[sessions[k]] = {} \/ sess[sessions[k]].failed
        BY <2>2, <4>2 DEF SessionInv, FirstOfList
      <4>4. sessions[k] = s => sess[sessions[k]].failed
        BY <4>3, <1>1
      <4> QED BY <4>1, <4>3, <4>4 DEF SessionInv, PoolTypeOK
    <3> QED BY <3>1, <3>2
  <2> QED BY <2>1, <2>2 DEF FirstOfList
<1>6. ThreadsAgree'
  BY <1>1, <1>2, ListInSessions DEF SessionInv, PoolTypeOK, ThreadsAgree, Creating
<1>7. JobsAgree'
  BY <1>1, <1>2 DEF SessionInv, PoolTypeOK, JobsAgree
<1> QED BY <1>3, <1>4, <1>5, <1>6, <1>7 DEF SessionInv

LEMMA FreshIsUnused ==
  ASSUME NEW s \in {Fresh} \cap Sessions
  PROVE  sess[s].phase = "none"
<1> DEFINE free == {q \in Sessions : sess[q].phase = "none"}
<1>1. CASE free = {}
  BY <1>1, SessionPoolAssumption DEF Fresh
<1>2. CASE free # {}
  <2>1. Fresh = CHOOSE q \in free : TRUE
    BY <1>2 DEF Fresh
  <2>2. Fresh \in free
    BY <1>2, <2>1
  <2> QED BY <2>2
<1> QED BY <1>1, <1>2

\* Tag t makes a session, when it shares none or finds none.
LEMMA CreateKeeps ==
  ASSUME SessionInv, NEW t \in PoolTags, NEW s \in Sessions, down = "up",
         at[t] = "none", sess[s].phase = "none",
         t \notin Private => \A i \in 1 .. Len(sessions) : ~ Matches(t, i),
         sess' = [sess EXCEPT ![s] = [NewSession(Key[t]) EXCEPT !.phase = "live"]],
         sessionOf' = [sessionOf EXCEPT ![t] = s],
         users' = [users EXCEPT ![s] = {t}],
         sessions' = Append(sessions, s),
         at' = [at EXCEPT ![t] = "new"],
         UNCHANGED <<brand, early, jobs, down, failed>>
  PROVE  SessionInv'
<1>1. /\ s \notin Elements(sessions) /\ users[s] = {} /\ s \notin Elements(jobs)
      /\ \A u \in PoolTags : sessionOf[u] # s
  BY DEF SessionInv, FirstOfList, UsersAgree, JobsAgree
<1>2. /\ sessions' \in Seq(Sessions) /\ Distinct(sessions')
      /\ Elements(sessions') = Elements(sessions) \cup {s}
      /\ Len(sessions') = Len(sessions) + 1 /\ sessions'[Len(sessions) + 1] = s
      /\ \A i \in 1 .. Len(sessions) : sessions'[i] = sessions[i]
  BY <1>1, AppendElements DEF SessionInv, PoolTypeOK, FirstOfList
<1>3. sessionOf[t] = NoSession
  BY DEF SessionInv, UsersAgree
<1>4. sess'[s] = [key |-> Key[t], mutex |-> FALSE, failed |-> FALSE, terminating |-> FALSE,
                  thread |-> "none", phase |-> "live"]
      /\ \A q \in Sessions : q # s => sess'[q] = sess[q]
  BY Zenon DEF SessionInv, PoolTypeOK, NewSession
<1>5. PoolTypeOK'
  <2>1. sess' \in [Sessions -> [key: {Key[u] : u \in PoolTags} \cup {NoSession},
                            mutex: BOOLEAN, failed: BOOLEAN, terminating: BOOLEAN,
                            thread: {"none", "running", "exited"},
                            phase: {"none", "live", "joining", "freed"}]]
    BY Zenon DEF SessionInv, PoolTypeOK, NewSession
  <2>2. at' \in [PoolTags -> {"none", "new", "init", "attached", "queued", "gone"}]
    BY DEF SessionInv, PoolTypeOK
  <2>3. sessionOf' \in [PoolTags -> Sessions \cup {NoSession}] /\ users' \in [Sessions -> SUBSET PoolTags]
    BY DEF SessionInv, PoolTypeOK
  <2> QED BY <1>2, <2>1, <2>2, <2>3 DEF SessionInv, PoolTypeOK
<1>6. UsersAgree'
  BY <1>1, <1>3, <1>4, SessionPoolAssumption DEF SessionInv, PoolTypeOK, UsersAgree
<1>7. FirstOfList'
  <2>1. \A q \in Sessions : (q \in Elements(sessions) <=> sess[q].phase = "live")'
    BY <1>2, <1>4 DEF SessionInv, FirstOfList
  <2>2. ASSUME NEW k \in 1 .. Len(sessions'), NEW j \in 1 .. Len(sessions'), k < j,
               sess'[sessions'[k]].key = sess'[sessions'[j]].key,
               users'[sessions'[j]] \ Private # {}
        PROVE  users'[sessions'[k]] = {} \/ sess'[sessions'[k]].failed
    <3>0. Len(sessions) \in Nat
      BY DEF SessionInv, PoolTypeOK
    <3>1. k \in 1 .. Len(sessions)
      BY <2>2, <1>2, <3>0
    <3>2. sessions'[k] = sessions[k] /\ sessions[k] \in Sessions /\ sessions[k] # s
      BY <3>1, <1>1, <1>2, ListInSessions DEF Elements
    <3>3. users'[sessions[k]] = users[sessions[k]] /\ sess'[sessions[k]] = sess[sessions[k]]
      BY <3>2, <1>4 DEF SessionInv, PoolTypeOK
    <3>4. CASE j = Len(sessions) + 1
      <4>1. users'[s] = {t} /\ sess'[s].key = Key[t]
        BY <1>4 DEF SessionInv, PoolTypeOK
      <4>2. t \notin Private /\ sess[sessions[k]].key = Key[t]
        BY <2>2, <3>2, <3>3, <3>4, <4>1, <1>2
      <4> QED BY <3>1, <3>2, <3>3, <4>2 DEF Matches, session_match_valid
    <3>5. CASE j \in 1 .. Len(sessions)
      <4>1. sessions'[j] = sessions[j] /\ sessions[j] \in Sessions /\ sessions[j] # s
        BY <3>5, <1>1, <1>2, ListInSessions DEF Elements
      <4>2. users'[sessions[j]] = users[sessions[j]] /\ sess'[sessions[j]] = sess[sessions[j]]
        BY <4>1, <1>4 DEF SessionInv, PoolTypeOK
      <4> QED BY <2>2, <3>1, <3>2, <3>3, <3>5, <4>1, <4>2 DEF SessionInv, FirstOfList
    <3>6. j = Len(sessions) + 1 \/ j \in 1 .. Len(sessions)
      BY <3>0, <1>2
    <3> QED BY <3>4, <3>5, <3>6, Zenon
  <2> QED BY <1>2, <2>1, <2>2, Zenon DEF FirstOfList
<1>8. ThreadsAgree'
  BY <1>1, <1>3, <1>4, ListInSessions DEF SessionInv, PoolTypeOK, UsersAgree, ThreadsAgree, Creating
<1>9. JobsAgree'
  BY <1>1, <1>4 DEF SessionInv, PoolTypeOK, JobsAgree
<1> QED BY <1>5, <1>6, <1>7, <1>8, <1>9 DEF SessionInv

LEMMA FindOrCreateKeeps ==
  ASSUME Least, SessionInv, NEW t \in PoolTags, session_find_or_create(t)
  PROVE  SessionInv'
<1> DEFINE found == IF t \in Private THEN {} ELSE find_session_by_host_unsafe(t)
<1>1. CASE \E i \in found :
             /\ sessionOf' = [sessionOf EXCEPT ![t] = sessions[i]]
             /\ users' = [users EXCEPT ![sessions[i]] = @ \cup {t}]
             /\ early' = IF sess[sessions[i]].thread = "none" THEN early \cup {t} ELSE early
             /\ at' = [at EXCEPT ![t] = "attached"]
             /\ UNCHANGED <<sess, sessions>>
  <2>1. PICK i \in found :
             /\ sessionOf' = [sessionOf EXCEPT ![t] = sessions[i]]
             /\ users' = [users EXCEPT ![sessions[i]] = @ \cup {t}]
             /\ early' = IF sess[sessions[i]].thread = "none" THEN early \cup {t} ELSE early
             /\ at' = [at EXCEPT ![t] = "attached"]
             /\ UNCHANGED <<sess, sessions>>
    BY <1>1, Zenon
  <2>2. /\ t \in PoolTags \ Private /\ i \in DOMAIN sessions
        /\ Matches(t, i) /\ \A k \in 1 .. i - 1 : ~ Matches(t, k)
    BY DEF find_session_by_host_unsafe
  <2>3. i \in 1 .. Len(sessions)
    BY <2>2 DEF SessionInv, PoolTypeOK
  <2>4. at[t] = "none" /\ UNCHANGED <<brand, jobs, down, failed>>
    BY DEF session_find_or_create
  <2> QED BY <2>1, <2>2, <2>3, <2>4, JoinKeeps, Zenon
<1>2. CASE /\ found = {}
           /\ \E s \in {Fresh} \cap Sessions :
               /\ sess' = [sess EXCEPT ![s] = [NewSession(Key[t]) EXCEPT !.phase = "live"]]
               /\ sessionOf' = [sessionOf EXCEPT ![t] = s]
               /\ users' = [users EXCEPT ![s] = {t}]
               /\ sessions' = add_session_unsafe(s)
           /\ at' = [at EXCEPT ![t] = "new"]
           /\ UNCHANGED early
  <2>1. PICK s \in {Fresh} \cap Sessions :
               /\ sess' = [sess EXCEPT ![s] = [NewSession(Key[t]) EXCEPT !.phase = "live"]]
               /\ sessionOf' = [sessionOf EXCEPT ![t] = s]
               /\ users' = [users EXCEPT ![s] = {t}]
               /\ sessions' = Append(sessions, s)
    BY <1>2, Zenon DEF add_session_unsafe
  <2>2. sess[s].phase = "none" /\ s \in Sessions
    BY FreshIsUnused
  <2>3. t \notin Private => \A i \in 1 .. Len(sessions) : ~ Matches(t, i)
    BY <1>2, FindsFirst
  <2>4. down = "up" /\ at[t] = "none" /\ UNCHANGED <<brand, jobs, down, failed>>
    BY DEF session_find_or_create
  <2> QED BY <1>2, <2>1, <2>2, <2>3, <2>4, CreateKeeps, Zenon
<1> QED BY <1>1, <1>2 DEF session_find_or_create

\* Sessions keep their place in the list, their keys and their failures, and
\* users only leave.
LEMMA FirstKept ==
  ASSUME SessionInv, UNCHANGED sessions,
         \A q \in Sessions : /\ sess'[q].key = sess[q].key
                             /\ sess[q].failed => sess'[q].failed
                             /\ sess'[q].phase = "live" <=> sess[q].phase = "live"
                             /\ users'[q] \subseteq users[q]
  PROVE  FirstOfList'
<1>1. Distinct(sessions') /\ \A q \in Sessions : (q \in Elements(sessions) <=> sess[q].phase = "live")'
  BY DEF SessionInv, FirstOfList
<1>2. ASSUME NEW i \in 1 .. Len(sessions), NEW j \in 1 .. Len(sessions), i < j,
             sess'[sessions[i]].key = sess'[sessions[j]].key, users'[sessions[j]] \ Private # {}
      PROVE  users'[sessions[i]] = {} \/ sess'[sessions[i]].failed
  <2>1. sessions[i] \in Sessions /\ sessions[j] \in Sessions
    BY ListInSessions
  <2>2. sess[sessions[i]].key = sess[sessions[j]].key /\ users[sessions[j]] \ Private # {}
    BY <1>2, <2>1
  <2>3. users[sessions[i]] = {} \/ sess[sessions[i]].failed
    BY <1>2, <2>2 DEF SessionInv, FirstOfList
  <2> QED BY <2>1, <2>3
<1> QED BY <1>1, <1>2 DEF FirstOfList

LEMMA InitMutexKeeps ==
  ASSUME SessionInv, NEW t \in PoolTags, InitMutex(t)
  PROVE  SessionInv'
<1> DEFINE s == sessionOf[t]
<1>1. s \in Sessions /\ at[t] = "new"
  BY ListInSessions DEF InitMutex
<1>2. sess' = [sess EXCEPT ![s] = [@ EXCEPT !.mutex = TRUE]]
  BY DEF InitMutex
<1>3. \A q \in Sessions : /\ sess'[q].key = sess[q].key /\ sess'[q].failed = sess[q].failed
                          /\ sess'[q].thread = sess[q].thread /\ sess'[q].phase = sess[q].phase
                          /\ sess'[q].mutex = (q = s \/ sess[q].mutex)
  BY <1>1, <1>2, ZenonT(30) DEF SessionInv, PoolTypeOK
<1> HIDE DEF s
<1>4. PoolTypeOK'
  <2>1. sess' \in [Sessions -> SessionRecords]
    <3>1. [sess[s] EXCEPT !.mutex = TRUE] \in SessionRecords
      BY <1>1, SessTyped, Zenon DEF SessionRecords
    <3> QED BY <1>1, <1>2, <3>1, SessTyped
  <2> QED BY <2>1 DEF SessionInv, PoolTypeOK, SessionRecords, InitMutex
<1>5. UsersAgree'
  BY <1>3 DEF SessionInv, PoolTypeOK, UsersAgree, InitMutex
<1>6. FirstOfList'
  BY <1>3, FirstKept DEF InitMutex
<1>7. ThreadsAgree'
  BY <1>3, ListInSessions DEF SessionInv, PoolTypeOK, ThreadsAgree, Creating, InitMutex, s
<1>8. JobsAgree'
  BY <1>3 DEF SessionInv, PoolTypeOK, JobsAgree, InitMutex
<1> QED BY <1>4, <1>5, <1>6, <1>7, <1>8 DEF SessionInv

LEMMA InitThreadKeeps ==
  ASSUME SessionInv, NEW t \in PoolTags, InitThread(t)
  PROVE  SessionInv'
<1> DEFINE s == sessionOf[t]
<1>1. s \in Sessions /\ at[t] = "init" /\ sess[s].phase = "live" /\ sess[s].mutex /\ ~ sess[s].failed
  BY ListInSessions DEF InitThread, SessionInv, UsersAgree, ThreadsAgree, Creating
<1>2. sess' = [sess EXCEPT ![s] = [@ EXCEPT !.thread = "running"]]
  BY DEF InitThread
<1>3. \A q \in Sessions : /\ sess'[q].key = sess[q].key /\ sess'[q].failed = sess[q].failed
                          /\ sess'[q].mutex = sess[q].mutex /\ sess'[q].phase = sess[q].phase
                          /\ sess'[q].thread = IF q = s THEN "running" ELSE sess[q].thread
  BY <1>1, <1>2 DEF SessionInv, PoolTypeOK
<1>4. \A u \in PoolTags : Creating(u) /\ sessionOf[u] = s => u = t
  BY <1>1 DEF SessionInv, ThreadsAgree, Creating
<1>5. PoolTypeOK'
  <2>1. sess' \in [Sessions -> SessionRecords]
    <3>1. [sess[s] EXCEPT !.thread = "running"] \in SessionRecords
      BY <1>1, SessTyped DEF SessionRecords
    <3> QED BY <1>1, <1>2, <3>1, SessTyped
  <2> QED BY <2>1, SMTT(20) DEF SessionInv, PoolTypeOK, SessionRecords, InitThread
<1>6. UsersAgree'
  BY <1>3 DEF SessionInv, PoolTypeOK, UsersAgree, InitThread
<1>7. FirstOfList'
  BY <1>3, FirstKept DEF InitThread
<1>8. ThreadsAgree'
  <2>1. \A u \in PoolTags : Creating(u)' => Creating(u) /\ u # t /\ sessionOf[u] # s
    BY <1>4 DEF Creating, InitThread, SessionInv, PoolTypeOK
  <2>2. \A u \in PoolTags : at'[u] = "init" => at[u] = "init"
    BY DEF InitThread, SessionInv, PoolTypeOK
  <2>3. \A u \in PoolTags : Creating(u)' =>
          /\ sess'[sessionOf'[u]].thread = "none" /\ ~ sess'[sessionOf'[u]].failed
          /\ at'[u] = "init" => sess'[sessionOf'[u]].mutex
    BY <1>3, <2>1, <2>2, ListInSessions DEF SessionInv, ThreadsAgree, Creating, InitThread
  <2>4. \A u, v \in PoolTags : (Creating(u) /\ Creating(v) /\ sessionOf[u] = sessionOf[v])' => u = v
    BY <2>1 DEF SessionInv, ThreadsAgree, InitThread
  <2>5. \A q \in Sessions : sess'[q].thread # "none" => sess'[q].mutex /\ ~ sess'[q].failed
    BY <1>1, <1>3 DEF SessionInv, ThreadsAgree
  <2>6. \A u \in PoolTags : at'[u] = "attached" /\ u \notin early' => sess'[sessionOf'[u]].thread # "none"
    BY <1>3, ListInSessions DEF SessionInv, PoolTypeOK, ThreadsAgree, InitThread
  <2>7. \A q \in Sessions : sess'[q].phase = "freed" => sess'[q].thread # "running"
    BY <1>1, <1>3 DEF SessionInv, ThreadsAgree
  <2> QED BY <2>3, <2>4, <2>5, <2>6, <2>7 DEF ThreadsAgree
<1>9. JobsAgree'
  BY <1>3 DEF SessionInv, PoolTypeOK, JobsAgree, InitThread
<1> QED BY <1>5, <1>6, <1>7, <1>8, <1>9 DEF SessionInv

\* Tag t, which no job of js is about, leaves its session: that may be marked as
\* failed if no thread serves it.
LEMMA LeaveKeeps ==
  ASSUME SessionInv, NEW t \in PoolTags, NEW js \in Seq(PoolTags \cup Sessions), Leave(t, js),
         at[t] \in {"new", "init", "queued"}, at' = [at EXCEPT ![t] = "gone"],
         Distinct(js), Elements(js) \subseteq Elements(jobs), t \notin Elements(js),
         \A q \in Sessions : /\ sess'[q].key = sess[q].key /\ sess'[q].phase = sess[q].phase
                             /\ sess'[q].mutex = sess[q].mutex /\ sess'[q].thread = sess[q].thread
                             /\ sess[q].failed => sess'[q].failed
                             /\ sess'[q].failed /\ ~ sess[q].failed =>
                                  q = sessionOf[t] /\ at[t] \in {"new", "init"},
         PoolTypeOK => (failed' \in 0 .. InitFailures /\ sess' \in [Sessions -> SessionRecords]),
         UNCHANGED <<brand, early, sessions, down>>
  PROVE  SessionInv'
<1> DEFINE s == sessionOf[t]
<1>1. s \in Sessions /\ t \in users[s] /\ sess[s].phase = "live" /\ s \notin Elements(jobs)
  BY ListInSessions DEF SessionInv, UsersAgree, JobsAgree
<1>2. /\ users' = [users EXCEPT ![s] = @ \ {t}]
      /\ sessionOf' = [sessionOf EXCEPT ![t] = NoSession]
      /\ jobs' = IF users[s] = {t} THEN Append(js, s) ELSE js
  BY DEF Leave
<1>3. /\ jobs' \in Seq(PoolTags \cup Sessions) /\ Distinct(jobs')
      /\ Elements(jobs') = IF users[s] = {t} THEN Elements(js) \cup {s} ELSE Elements(js)
  <2>1. s \notin Elements(js) /\ s \in PoolTags \cup Sessions
    BY <1>1
  <2>2. /\ Append(js, s) \in Seq(PoolTags \cup Sessions) /\ Distinct(Append(js, s))
        /\ Elements(Append(js, s)) = Elements(js) \cup {s}
    BY <2>1, AppendElements
  <2> QED BY <1>2, <2>2, Zenon
<1> HIDE DEF s
<1>4. PoolTypeOK'
  BY <1>1, <1>2, <1>3 DEF SessionInv, PoolTypeOK, SessionRecords
<1>5. UsersAgree'
  BY <1>1, <1>2, SessionPoolAssumption DEF SessionInv, PoolTypeOK, UsersAgree, s
<1>6. FirstOfList'
  BY <1>1, <1>2, FirstKept DEF SessionInv, PoolTypeOK
<1>7. ThreadsAgree'
  <2>1. \A u \in PoolTags : (at'[u] # "gone" => u # t /\ sessionOf'[u] = sessionOf[u] /\ at'[u] = at[u])
    BY <1>2 DEF SessionInv, PoolTypeOK
  <2>2. \A u \in PoolTags : Creating(u)' => Creating(u) /\ u # t /\ sessionOf'[u] = sessionOf[u]
    BY <2>1 DEF Creating
  <2>3. \A u \in PoolTags : Creating(u) /\ u # t => (Creating(t) => sessionOf[u] # s)
    BY DEF SessionInv, ThreadsAgree, s
  <2>4. \A u \in PoolTags : Creating(u)' =>
          /\ sess'[sessionOf'[u]].thread = "none" /\ ~ sess'[sessionOf'[u]].failed
          /\ at'[u] = "init" => sess'[sessionOf'[u]].mutex
    <3> SUFFICES ASSUME NEW u \in PoolTags, Creating(u)'
                 PROVE  /\ sess'[sessionOf'[u]].thread = "none" /\ ~ sess'[sessionOf'[u]].failed
                        /\ at'[u] = "init" => sess'[sessionOf'[u]].mutex
      OBVIOUS
    <3>1. Creating(u) /\ u # t /\ sessionOf'[u] = sessionOf[u] /\ at'[u] = at[u]
      BY <2>1, <2>2 DEF Creating
    <3>2. sessionOf[u] \in Sessions
      BY <3>1, ListInSessions DEF Creating
    <3>3. /\ sess[sessionOf[u]].thread = "none" /\ ~ sess[sessionOf[u]].failed
          /\ at[u] = "init" => sess[sessionOf[u]].mutex
      BY <3>1 DEF SessionInv, ThreadsAgree
    <3>4. ~ sess'[sessionOf[u]].failed
      BY <2>3, <3>1, <3>2, <3>3 DEF s, Creating
    <3> QED BY <3>1, <3>2, <3>3, <3>4
  <2>5. \A u, v \in PoolTags : (Creating(u) /\ Creating(v) /\ sessionOf[u] = sessionOf[v])' => u = v
    BY <2>2 DEF SessionInv, ThreadsAgree
  <2>6. \A q \in Sessions : sess'[q].thread # "none" => sess'[q].mutex /\ ~ sess'[q].failed
    <3>1. Creating(t) => sess[s].thread = "none"
      BY DEF SessionInv, ThreadsAgree, s
    <3> QED BY <3>1 DEF SessionInv, ThreadsAgree, Creating, s
  <2>7. \A u \in PoolTags : at'[u] = "attached" /\ u \notin early' => sess'[sessionOf'[u]].thread # "none"
    BY <2>1, ListInSessions DEF SessionInv, ThreadsAgree
  <2>8. \A q \in Sessions : sess'[q].phase = "freed" => sess'[q].thread # "running"
    BY DEF SessionInv, ThreadsAgree
  <2> QED BY <2>4, <2>5, <2>6, <2>7, <2>8 DEF ThreadsAgree
<1>8. JobsAgree'
  <2>1. \A u \in PoolTags : u \in Elements(jobs') => at'[u] = "queued"
    BY <1>1, <1>3, SessionPoolAssumption DEF SessionInv, PoolTypeOK, JobsAgree
  <2>2. \A q \in Sessions : q \in Elements(jobs') => users'[q] = {} /\ sess'[q].phase # "none"
    BY <1>1, <1>2, <1>3 DEF SessionInv, PoolTypeOK, JobsAgree
  <2> QED BY <1>3, <2>1, <2>2 DEF SessionInv, JobsAgree
<1> QED BY <1>4, <1>5, <1>6, <1>7, <1>8 DEF SessionInv

LEMMA InitFailsKeeps ==
  ASSUME SessionInv, NEW t \in PoolTags, InitFails(t)
  PROVE  SessionInv'
<1>1. sessionOf[t] \in Sessions /\ at[t] \in {"new", "init"}
  BY ListInSessions DEF InitFails
<1>2. sess' = [sess EXCEPT ![sessionOf[t]] = [@ EXCEPT !.failed = TRUE]]
  BY DEF InitFails
<1>3. \A q \in Sessions : /\ sess'[q].key = sess[q].key /\ sess'[q].phase = sess[q].phase
                          /\ sess'[q].mutex = sess[q].mutex /\ sess'[q].thread = sess[q].thread
                          /\ sess'[q].failed = (q = sessionOf[t] \/ sess[q].failed)
  BY <1>1, <1>2, ZenonT(30) DEF SessionInv, PoolTypeOK
<1>4. sess' \in [Sessions -> SessionRecords]
  <2> DEFINE o == sess[sessionOf[t]]
  <2>0. o \in SessionRecords
    BY <1>1, SessTyped
  <2> HIDE DEF o
  <2>1. [o EXCEPT !.failed = TRUE] \in SessionRecords
    BY <2>0, Zenon DEF SessionRecords
  <2> QED BY <1>1, <1>2, <2>1, SessTyped DEF o
<1>5. failed' \in 0 .. InitFailures
  BY SessionPoolAssumption DEF InitFails, SessionInv, PoolTypeOK
<1>6. jobs \in Seq(PoolTags \cup Sessions) /\ Distinct(jobs) /\ t \notin Elements(jobs)
  BY <1>1 DEF SessionInv, PoolTypeOK, JobsAgree
<1>7. /\ Leave(t, jobs) /\ at' = [at EXCEPT ![t] = "gone"]
      /\ UNCHANGED <<brand, early, sessions, down>>
  BY DEF InitFails
<1>8. \A q \in Sessions : /\ sess'[q].key = sess[q].key /\ sess'[q].phase = sess[q].phase
                          /\ sess'[q].mutex = sess[q].mutex /\ sess'[q].thread = sess[q].thread
                          /\ sess[q].failed => sess'[q].failed
                          /\ sess'[q].failed /\ ~ sess[q].failed =>
                               q = sessionOf[t] /\ at[t] \in {"new", "init"}
  BY <1>1, <1>3, Zenon
<1> QED BY <1>1, <1>4, <1>5, <1>6, <1>7, <1>8, LeaveKeeps, Zenon

LEMMA TagDestroyKeeps ==
  ASSUME SessionInv, NEW t \in PoolTags, ab_tag_destroy(t)
  PROVE  SessionInv'
<1>1. /\ jobs \in Seq(PoolTags \cup Sessions) /\ jobs # <<>> /\ Distinct(jobs) /\ Head(jobs) = t
  BY DEF ab_tag_destroy, SessionInv, PoolTypeOK, JobsAgree
<1>2. /\ t \in Elements(jobs) /\ Tail(jobs) \in Seq(PoolTags \cup Sessions)
      /\ Distinct(Tail(jobs)) /\ Elements(Tail(jobs)) = Elements(jobs) \ {t}
  BY <1>1, TailElements
<1>3. at[t] = "queued"
  BY <1>2 DEF SessionInv, JobsAgree
<1>4. failed' \in 0 .. InitFailures /\ sess' \in [Sessions -> SessionRecords]
  BY DEF ab_tag_destroy, SessionInv, PoolTypeOK, SessionRecords
<1>5. /\ Leave(t, Tail(jobs)) /\ at' = [at EXCEPT ![t] = "gone"]
      /\ UNCHANGED <<brand, early, sess, sessions, down>>
  BY DEF ab_tag_destroy
<1> QED BY <1>2, <1>3, <1>4, <1>5, LeaveKeeps, Zenon

LEMMA DestroyUnlistsKeeps ==
  ASSUME SessionInv, NEW s \in Sessions, DestroyUnlists(s)
  PROVE  SessionInv'
<1>1. jobs \in Seq(PoolTags \cup Sessions) /\ jobs # <<>> /\ Distinct(jobs) /\ Head(jobs) = s
  BY DEF DestroyUnlists, SessionInv, PoolTypeOK, JobsAgree
<1>2. s \in Elements(jobs)
  BY <1>1, TailElements
<1>3. sess[s].phase = "live" /\ users[s] = {} /\ \A u \in PoolTags : sessionOf[u] # s
  BY <1>2 DEF SessionInv, JobsAgree, UsersAgree, DestroyUnlists
<1>4. sess' = [sess EXCEPT ![s] = [@ EXCEPT !.terminating = TRUE, !.phase = "joining"]]
  BY DEF DestroyUnlists, SessionInv, PoolTypeOK
<1>5. \A q \in Sessions : /\ sess'[q].key = sess[q].key /\ sess'[q].failed = sess[q].failed
                          /\ sess'[q].mutex = sess[q].mutex /\ sess'[q].thread = sess[q].thread
                          /\ sess'[q].phase = IF q = s THEN "joining" ELSE sess[q].phase
  BY <1>4 DEF SessionInv, PoolTypeOK
<1>6. /\ sessions' \in Seq(Sessions) /\ Distinct(sessions')
      /\ Elements(sessions') = Elements(sessions) \ {s}
      /\ \A i, j \in 1 .. Len(sessions') : i < j =>
           \E k, l \in 1 .. Len(sessions) :
             k < l /\ sessions'[i] = sessions[k] /\ sessions'[j] = sessions[l]
  <2>1. sessions \in Seq(Sessions) /\ Distinct(sessions) /\ sessions' = Unlinked(sessions, s)
    BY DEF SessionInv, PoolTypeOK, FirstOfList, DestroyUnlists, remove_session_unsafe
  <2> DEFINE r == sessions'
  <2>2. r = Unlinked(sessions, s)
    BY <2>1
  <2> HIDE DEF r
  <2>3. r \in Seq(Sessions) /\ Distinct(r) /\ Elements(r) = Elements(sessions) \ {s}
    BY <2>1, <2>2, UnlinkedOrder
  <2>4. \A i, j \in 1 .. Len(r) : i < j =>
          \E k, l \in 1 .. Len(sessions) : k < l /\ r[i] = sessions[k] /\ r[j] = sessions[l]
    <3> DEFINE o == sessions
    <3>1. o \in Seq(Sessions) /\ Distinct(o) /\ r = Unlinked(o, s)
      BY <2>1, <2>2
    <3> HIDE DEF o
    <3>2. \A i, j \in 1 .. Len(r) : i < j =>
            \E k, l \in 1 .. Len(o) : k < l /\ r[i] = o[k] /\ r[j] = o[l]
      BY <3>1, UnlinkedOrder
    <3> QED BY <3>2 DEF o
  <2> QED BY <2>3, <2>4 DEF r
<1>7. PoolTypeOK'
  <2>1. sess' \in [Sessions -> SessionRecords]
    <3>1. [sess[s] EXCEPT !.terminating = TRUE, !.phase = "joining"] \in SessionRecords
      BY SessTyped, Zenon DEF SessionRecords
    <3> QED BY <1>4, <3>1, SessTyped
  <2> QED BY <1>6, <2>1 DEF SessionInv, PoolTypeOK, DestroyUnlists, SessionRecords
<1>8. UsersAgree'
  BY <1>3, <1>5 DEF SessionInv, PoolTypeOK, UsersAgree, DestroyUnlists
<1>9. FirstOfList'
  <2>1. \A q \in Sessions : (q \in Elements(sessions) <=> sess[q].phase = "live")'
    BY <1>5, <1>6 DEF SessionInv, FirstOfList
  <2>2. ASSUME NEW i \in 1 .. Len(sessions'), NEW j \in 1 .. Len(sessions'), i < j,
               sess'[sessions'[i]].key = sess'[sessions'[j]].key,
               users'[sessions'[j]] \ Private # {}
        PROVE  users'[sessions'[i]] = {} \/ sess'[sessions'[i]].failed
    <3>1. PICK k \in 1 .. Len(sessions), l \in 1 .. Len(sessions) :
            k < l /\ sessions'[i] = sessions[k] /\ sessions'[j] = sessions[l]
      BY <1>6, <2>2
    <3>2. sessions[k] \in Sessions /\ sessions[l] \in Sessions
      BY ListInSessions
    <3>3. users' = users
      BY DEF DestroyUnlists
    <3>4. sess[sessions[k]].key = sess[sessions[l]].key /\ users[sessions[l]] \ Private # {}
      BY <1>5, <2>2, <3>1, <3>2, <3>3
    <3>5. users[sessions[k]] = {} \/ sess[sessions[k]].failed
      BY <3>1, <3>4, SMTT(20) DEF SessionInv, FirstOfList
    <3> QED BY <1>5, <3>1, <3>2, <3>3, <3>5
  <2> QED BY <1>6, <2>1, <2>2 DEF FirstOfList
<1>10. ThreadsAgree'
  <2>1. UNCHANGED <<at, sessionOf, early>>
    BY DEF DestroyUnlists
  <2> QED BY <1>5, <2>1, ListInSessions DEF SessionInv, ThreadsAgree, Creating
<1>11. JobsAgree'
  <2>1. sessions # <<>> /\ UNCHANGED <<jobs, users, at, down>>
    BY <1>3 DEF SessionInv, FirstOfList, Elements, DestroyUnlists
  <2>2. down \notin {"handlers", "down"}
    BY <2>1 DEF SessionInv, JobsAgree
  <2> QED BY <1>5, <2>1, <2>2 DEF SessionInv, JobsAgree
<1> QED BY <1>7, <1>8, <1>9, <1>10, <1>11 DEF SessionInv

LEMMA DestroyFreesKeeps ==
  ASSUME SessionInv, NEW s \in Sessions, DestroyFrees(s)
  PROVE  SessionInv'
<1>1. jobs \in Seq(PoolTags \cup Sessions) /\ jobs # <<>> /\ Distinct(jobs) /\ Head(jobs) = s
  BY DEF DestroyFrees, SessionInv, PoolTypeOK, JobsAgree
<1>2. /\ Tail(jobs) \in Seq(PoolTags \cup Sessions)
      /\ Distinct(Tail(jobs)) /\ Elements(Tail(jobs)) = Elements(jobs) \ {s}
  BY <1>1, TailElements
<1>3. sess[s].phase = "joining" /\ sess[s].thread # "running"
  BY DEF DestroyFrees
<1>4. sess' = [sess EXCEPT ![s] = [@ EXCEPT !.phase = "freed"]]
  BY DEF DestroyFrees
<1>5. \A q \in Sessions : /\ sess'[q].key = sess[q].key /\ sess'[q].failed = sess[q].failed
                          /\ sess'[q].mutex = sess[q].mutex /\ sess'[q].thread = sess[q].thread
                          /\ sess'[q].phase = IF q = s THEN "freed" ELSE sess[q].phase
  BY <1>4 DEF SessionInv, PoolTypeOK
<1>6. jobs' = Tail(jobs) /\ UNCHANGED <<brand, at, sessionOf, early, users, sessions, down, failed>>
  BY DEF DestroyFrees
<1>7. PoolTypeOK'
  <2>1. sess' \in [Sessions -> SessionRecords]
    <3>1. [sess[s] EXCEPT !.phase = "freed"] \in SessionRecords
      BY SessTyped DEF SessionRecords
    <3> QED BY <1>4, <3>1, SessTyped
  <2> QED BY <1>2, <1>6, <2>1 DEF SessionInv, PoolTypeOK, SessionRecords
<1>8. UsersAgree'
  BY <1>3, <1>5, <1>6 DEF SessionInv, UsersAgree
<1>9. FirstOfList'
  BY <1>3, <1>5, <1>6, FirstKept
<1>10. ThreadsAgree'
  BY <1>3, <1>5, <1>6, ListInSessions DEF SessionInv, ThreadsAgree, Creating
<1>11. JobsAgree'
  BY <1>2, <1>5, <1>6 DEF SessionInv, JobsAgree
<1> QED BY <1>7, <1>8, <1>9, <1>10, <1>11 DEF SessionInv

LEMMA TagQueuedKeeps ==
  ASSUME SessionInv, NEW t \in PoolTags, plc_tag_destroy(t)
  PROVE  SessionInv'
<1>1. /\ jobs \in Seq(PoolTags \cup Sessions) /\ Distinct(jobs) /\ t \notin Elements(jobs)
      /\ t \in PoolTags \cup Sessions /\ jobs' = Append(jobs, t)
  BY DEF plc_tag_destroy, SessionInv, PoolTypeOK, JobsAgree
<1>2. /\ jobs' \in Seq(PoolTags \cup Sessions) /\ Distinct(jobs')
      /\ Elements(jobs') = Elements(jobs) \cup {t}
  BY <1>1, AppendElements
<1>3. /\ at[t] = "attached" /\ at' = [at EXCEPT ![t] = "queued"]
      /\ UNCHANGED <<brand, sessionOf, early, users, sess, sessions, down, failed>>
  BY DEF plc_tag_destroy
<1>4. PoolTypeOK'
  BY <1>2, <1>3 DEF SessionInv, PoolTypeOK
<1>5. UsersAgree'
  BY <1>3 DEF SessionInv, PoolTypeOK, UsersAgree
<1>6. FirstOfList'
  BY <1>3, FirstKept
<1>7. ThreadsAgree'
  BY <1>3 DEF SessionInv, PoolTypeOK, ThreadsAgree, Creating
<1>8. JobsAgree'
  BY <1>2, <1>3, SessionPoolAssumption DEF SessionInv, PoolTypeOK, JobsAgree
<1> QED BY <1>4, <1>5, <1>6, <1>7, <1>8 DEF SessionInv

\* Handlers end and the library goes down: neither tags nor the list change.
LEMMA QuietStepsKeep ==
  ASSUME SessionInv, Handlers \/ PoolShutdown \/ Waits \/ UNCHANGED poolVars
  PROVE  SessionInv'
<1>1. ASSUME NEW s \in Sessions, SessionExits(s) PROVE SessionInv'
  <2>1. sess' = [sess EXCEPT ![s] = [@ EXCEPT !.thread = "exited"]] /\ sess[s].thread = "running"
    BY <1>1 DEF SessionExits
  <2>2. \A q \in Sessions : /\ sess'[q].key = sess[q].key /\ sess'[q].failed = sess[q].failed
                            /\ sess'[q].mutex = sess[q].mutex /\ sess'[q].phase = sess[q].phase
                            /\ sess'[q].thread = IF q = s THEN "exited" ELSE sess[q].thread
    BY <2>1 DEF SessionInv, PoolTypeOK
  <2>3. UNCHANGED <<brand, at, sessionOf, early, users, sessions, jobs, down, failed>>
    BY <1>1 DEF SessionExits
  <2>4. PoolTypeOK'
    <3>1. sess' \in [Sessions -> SessionRecords]
      BY <2>1, SMTT(20) DEF SessionInv, PoolTypeOK, SessionRecords
    <3> QED BY <2>3, <3>1 DEF SessionInv, PoolTypeOK, SessionRecords
  <2>5. UsersAgree'
    BY <2>2, <2>3 DEF SessionInv, UsersAgree
  <2>6. FirstOfList'
    BY <2>2, <2>3, FirstKept, Zenon
  <2>7. ThreadsAgree'
    BY <2>1, <2>2, <2>3, ListInSessions DEF SessionInv, ThreadsAgree, Creating
  <2>8. JobsAgree'
    BY <2>2, <2>3 DEF SessionInv, JobsAgree
  <2> QED BY <2>4, <2>5, <2>6, <2>7, <2>8 DEF SessionInv
<1>2. ASSUME \A q \in Sessions : sess'[q] = [sess[q] EXCEPT !.terminating = sess'[q].terminating],
             sess' \in [Sessions -> SessionRecords],
             UNCHANGED <<brand, at, sessionOf, early, users, sessions, jobs, failed>>,
             down' \in Elements(Stages),
             down' \in {"handlers", "down"} => down \in {"handlers", "down"} \/ sessions = <<>>
      PROVE  SessionInv'
  <2>1. \A q \in Sessions : /\ sess'[q].key = sess[q].key /\ sess'[q].failed = sess[q].failed
                            /\ sess'[q].mutex = sess[q].mutex /\ sess'[q].phase = sess[q].phase
                            /\ sess'[q].thread = sess[q].thread
    BY <1>2 DEF SessionInv, PoolTypeOK
  <2>2. PoolTypeOK'
    BY <1>2 DEF SessionInv, PoolTypeOK, SessionRecords
  <2>3. UsersAgree'
    BY <1>2, <2>1 DEF SessionInv, UsersAgree
  <2>4. FirstOfList'
    BY <1>2, <2>1, FirstKept
  <2>5. ThreadsAgree'
    BY <1>2, <2>1, ListInSessions DEF SessionInv, ThreadsAgree, Creating
  <2>6. JobsAgree'
    BY <1>2, <2>1 DEF SessionInv, JobsAgree
  <2> QED BY <2>2, <2>3, <2>4, <2>5, <2>6 DEF SessionInv
<1>3. sess \in [Sessions -> SessionRecords]
  BY DEF SessionInv, PoolTypeOK, SessionRecords
<1>4. \A q \in Sessions : sess[q] = [sess[q] EXCEPT !.terminating = sess[q].terminating]
  BY <1>3 DEF SessionRecords
<1>5. CASE session_teardown
  <2>1. \A q \in Sessions : sess'[q] = [sess[q] EXCEPT !.terminating = sess'[q].terminating]
    BY <1>3, <1>5 DEF session_teardown, SessionRecords
  <2>2. sess' \in [Sessions -> SessionRecords]
    BY <1>3, <1>5, ZenonT(30) DEF session_teardown, SessionRecords
  <2>3. /\ UNCHANGED <<brand, at, sessionOf, early, users, sessions, jobs, failed>> /\ down' = "list"
    BY <1>5 DEF session_teardown
  <2> QED BY <1>2, <2>1, <2>2, <2>3, StagesSet
<1>6. CASE PoolShutdown \/ conn_teardown \/ WaitForList \/ WaitForHandlers \/ UNCHANGED poolVars
  <2>1. UNCHANGED <<brand, at, sessionOf, early, users, sess, sessions, jobs, failed>>
    BY <1>6 DEF PoolShutdown, conn_teardown, WaitForList, WaitForHandlers, poolVars
  <2>2. /\ down' \in Elements(Stages)
        /\ down' \in {"handlers", "down"} => down \in {"handlers", "down"} \/ sessions = <<>>
    BY <1>6, StagesSet DEF PoolShutdown, conn_teardown, WaitForList, WaitForHandlers, poolVars,
         SessionInv, PoolTypeOK
  <2> QED BY <1>2, <1>3, <1>4, <2>1, <2>2
<1> QED BY <1>1, <1>5, <1>6 DEF Handlers, Waits

LEMMA SessionInvNext == ASSUME Least PROVE SessionInv /\ [PoolNext]_poolVars => SessionInv'
<1> SUFFICES ASSUME SessionInv, [PoolNext]_poolVars PROVE SessionInv'
  OBVIOUS
<1>1. ASSUME NEW t \in PoolTags, Creation(t) PROVE SessionInv'
  BY <1>1, FindOrCreateKeeps, InitMutexKeeps, InitThreadKeeps, InitFailsKeeps
     DEF Creation, conn_find_or_create, conn_init
<1>2. ASSUME Cleaner PROVE SessionInv'
  BY <1>2, TagDestroyKeeps, DestroyUnlistsKeeps, DestroyFreesKeeps
     DEF Cleaner, omron_tag_destroy, conn_destroy
<1> QED BY <1>1, <1>2, TagQueuedKeeps, QuietStepsKeep DEF PoolNext

LEMMA OneSession == SessionInv => SharersShare
<1> SUFFICES ASSUME SessionInv, NEW t \in PoolTags \ Private, NEW u \in PoolTags \ Private,
                    sessionOf[t] # NoSession, sessionOf[u] # NoSession,
                    ~ sess[sessionOf[t]].failed, ~ sess[sessionOf[u]].failed, Key[t] = Key[u]
             PROVE  sessionOf[t] = sessionOf[u]
  BY DEF SharersShare
<1> DEFINE a == sessionOf[t]
           b == sessionOf[u]
<1>1. /\ a \in Sessions /\ b \in Sessions /\ t \in users[a] /\ u \in users[b]
      /\ sess[a].key = sess[b].key
  BY SMTT(20) DEF SessionInv, PoolTypeOK, UsersAgree
<1>2. a \in Elements(sessions) /\ b \in Elements(sessions)
  BY <1>1, Zenon DEF SessionInv, UsersAgree, FirstOfList
<1>3. PICK i \in 1 .. Len(sessions) : a = sessions[i]
  BY <1>2 DEF Elements
<1>4. PICK j \in 1 .. Len(sessions) : b = sessions[j]
  BY <1>2 DEF Elements
<1>5. users[a] \ Private # {} /\ users[b] \ Private # {}
  BY <1>1
<1>6. ~ (i < j) /\ ~ (j < i)
  BY <1>1, <1>3, <1>4, <1>5, Zenon DEF SessionInv, FirstOfList
<1>7. i = j
  BY <1>6 DEF SessionInv, PoolTypeOK
<1> QED BY <1>3, <1>4, <1>7
=============================================================================
