----------------------------- MODULE SessionPool -----------------------------
(***************************************************************************)
(* The life of AB sessions and Omron connections: tags find or create the  *)
(* session they share, the handler thread is started and stopped, the      *)
(* destructor runs on the cleanup thread of utils/rc.c, and the library is *)
(* shut down (protocols/ab/session.c, protocols/omron/conn.c).             *)
(*                                                                         *)
(* key stands for gateway, path and connection_group_id.  A session is put *)
(* on the list before session_init has made its mutex and its thread, so   *)
(* another thread may find it early.                                       *)
(***************************************************************************)
EXTENDS Lists, FiniteSets

CONSTANTS
  PoolTags,      \* tag objects, each created once
  Sessions,      \* session objects, each used once
  Key,           \* Key[t]: what the attributes of tag t ask for
  Private,       \* tags with share_session=0
  NoSession,
  InitFailures,  \* failures of mutex_create, cond_create or thread_create
  Slow           \* whether the 5 s wait of the teardown may run out

ASSUME SessionPoolAssumption ==
  /\ DOMAIN Key = PoolTags /\ Private \subseteq PoolTags
  /\ NoSession \notin Sessions /\ PoolTags \cap Sessions = {}
  /\ InitFailures \in Nat /\ Slow \in BOOLEAN

VARIABLES
  brand,      \* "ab" or "omron", constant
  at,         \* at[t]: where the creation or destruction of tag t is
  sessionOf,  \* tag->session
  early,      \* ghost: tags that found a session before its session_init was over
  users,      \* users[s]: the holders of references
  sess,       \* the session objects
  sessions,   \* the list
  jobs,       \* the cleanup thread: destructors to run, the first one under way
  down,       \* how far plc_tag_shutdown is
  failed      \* failures so far

poolVars == <<brand, at, sessionOf, early, users, sess, sessions, jobs, down, failed>>

Stages == <<"up", "closing", "list", "handlers", "down">>

PoolTypeOK ==
  /\ at \in [PoolTags -> {"none", "new", "init", "attached", "queued", "gone"}]
  /\ sessionOf \in [PoolTags -> Sessions \cup {NoSession}]
  /\ early \subseteq PoolTags
  /\ users \in [Sessions -> SUBSET PoolTags]
  /\ sess \in [Sessions -> [key: {Key[t] : t \in PoolTags} \cup {NoSession},
                            mutex: BOOLEAN, failed: BOOLEAN, terminating: BOOLEAN,
                            thread: {"none", "running", "exited"},
                            phase: {"none", "live", "joining", "freed"}]]
  /\ sessions \in Seq(Sessions)
  /\ jobs \in Seq(PoolTags \cup Sessions)
  /\ down \in Elements(Stages) /\ failed \in 0 .. InitFailures

NewSession(k) ==
  [key |-> k, mutex |-> FALSE, failed |-> FALSE, terminating |-> FALSE,
   thread |-> "none", phase |-> "none"]

PoolInit ==
  /\ brand \in {"ab", "omron"}
  /\ at = [t \in PoolTags |-> "none"]
  /\ sessionOf = [t \in PoolTags |-> NoSession]
  /\ early = {}
  /\ users = [s \in Sessions |-> {}]
  /\ sess = [s \in Sessions |-> NewSession(NoSession)]
  /\ sessions = <<>> /\ jobs = <<>>
  /\ down = "up" /\ failed = 0

-----------------------------------------------------------------------------
\* The thread that creates tag t.

session_match_valid(t, s) == ~ sess[s].failed /\ sess[s].key = Key[t]

\* The first session of the list that rc_inc accepts and that matches.  The
\* reference taken to look at the others is given back at once.
Matches(t, i) == users[sessions[i]] # {} /\ session_match_valid(t, sessions[i])
find_session_by_host_unsafe(t) ==
  {i \in DOMAIN sessions : Matches(t, i) /\ \A k \in 1 .. i - 1 : ~ Matches(t, k)}

\* rc_alloc; any unused object will do.
Fresh == LET free == {s \in Sessions : sess[s].phase = "none"}
         IN IF free = {} THEN NoSession ELSE CHOOSE s \in free : TRUE

add_session_unsafe(s) == Append(sessions, s)

\* The critical block of session_find_or_create.
session_find_or_create(t) ==
  /\ down = "up" /\ at[t] = "none"
  /\ LET found == IF t \in Private THEN {} ELSE find_session_by_host_unsafe(t) IN
       \/ /\ \E i \in found :
               LET s == sessions[i] IN
               /\ sessionOf' = [sessionOf EXCEPT ![t] = s]
               /\ users' = [users EXCEPT ![s] = @ \cup {t}]
               /\ early' = IF sess[s].thread = "none" THEN early \cup {t} ELSE early
          /\ at' = [at EXCEPT ![t] = "attached"]
          /\ UNCHANGED <<sess, sessions>>
       \/ /\ found = {}
          /\ \E s \in {Fresh} \cap Sessions :
               /\ sess' = [sess EXCEPT ![s] = [NewSession(Key[t]) EXCEPT !.phase = "live"]]
               /\ sessionOf' = [sessionOf EXCEPT ![t] = s]
               /\ users' = [users EXCEPT ![s] = {t}]
               /\ sessions' = add_session_unsafe(s)
          /\ at' = [at EXCEPT ![t] = "new"]
          /\ UNCHANGED early
  /\ UNCHANGED <<brand, jobs, down, failed>>

\* session_init, outside the mutex: first the session's own mutex ...
InitMutex(t) ==
  /\ at[t] = "new"
  /\ sess' = [sess EXCEPT ![sessionOf[t]].mutex = TRUE]
  /\ at' = [at EXCEPT ![t] = "init"]
  /\ UNCHANGED <<brand, sessionOf, early, users, sessions, jobs, down, failed>>

\* ... then the condition variable and the handler thread.
InitThread(t) ==
  /\ at[t] = "init"
  /\ sess' = [sess EXCEPT ![sessionOf[t]].thread = "running"]
  /\ at' = [at EXCEPT ![t] = "attached"]
  /\ UNCHANGED <<brand, sessionOf, early, users, sessions, jobs, down, failed>>

\* rc_dec of the session by tag t; the last one hands it to the cleanup thread,
\* which has js to do.
Leave(t, js) ==
  LET s == sessionOf[t] IN
    /\ users' = [users EXCEPT ![s] = @ \ {t}]
    /\ sessionOf' = [sessionOf EXCEPT ![t] = NoSession]
    /\ jobs' = IF users[s] = {t} THEN Append(js, s) ELSE js

\* Fault: the error of session_init is dropped and the tag keeps the session.
InitFailsSilently(t) ==
  /\ at[t] \in {"new", "init"} /\ failed < InitFailures
  /\ sess' = [sess EXCEPT ![sessionOf[t]].failed = TRUE]
  /\ at' = [at EXCEPT ![t] = "attached"]
  /\ failed' = failed + 1
  /\ UNCHANGED <<brand, sessionOf, early, users, sessions, jobs, down>>

\* A failure marks the session and the creator gives it up; the tag is not made.
InitFails(t) ==
  /\ at[t] \in {"new", "init"} /\ failed < InitFailures
  /\ sess' = [sess EXCEPT ![sessionOf[t]].failed = TRUE]
  /\ Leave(t, jobs)
  /\ at' = [at EXCEPT ![t] = "gone"]
  /\ failed' = failed + 1
  /\ UNCHANGED <<brand, early, sessions, down>>

\* plc_tag_destroy, by the application or by plc_tag_shutdown.
plc_tag_destroy(t) ==
  /\ at[t] = "attached"
  /\ at' = [at EXCEPT ![t] = "queued"]
  /\ jobs' = Append(jobs, t)
  /\ UNCHANGED <<brand, sessionOf, early, users, sess, sessions, down, failed>>

-----------------------------------------------------------------------------
\* The cleanup thread.

\* And omron_tag_destroy.
ab_tag_destroy(t) ==
  /\ jobs # <<>> /\ Head(jobs) = t
  /\ Leave(t, Tail(jobs))
  /\ at' = [at EXCEPT ![t] = "gone"]
  /\ UNCHANGED <<brand, early, sess, sessions, down, failed>>

remove_session_unsafe(s) == Unlinked(sessions, s)

\* session_destroy takes the session off the list and stops the handler, ...
DestroyUnlists(s) ==
  /\ jobs # <<>> /\ Head(jobs) = s /\ sess[s].phase = "live"
  /\ sessions' = remove_session_unsafe(s)
  /\ sess' = [sess EXCEPT ![s].terminating = TRUE, ![s].phase = "joining"]
  /\ UNCHANGED <<brand, at, sessionOf, early, users, jobs, down, failed>>

\* ... and when that is joined, everything is freed.
DestroyFrees(s) ==
  /\ jobs # <<>> /\ Head(jobs) = s /\ sess[s].phase = "joining"
  /\ sess[s].thread # "running"
  /\ sess' = [sess EXCEPT ![s].phase = "freed"]
  /\ jobs' = Tail(jobs)
  /\ UNCHANGED <<brand, at, sessionOf, early, users, sessions, down, failed>>

\* The end of session_handler.
SessionExits(s) ==
  /\ sess[s].thread = "running" /\ (sess[s].terminating \/ down # "up")
  /\ sess' = [sess EXCEPT ![s].thread = "exited"]
  /\ UNCHANGED <<brand, at, sessionOf, early, users, sessions, jobs, down, failed>>

-----------------------------------------------------------------------------
\* plc_tag_shutdown, session_teardown and conn_teardown.

PoolShutdown ==
  /\ down = "up" /\ \A t \in PoolTags : at[t] \notin {"new", "init"}
  /\ down' = "closing"
  /\ UNCHANGED <<brand, at, sessionOf, early, users, sess, sessions, jobs, failed>>

\* All tags are destroyed.  session_teardown tells the handlers to terminate,
\* conn_teardown does not.
session_teardown ==
  /\ brand = "ab" /\ down = "closing" /\ \A t \in PoolTags : at[t] # "attached"
  /\ sess' = [s \in Sessions |->
                [sess[s] EXCEPT !.terminating = @ \/ s \in Elements(sessions)]]
  /\ down' = "list"
  /\ UNCHANGED <<brand, at, sessionOf, early, users, sessions, jobs, failed>>

conn_teardown ==
  /\ brand = "omron" /\ down = "closing" /\ \A t \in PoolTags : at[t] # "attached"
  /\ down' = "list"
  /\ UNCHANGED <<brand, at, sessionOf, early, users, sess, sessions, jobs, failed>>

\* The wait for the list to get empty has no time limit.
WaitForList ==
  /\ down = "list" /\ sessions = <<>>
  /\ down' = "handlers"
  /\ UNCHANGED <<brand, at, sessionOf, early, users, sess, sessions, jobs, failed>>

\* The wait for the handlers has one.
WaitForHandlers ==
  /\ down = "handlers"
  /\ Slow \/ \A s \in Sessions : sess[s].thread # "running"
  /\ down' = "down"
  /\ UNCHANGED <<brand, at, sessionOf, early, users, sess, sessions, jobs, failed>>

-----------------------------------------------------------------------------
\* conn.c has its own copy of each of these functions, equal up to names.
conn_match_valid(t, s) == session_match_valid(t, s)
find_conn_by_host_unsafe(t) == find_session_by_host_unsafe(t)
conn_find_or_create(t) == session_find_or_create(t)
add_conn_unsafe(s) == add_session_unsafe(s)
remove_conn_unsafe(s) == remove_session_unsafe(s)
conn_init(t) == InitMutex(t) \/ InitThread(t) \/ InitFails(t)
omron_tag_destroy(t) == ab_tag_destroy(t)
conn_destroy(s) == DestroyUnlists(s) \/ DestroyFrees(s)

Creation(t) ==
  \/ brand = "ab" /\ (\/ session_find_or_create(t) \/ InitMutex(t)
                      \/ InitThread(t) \/ InitFails(t))
  \/ brand = "omron" /\ (conn_find_or_create(t) \/ conn_init(t))

Cleaner ==
  \/ brand = "ab" /\ \/ \E t \in PoolTags : ab_tag_destroy(t)
                     \/ \E s \in Sessions : DestroyUnlists(s) \/ DestroyFrees(s)
  \/ brand = "omron" /\ \/ \E t \in PoolTags : omron_tag_destroy(t)
                        \/ \E s \in Sessions : conn_destroy(s)

Handlers == \E s \in Sessions : SessionExits(s)

Waits == session_teardown \/ conn_teardown \/ WaitForList \/ WaitForHandlers

PoolNext ==
  \/ \E t \in PoolTags : Creation(t) \/ plc_tag_destroy(t)
  \/ Cleaner \/ Handlers \/ PoolShutdown \/ Waits

\* The threads run, and plc_tag_shutdown goes on once it is called.
PoolFairness ==
  /\ WF_poolVars(Cleaner) /\ WF_poolVars(Waits)
  /\ \A s \in Sessions : WF_poolVars(SessionExits(s))
  /\ \A t \in PoolTags : WF_poolVars(down # "up" /\ plc_tag_destroy(t))

PoolSpec == PoolInit /\ [][PoolNext]_poolVars /\ PoolFairness

-----------------------------------------------------------------------------
\* Tags that share and ask for the same gateway, path and group are on one
\* session, unless session_init failed on one of theirs: the search and the
\* addition to the list are one critical block, also while another session with
\* the same key is being given up (session_find_or_create).
SharersShare ==
  \A t, u \in PoolTags \ Private :
    /\ sessionOf[t] # NoSession /\ sessionOf[u] # NoSession
    /\ ~ sess[sessionOf[t]].failed /\ ~ sess[sessionOf[u]].failed
    /\ Key[t] = Key[u]
    => sessionOf[t] = sessionOf[u]

\* A tag is on a session whose mutex and handler exist.  The exception is a tag
\* that found the session while its creator was in session_init.
SessionIsReady ==
  \A t \in PoolTags : at[t] = "attached" /\ t \notin early =>
    LET s == sess[sessionOf[t]] IN s.mutex /\ s.thread # "none" /\ ~ s.failed

\* Nobody uses a session that is freed: no tag, not the list, no handler thread
\* (session_destroy).
SessionsSafe ==
  \A s \in Sessions : sess[s].phase = "freed" =>
    /\ users[s] = {} /\ s \notin Elements(sessions)
    /\ \A t \in PoolTags : sessionOf[t] # s
    /\ sess[s].thread # "running"

\* When the list is destroyed it is empty, and stays so (session_teardown).
ListIsDone == down \in {"handlers", "down"} => sessions = <<>>

\* A shutdown ends, and every session is freed then or later, however many tags
\* were open (session_teardown waits without a time limit for the destructors).
SessionsEnd ==
  down = "closing" ~>
    down = "down" /\ \A s \in Sessions : sess[s].phase \in {"none", "freed"}
=============================================================================
