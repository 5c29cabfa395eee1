------------------------------- MODULE Session -------------------------------
(***************************************************************************)
(* One GdmSession of the daemon in login mode (daemon/gdm-session.c), the  *)
(* jobs that hold its workers (daemon/gdm-session-worker-job.c), and what  *)
(* the manager's handlers of its signals do with it                        *)
(* (daemon/gdm-manager.c).  The greeter may run several conversations at   *)
(* once, one per PAM service (password, fingerprint, ...), each with a     *)
(* worker process of its own; the first to be opened and started wins.     *)
(* Workers are external here: SessionWorker models them, this module only  *)
(* uses what LoginTransaction promises.  D-Bus replies are received into   *)
(* the daemon's main context and dispatched later, so a reply may be       *)
(* waiting while another handler stops or frees its conversation.          *)
(***************************************************************************)
EXTENDS Integers, Sequences, FiniteSets, SequencesExt

CONSTANTS
    Services,         \* PAM service names
    Autologin,        \* "gdm-autologin", one of them
    MaxWorkers,       \* bound: worker processes over the life of the session
    MaxQueued,        \* bound: calls of the greeter waiting at one worker, queued start idles
    MaxOutOfTurn,     \* bound: conversations whose BeginAutoLogin is called at any time
    SpawnMayFail      \* TRUE: the worker process may fail to be spawned

ASSUME SessionAssumptions ==
    /\ Autologin \in Services
    /\ MaxWorkers \in Nat
    /\ MaxQueued \in Nat
    /\ MaxOutOfTurn \in Nat
    /\ SpawnMayFail \in BOOLEAN

Convs == 1..MaxWorkers
NoConv == 0           \* no entry in the hash table, or a NULL session_conversation
NullConv == -1        \* an entry of the hash table whose value is NULL

\* The calls to a worker, in the order of a login.
CallNames == <<"initialize", "authenticate", "authorize", "establish_credentials",
               "open", "start_program">>
CallStage(call) == CHOOSE i \in DOMAIN CallNames : CallNames[i] = call

VARIABLES
    conversations,    \* the hash table: service -> NoConv, NullConv or a conversation
    conv,             \* the GdmSessionConversation structures, their jobs and workers
    spawned,          \* worker processes started so far
    sessionConversation,
    running,          \* session_pid > 0
    client,           \* a greeter is connected (outside_connections # NULL)
    startWhenReady,   \* the manager's "start-when-ready" of this session
    waitingToStart,   \* the manager's "waiting-to-start"
    idles,            \* the manager's queued idles: "reset", or the service to start
    userSessions,     \* how often the manager's user_sessions lists this session
    crashed,          \* the daemon has dereferenced a NULL or freed conversation
    misread           \* freed conversations read through session_conversation (history)

sessionVars == <<sessionConversation, running, client>>
managerVars == <<startWhenReady, waitingToStart, idles, userSessions>>
vars == <<conversations, conv, spawned, sessionVars, managerVars, crashed, misread>>

Unused == [service |-> Autologin, mem |-> "unused", proxy |-> "none", stopping |-> FALSE,
           starting |-> FALSE, cancelled |-> FALSE, worker |-> "none",
           stage |-> 0, calls |-> <<>>, replies |-> <<>>]

Conversation(s) == [Unused EXCEPT !.service = s, !.mem = "live", !.worker = "running"]

Init ==
    /\ conversations = [s \in Services |-> NoConv]
    /\ conv = [c \in Convs |-> Unused]
    /\ spawned = 0
    /\ sessionConversation = NoConv
    /\ running = FALSE
    /\ client = FALSE
    /\ startWhenReady = FALSE /\ waitingToStart = FALSE
    /\ idles = <<>> /\ userSessions = 0
    /\ crashed = FALSE /\ misread = {}

-----------------------------------------------------------------------------
(* Conversations: each operator gives the structures cv after the call.    *)

InTable == {conversations[s] : s \in Services}

\* gdm_session_get_session_id reads the conversation that session_conversation names,
\* also when it was freed.
ReadSessionId ==
    misread' = misread \cup {c \in {sessionConversation} \cap Convs : conv[c].mem # "live"}

\* A call goes out only on an open connection; otherwise it fails with CLOSED, which
\* every callback ignores.
Called(cv, c, call) ==
    IF cv[c].proxy = "open" THEN [cv EXCEPT ![c].calls = Append(@, call)] ELSE cv

\* close_conversation: calls without an answer end with CLOSED.
Closed(r) == IF r.proxy = "open" THEN [r EXCEPT !.proxy = "closed", !.calls = <<>>] ELSE r

\* stop_conversation of every member of C: the worker gets SIGTERM.
Stopped(cv, C) ==
    [c \in Convs |-> IF c \in C THEN [Closed(cv[c]) EXCEPT !.stopping = TRUE] ELSE cv[c]]

\* Mutant of Freed: the cancellable is not cancelled.
FreedNotCancelled(cv, C) ==
    [c \in Convs |->
        IF c \notin C THEN cv[c]
        ELSE [Closed(cv[c]) EXCEPT
                 !.mem = IF @ = "live" THEN "freed" ELSE "corrupt",
                 !.stopping = FALSE,
                 !.worker = CASE @ = "running" -> "disowned"
                              [] @ = "ended" -> "reaped"
                              [] OTHER -> @]]

\* free_conversation of every member of C.  Its cancellable is cancelled: callbacks
\* still to come see G_IO_ERROR_CANCELLED.  A job whose worker was not reaped before
\* has been waited for and disowned by gdm_session_worker_job_stop_now.
Freed(cv, C) ==
    [c \in Convs |->
        IF c \notin C THEN cv[c]
        ELSE [Closed(cv[c]) EXCEPT
                 !.mem = IF @ = "live" THEN "freed" ELSE "corrupt",
                 !.cancelled = TRUE, !.stopping = FALSE,
                 !.worker = CASE @ = "running" -> "disowned"
                              [] @ = "ended" -> "reaped"
                              [] OTHER -> @]]

\* Mutant of Reset: the hash table keeps its entries.
ResetKeepsTable(cv) ==
    /\ conv' = Freed(cv, InTable \cap Convs)
    /\ sessionConversation' = NoConv
    /\ running' = FALSE
    /\ crashed' = (crashed \/ NullConv \in InTable)
    /\ UNCHANGED <<conversations>>

\* do_reset after stop_all_conversations has stopped and freed them all.
Reset(cv) ==
    /\ conversations' = [s \in Services |-> NoConv]
    /\ conv' = Freed(cv, InTable \cap Convs)
    /\ sessionConversation' = NoConv
    /\ running' = FALSE
    /\ crashed' = (crashed \/ NullConv \in InTable)

\* gdm_session_start_conversation.  A stopping conversation of the same service is
\* stopped now and replaced; the hash table frees it (also a NULL one: a crash).
StartConversation(s, starting) ==
    LET old == conversations[s]
    IN  /\ ~crashed
        /\ old \in Convs => conv[old].stopping
        /\ \/ /\ spawned < MaxWorkers
              /\ spawned' = spawned + 1
              /\ conversations' = [conversations EXCEPT ![s] = spawned']
              /\ conv' = [Freed(conv, {old} \cap Convs) EXCEPT
                             ![spawned'] = [Conversation(s) EXCEPT !.starting = starting]]
           \/ /\ SpawnMayFail
              /\ conversations' = [conversations EXCEPT ![s] = NullConv]
              /\ conv' = Freed(conv, {old} \cap Convs)
              /\ UNCHANGED spawned
        /\ crashed' = (old = NullConv)
        /\ UNCHANGED <<sessionConversation, running, managerVars, misread>>

-----------------------------------------------------------------------------
(* The greeter's calls.                                                    *)

\* BeginVerification and BeginVerificationForUser: answered once Initialize is.
BeginVerification(s) == client /\ client' = TRUE /\ StartConversation(s, TRUE)

\* set_up_automatic_login_session: a fresh session, before any greeter.
StartAutologin ==
    /\ ~client /\ client' = FALSE
    /\ spawned = 0
    /\ StartConversation(Autologin, FALSE)

\* handle_connection_from_outside; on_session_client_connected starts the autologin
\* conversation when timed login is configured and nothing runs.
ClientConnects ==
    /\ ~client /\ client' = TRUE
    /\ \/ ~running /\ StartConversation(Autologin, FALSE)
       \/ /\ ~crashed
          /\ UNCHANGED <<conversations, conv, spawned, sessionConversation, running, managerVars,
                         crashed, misread>>

ClientDisconnects ==
    /\ client /\ client' = FALSE
    /\ ~crashed
    /\ UNCHANGED <<conversations, conv, spawned, sessionConversation, running, managerVars,
                   crashed, misread>>

\* BeginAutoLogin: Initialize without a look at how far the conversation is.
BeginAutoLogin ==
    LET c == conversations[Autologin]
    IN  /\ client /\ ~running /\ ~crashed
        /\ c \in Convs
        /\ conv[c].proxy = "open" /\ Len(conv[c].calls \o conv[c].replies) < MaxQueued
        /\ c > MaxOutOfTurn =>
              conv[c].calls = <<>> /\ conv[c].replies = <<>> /\ conv[c].stage = 0
        /\ conv' = Called(conv, c, "initialize")
        /\ ReadSessionId
        /\ UNCHANGED <<conversations, spawned, sessionVars, managerVars, crashed>>

\* Cancel: the manager resets the session from an idle, of which there is only one.
Cancel ==
    /\ client /\ ~crashed
    /\ \A i \in DOMAIN idles : idles[i] # "reset"
    /\ idles' = Append(idles, "reset")
    /\ UNCHANGED <<conversations, conv, spawned, sessionVars, startWhenReady, waitingToStart, userSessions,
                   crashed, misread>>

\* start_user_session_if_ready, with start-when-ready as ready.
StartIfReady(s, ready) ==
    IF ready THEN /\ waitingToStart' = FALSE
                  /\ idles' = Append(idles, s)
             ELSE /\ waitingToStart' = TRUE
                  /\ UNCHANGED idles

StartsQueued == Cardinality({i \in DOMAIN idles : idles[i] # "reset"})

\* StartSessionWhenReady (on_session_client_ready_for_session_to_start).
StartSessionWhenReady(s, ready) ==
    /\ client /\ ~running /\ ~crashed
    /\ startWhenReady' = ready
    /\ IF ready /\ waitingToStart
       THEN StartsQueued < MaxQueued /\ StartIfReady(s, TRUE)
       ELSE UNCHANGED <<waitingToStart, idles>>
    /\ UNCHANGED <<conversations, conv, spawned, sessionVars, userSessions, crashed, misread>>

-----------------------------------------------------------------------------
(* What the workers do (external), and the handlers of their messages.     *)

\* gdm_session_setup and gdm_session_setup_for_user of a worker that has just connected.
SetUpCalls(c, automatic) ==
    LET auto == IF automatic THEN <<"initialize">> ELSE <<>>
        verify == IF conv[c].starting THEN <<"initialize">> ELSE <<>>
    IN  auto \o verify

\* Hello (register_worker).  Looking for the caller's pid walks over every entry of
\* the table.  The manager sets up automatic login when it is configured; a waiting
\* BeginVerification is set up, and one for a user selects the user, as automatic login
\* does: gdm_session_select_user looks at the session's id.
Hello(c) ==
    /\ ~crashed
    /\ conv[c].worker = "running" /\ conv[c].mem = "live" /\ conv[c].proxy = "none"
    /\ IF NullConv \in InTable THEN crashed' \in BOOLEAN ELSE UNCHANGED crashed
    /\ \E automatic, forUser \in BOOLEAN :
         /\ automatic => conv[c].service = Autologin
         /\ forUser => conv[c].starting
         /\ IF automatic \/ forUser THEN ReadSessionId ELSE UNCHANGED misread
         /\ conv' = [conv EXCEPT ![c].proxy = "open", ![c].calls = SetUpCalls(c, automatic)]
    /\ UNCHANGED <<conversations, spawned, sessionVars, managerVars>>

Talks(c) == /\ ~crashed
            /\ conv[c].worker = "running"
            /\ conv[c].proxy = "open"

\* The conversations after an answer to call i, with the login transaction at a stage.
Answered(c, i, ok, stage) ==
    [conv EXCEPT ![c].stage = stage, ![c].calls = RemoveAt(@, i),
                 ![c].replies = Append(@, [call |-> conv[c].calls[i], ok |-> ok])]

\* A refused StartProgram is carried out all the same: the login goes a step on or is
\* over.  A call the worker was busy with is carried out too, and gets no answer.
CarriesOutRefused(c, i) ==
    \E stage \in {0} \cup (conv[c].stage..(conv[c].stage + IF i = 1 THEN 1 ELSE 2)) :
        /\ stage <= Len(CallNames)
        /\ conv' = LET refused == Answered(c, i, FALSE, stage)
                   IN  IF i = 1 THEN refused ELSE [refused EXCEPT ![c].calls = Tail(@)]

\* The worker answers a call; the answer waits in the main context.  Its oldest call
\* goes well only if it is the next of the login transaction, and failing ends the
\* transaction.  A call out of turn and one that finds another pending are refused at
\* once.  A refusal leaves the transaction as it is, but for one of StartProgram.
Answers(c, i) ==
    /\ Talks(c)
    /\ LET call == conv[c].calls[i]
           stage == conv[c].stage
       IN  \/ /\ i = 1 /\ CallStage(call) = stage + 1
              /\ conv' \in {Answered(c, i, TRUE, stage + 1), Answered(c, i, FALSE, 0)}
           \/ /\ i > 1 \/ CallStage(call) # stage + 1
              /\ conv' = Answered(c, i, FALSE, stage)
           \/ /\ call = "start_program"
              /\ i > 1 \/ CallStage(call) # stage + 1
              /\ CarriesOutRefused(c, i)
    /\ UNCHANGED <<conversations, spawned, sessionVars, managerVars, crashed, misread>>

WorkerReplies(c) == \E i \in DOMAIN conv[c].calls : Answers(c, i)

\* The session program is over: the worker emits SessionExited and lives on.
ProgramEnds(c) ==
    /\ Talks(c)
    /\ conv[c].stage = Len(CallNames)
    /\ conv' = [conv EXCEPT ![c].stage = 0,
                            ![c].replies = Append(@, [call |-> "session_exited", ok |-> TRUE])]
    /\ UNCHANGED <<conversations, spawned, sessionVars, managerVars, crashed, misread>>

\* The worker process ends, by itself or on SIGTERM.
WorkerEnds(c) ==
    /\ conv[c].worker \in {"running", "disowned"}
    /\ conv' = [conv EXCEPT ![c].worker = IF @ = "running" THEN "ended" ELSE "reaped",
                            ![c].stage = 0, ![c].calls = <<>>]
    /\ UNCHANGED <<conversations, spawned, sessionVars, managerVars, crashed, misread>>

-----------------------------------------------------------------------------
(* Dispatch of replies: the on_*_cb functions.                             *)

\* remove_user_session; closing resets the session (cv are its conversations now).
RemoveUserSession(cv) ==
    IF userSessions > 0
    THEN userSessions' = userSessions - 1 /\ Reset(cv) /\ client' = FALSE
    ELSE /\ conv' = cv
         /\ UNCHANGED <<userSessions, conversations, sessionConversation, running, client, crashed>>

Quiet == UNCHANGED <<conversations, spawned, sessionVars, managerVars, crashed, misread>>

\* The next reply of c, with the conversations as they are once it is taken.
Reply(c, call, ok) ==
    /\ ~crashed
    /\ conv[c].replies # <<>>
    /\ ~conv[c].cancelled
    /\ Head(conv[c].replies) = [call |-> call, ok |-> ok]

Taken(c) == [conv EXCEPT ![c].replies = Tail(@)]

\* A callback after free_conversation: it sees CANCELLED and does nothing.
CancelledReply(c) ==
    /\ ~crashed
    /\ conv[c].replies # <<>> /\ conv[c].cancelled
    /\ conv' = Taken(c)
    /\ Quiet

\* Used without the cancellable's protection, a freed conversation is a crash.
Used(c, cv) == IF conv[c].mem = "live" THEN cv ELSE [cv EXCEPT ![c].mem = "corrupt"]

\* on_initialization_complete_cb
Initialized(c) ==
    /\ Reply(c, "initialize", TRUE)
    /\ conv' = Used(c, Called([Taken(c) EXCEPT ![c].starting = FALSE], c, "authenticate"))
    /\ Quiet

\* on_authenticate_cb, on_authorize_cb, on_establish_credentials_cb
Proceeded(c) ==
    /\ \E i \in 2..4 :
         /\ Reply(c, CallNames[i], TRUE)
         /\ conv' = Used(c, Called(Taken(c), c, CallNames[i + 1]))
    /\ Quiet

\* report_and_stop_conversation, for any of these calls and for open.
Failed(c) ==
    /\ \E i \in 1..5 :
         /\ Reply(c, CallNames[i], FALSE)
         /\ conv' = Used(c, Stopped([Taken(c) EXCEPT
                                ![c].starting = IF i = 1 THEN FALSE ELSE @], {c}))
    /\ Quiet

\* on_opened and on_user_session_opened
Opened(c) ==
    /\ Reply(c, "open", TRUE)
    /\ conv' = Used(c, Taken(c))
    /\ userSessions' = userSessions + 1
    /\ startWhenReady' = (startWhenReady \/ (conv[c].service = Autologin /\ ~client))
    /\ StartIfReady(conv[c].service, startWhenReady')
    /\ UNCHANGED <<conversations, spawned, sessionConversation, running, client, crashed,
                   misread>>

\* on_start_program_cb
Started(c) ==
    /\ Reply(c, "start_program", TRUE)
    /\ conv' = Used(c, Taken(c))
    /\ running' = TRUE
    /\ sessionConversation' = c
    /\ UNCHANGED <<conversations, spawned, client, managerVars, crashed, misread>>

StartFailed(c) ==
    /\ Reply(c, "start_program", FALSE)
    /\ RemoveUserSession(Used(c, Stopped(Taken(c), {c})))
    /\ UNCHANGED <<spawned, startWhenReady, waitingToStart, idles, misread>>

\* worker_on_session_exited and the manager's session-exited and session-died.
SessionExited(c) ==
    /\ Reply(c, "session_exited", TRUE)
    /\ LET cv == Used(c, Taken(c))
       IN  IF userSessions > 0
           THEN userSessions' = userSessions - 1 /\ Reset(cv) /\ client' = FALSE
           ELSE /\ conv' = cv
                /\ sessionConversation' = NoConv
                /\ UNCHANGED <<userSessions, conversations, running,
                               client, crashed>>
    /\ UNCHANGED <<spawned, startWhenReady, waitingToStart, idles, misread>>

\* Mutant of ChildWatched: stopping a job removes its child watch.
ChildWatchedUnlessStopping(c) ==
    conv[c].worker = "ended" /\ conv[c].mem = "live" /\ ~conv[c].stopping

\* The job of c still watches its worker, which has ended.
ChildWatched(c) == conv[c].worker = "ended" /\ conv[c].mem = "live"

\* session_worker_job_child_watch, then worker_exited or worker_died.  The entry is
\* stolen from the table first: the manager's reaction may reset the session.
WorkerGone(c) ==
    LET s == conv[c].service
        others == [conversations EXCEPT ![s] = NoConv]
        gone == Freed(conv, {c})
    IN  /\ ~crashed
        /\ ChildWatched(c)
        /\ IF sessionConversation = c /\ userSessions > 0
           THEN /\ userSessions' = userSessions - 1
                /\ conversations' = [t \in Services |-> NoConv]
                /\ conv' = Freed(gone, {others[t] : t \in Services} \cap Convs)
                /\ running' = FALSE /\ client' = FALSE
                /\ crashed' = (NullConv \in {others[t] : t \in Services})
           ELSE /\ conversations' = others
                /\ conv' = gone
                /\ UNCHANGED <<userSessions, running, client, crashed>>
        /\ sessionConversation' = IF sessionConversation = c THEN NoConv ELSE sessionConversation
        /\ UNCHANGED <<spawned, startWhenReady, waitingToStart, idles, misread>>

-----------------------------------------------------------------------------
(* The manager's idles.                                                    *)

IdleRuns == /\ ~crashed
            /\ idles # <<>>
            /\ idles' = Tail(idles)

\* on_reset_session; its start-when-ready and waiting-to-start stay as they are.
ResetIdle ==
    /\ IdleRuns
    /\ Head(idles) = "reset"
    /\ Reset(conv)
    /\ UNCHANGED <<spawned, client, startWhenReady, waitingToStart, userSessions, misread>>

\* find_session_for_user looks at the ids of all sessions of users.
LooksForSession == IF userSessions > 0 THEN ReadSessionId ELSE UNCHANGED misread

\* on_start_user_session: another session of the user is switched to and this one
\* reset, or the session gets a display of its own and is started.
MigrateIdle ==
    /\ IdleRuns
    /\ Head(idles) # "reset"
    /\ LooksForSession
    /\ Reset(conv)
    /\ UNCHANGED <<spawned, client, startWhenReady, waitingToStart, userSessions>>

\* Mutants of StartSession: the other conversations go on, or the test for a session
\* that was started before is the wrong way round.
StartSessionAmongOthers(s) ==
    IF sessionConversation # NoConv \/ conversations[s] \notin Convs
    THEN UNCHANGED <<conv, crashed>>
    ELSE /\ conv' = Called(conv, conversations[s], "start_program")
         /\ crashed' = (NullConv \in InTable)

StartSessionOnlyAgain(s) ==
    IF sessionConversation = NoConv \/ conversations[s] \notin Convs
    THEN UNCHANGED <<conv, crashed>>
    ELSE /\ conv' = Called(Stopped(conv, (InTable \cap Convs) \ {conversations[s]}),
                           conversations[s], "start_program")
         /\ crashed' = (NullConv \in InTable)

\* gdm_session_start_session
StartSession(s) ==
    IF sessionConversation # NoConv \/ conversations[s] \notin Convs
    THEN UNCHANGED <<conv, crashed>>
    ELSE /\ conv' = Called(Stopped(conv, (InTable \cap Convs) \ {conversations[s]}),
                           conversations[s], "start_program")
         /\ crashed' = (NullConv \in InTable)

StartIdle ==
    /\ IdleRuns
    /\ Head(idles) # "reset"
    /\ LooksForSession
    /\ StartSession(Head(idles))
    /\ UNCHANGED <<conversations, spawned, sessionVars, startWhenReady, waitingToStart,
                   userSessions>>

-----------------------------------------------------------------------------
Greeter ==
    \/ \E s \in Services : BeginVerification(s)
    \/ \E s \in Services, ready \in BOOLEAN : StartSessionWhenReady(s, ready)
    \/ BeginAutoLogin
    \/ Cancel
    \/ ClientConnects
    \/ ClientDisconnects

Worker(c) ==
    \/ Hello(c)
    \/ WorkerReplies(c)
    \/ ProgramEnds(c)
    \/ WorkerEnds(c)

Dispatch(c) ==
    \/ CancelledReply(c)
    \/ Initialized(c)
    \/ Proceeded(c)
    \/ Failed(c)
    \/ Opened(c)
    \/ Started(c)
    \/ StartFailed(c)
    \/ SessionExited(c)
    \/ WorkerGone(c)

Manager == StartAutologin \/ ResetIdle \/ MigrateIdle \/ StartIdle

Next == Greeter \/ Manager \/ \E c \in Convs : Worker(c) \/ Dispatch(c)

Spec == Init /\ [][Next]_vars

-----------------------------------------------------------------------------
(* Correctness.                                                            *)

ConversationTypes ==
    [service : Services, mem : {"unused", "live", "freed", "corrupt"},
     proxy : {"none", "open", "closed"}, stopping : BOOLEAN, starting : BOOLEAN,
     cancelled : BOOLEAN, worker : {"none", "running", "ended", "disowned", "reaped"},
     stage : 0..Len(CallNames), calls : Seq(Range(CallNames)),
     replies : Seq([call : Range(CallNames) \cup {"session_exited"}, ok : BOOLEAN])]

\* Type correctness of the session's state; calls, replies and idles are finite queues.
TypeOK ==
    /\ conversations \in [Services -> Convs \cup {NoConv, NullConv}]
    /\ conv \in [Convs -> ConversationTypes]
    /\ spawned \in 0..MaxWorkers
    /\ sessionConversation \in Convs \cup {NoConv}
    /\ running \in BOOLEAN
    /\ client \in BOOLEAN /\ startWhenReady \in BOOLEAN /\ waitingToStart \in BOOLEAN
    /\ idles \in Seq(Services \cup {"reset"})
    /\ userSessions \in Nat
    /\ crashed \in BOOLEAN
    /\ misread \in SUBSET Convs

\* A later conversation of the service of c was started.
Restarted(c) == \E d \in (c + 1)..spawned : conv[d].service = conv[c].service

\* No handler uses a conversation that free_conversation has released, frees one twice
\* or walks over a NULL entry of the table: a reply received before the conversation was
\* freed finds its cancellable cancelled, and worker_exited steals the entry before the
\* manager's reaction can reset the session.  There is one way in for a freed
\* conversation: gdm_session_start_conversation frees the stopping conversation of its
\* service and leaves session_conversation as it is, and gdm_session_get_session_id
\* reads it.  Nothing else the session does makes session_conversation dangle.
MemorySafe ==
    /\ ~crashed
    /\ \A c \in Convs : conv[c].mem # "corrupt"
    /\ \A c \in misread : Restarted(c)

\* The conversations that exist are exactly the values of the hash table: none leaks
\* when a service is started again while its old worker is still stopping, and no entry
\* dangles.  Whatever frees the conversation of the running session (worker's death,
\* reset, close) also clears session_conversation, except for a restart of its service:
\* gdm_session_start_conversation frees the stopping conversation and leaves
\* session_conversation as it is.
TableIsExact ==
    /\ \A c \in Convs : conv[c].mem = "live" <=> c \in InTable
    /\ sessionConversation # NoConv =>
          sessionConversation \in InTable \/ Restarted(sessionConversation)

\* Of the workers the session still talks to, at most one runs a program:
\* gdm_session_start_session stops every other conversation before StartProgram.
OneProgram ==
    \A c, d \in Convs :
        /\ conv[c].mem = "live" /\ conv[c].stage = Len(CallNames)
        /\ conv[d].mem = "live" /\ conv[d].stage = Len(CallNames)
        => c = d \/ conv[c].stopping \/ conv[d].stopping

\* The calls a worker answers without waiting for the user.
Unprompted == {"initialize", "start_program"}

\* The main loop of the daemon dispatches what is ready; a worker connects, answers the
\* calls that need no user, and ends after SIGTERM.
Fairness ==
    /\ WF_vars(ResetIdle \/ MigrateIdle \/ StartIdle)
    /\ \A c \in Convs :
         /\ WF_vars(Dispatch(c))
         /\ WF_vars(\/ Hello(c)
                    \/ \E i \in DOMAIN conv[c].calls :
                          conv[c].calls[i] \in Unprompted /\ Answers(c, i)
                    \/ conv[c].stopping /\ WorkerEnds(c))

FairSpec == Spec /\ Fairness

\* A conversation that was stopped goes away: the worker's death is noticed and
\* worker_exited or worker_died frees it, unless a reset or a restart did before.
StoppedIsFreed ==
    \A c \in Convs : conv[c].stopping ~> conv[c].mem = "freed"

\* A start that is queued for an opened conversation ends with a running session or with
\* the end of the conversation: no user is left with an opened session that waits.
QueuedStartEnds ==
    \A c \in Convs :
        (/\ conv[c].mem = "live" /\ conv[c].stage = CallStage("open")
         /\ \E i \in DOMAIN idles : idles[i] = conv[c].service)
            ~> running \/ conv[c].mem = "freed"
====
