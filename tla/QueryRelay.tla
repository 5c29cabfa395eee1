----------------------------- MODULE QueryRelay -----------------------------
(***************************************************************************)
(* How a question of a PAM module reaches the user and the answer finds    *)
(* its way back.  PAM calls the conversation function of the worker        *)
(* (daemon/gdm-session-worker.c) with a batch of messages; each question   *)
(* is a synchronous D-Bus call without a time-out to the session           *)
(* (daemon/gdm-session.c), which keeps the invocation as the pending query *)
(* of the conversation and signals the question to the client.  The        *)
(* client's answer names the PAM service, not the question: it goes to     *)
(* whatever query is pending there when it arrives.                        *)
(*                                                                         *)
(* Messages on one connection keep their order; connections are            *)
(* independent of each other.  Workers and their jobs are modelled in      *)
(* Session; here a conversation's life is what a query can see of it.      *)
(***************************************************************************)
EXTENDS Naturals, Sequences, FiniteSets

CONSTANTS
    Services,         \* PAM service names
    Autologin,        \* the one of them that only the manager begins
    Extensions,       \* kinds of question only an extension can show (choice list, JSON)
    Json,             \* the one of them whose answers are parsed
    MaxConvs,         \* bound: conversations over the life of the session
    MaxQueries,       \* bound: questions
    MaxBatch,         \* bound: messages in one call of the conversation function
    InTurn,           \* TRUE: the client begins a service when it knows that nothing is
                      \* under way, and answers a question that is shown, once
    None

ASSUME RelayAssumptions ==
    /\ Json \in Extensions /\ Autologin \in Services
    /\ MaxConvs \in Nat /\ MaxQueries \in Nat /\ MaxBatch \in Nat
    /\ InTurn \in BOOLEAN
    /\ None \notin Services \cup Nat \cup [query : Nat, ok : BOOLEAN]
    /\ Extensions \cap {"prompt", "text", "invalid", "failed", "stopped", "refused", "reset"} = {}

Convs == 1..MaxConvs
Queries == 1..MaxQueries
\* Echo on, echo off and radio are prompts; info and problem are text.
Styles == {"prompt", "text", "invalid"} \cup Extensions

VARIABLES
    current,          \* the hash table of conversations: service -> conversation
    conv,             \* service, life and pending_invocation of each conversation
    worker,           \* each worker: the messages of the batch so far and their replies
    call,             \* question on its way from a worker to the session
    reply,            \* answer on its way from the session to a worker
    convOf,           \* history: the conversation that asked each query
    started, asked,   \* how many conversations and queries there were
    enabled,          \* user_verifier_extensions
    client,           \* a client has connected: user_verifier_interface # NULL
    reset,            \* the manager's reset idle is queued
    signals,          \* session -> client
    messages,         \* client -> session
    shown,            \* the client: the query it may answer, per service
    view,             \* the client: services it holds to be under way
    aborted           \* an assertion has failed

sessionVars == <<current, conv, enabled, client, reset, started>>
workerVars == <<worker, call, reply, convOf, asked>>
clientVars == <<shown, view>>
vars == <<sessionVars, workerVars, clientVars, signals, messages, aborted>>

NoConv == [service |-> None, life |-> "unused", pending |-> None]
Absent == [state |-> "none", batch |-> <<>>, got |-> <<>>]
Idle == [Absent EXCEPT !.state = "idle"]
Dead == [Absent EXCEPT !.state = "dead"]

Init ==
    /\ current = [s \in Services |-> None]
    /\ conv = [g \in Convs |-> NoConv]
    /\ worker = [g \in Convs |-> Absent]
    /\ call = [g \in Convs |-> None]
    /\ reply = [g \in Convs |-> None]
    /\ convOf = [q \in Queries |-> None]
    /\ started = 0 /\ asked = 0
    /\ enabled = {} /\ client = FALSE /\ reset = FALSE
    /\ signals = <<>> /\ messages = <<>>
    /\ shown = [s \in Services |-> None]
    /\ view = [s \in Services |-> "none"]
    /\ aborted = FALSE

-----------------------------------------------------------------------------
(* Conversations.                                                          *)

Signal(what, s, q) ==
    signals' = IF client THEN Append(signals, [what |-> what, service |-> s, query |-> q])
               ELSE signals

\* close_conversation: the interface is unexported and the connection closed, what was
\* under way on it is lost.
Close(C) ==
    /\ call' = [g \in Convs |-> IF g \in C THEN None ELSE call[g]]
    /\ reply' = [g \in Convs |-> IF g \in C THEN None ELSE reply[g]]

Connected(g) == conv[g].life = "live" /\ worker[g].state # "dead"

\* gdm_session_worker_job_stop_now waits for the worker, the conversation is freed.
Free(C) ==
    /\ Close(C)
    /\ worker' = [g \in Convs |-> IF g \in C THEN Dead ELSE worker[g]]

Freed(g) == [conv[g] EXCEPT !.life = "freed", !.pending = None]
NewConv(s) == [service |-> s, life |-> "live", pending |-> None]

\* gdm_session_start_conversation; the table has either no conversation or one that
\* is stopping, which is freed.
StartConversation(s) ==
    LET old == {current[s]} \ {None}
    IN /\ started < MaxConvs
       /\ started' = started + 1
       /\ Free(old)
       /\ conv' = [[g \in Convs |-> IF g \in old THEN Freed(g) ELSE conv[g]] EXCEPT ![started'] = NewConv(s)]
       /\ current' = [current EXCEPT ![s] = started']

CanStart(s) == current[s] = None \/ conv[current[s]].life = "stopping"

\* The manager starts a conversation of its own (automatic login) before any client.
StartByManager ==
    /\ ~client /\ started = 0
    /\ StartConversation(Autologin)
    /\ UNCHANGED <<enabled, client, reset, convOf, asked, clientVars, signals, messages,
                   aborted>>

\* The worker has connected (Hello) and is idle.
WorkerConnects(g) ==
    /\ conv[g].life = "live" /\ worker[g].state = "none"
    /\ worker' = [worker EXCEPT ![g] = Idle]
    /\ UNCHANGED <<sessionVars, call, reply, convOf, asked, clientVars, signals, messages,
                   aborted>>

\* report_and_stop_conversation, when PAM has had enough.
ConversationFails(g) ==
    /\ conv[g].life = "live" /\ worker[g].state = "idle"
    /\ conv' = [conv EXCEPT ![g].life = "stopping"]
    /\ Close({g})
    /\ Signal("failed", conv[g].service, None)
    /\ UNCHANGED <<current, enabled, client, reset, started, worker, convOf, asked, clientVars,
                   messages, aborted>>

\* stop_all_other_conversations, when gdm_session_start_session starts the program of
\* conversation g: the others stop, whether they are asking or not, and no failure is
\* signalled (without others nothing changes).
StopOtherConversations(g) ==
    LET others == {h \in Convs \ {g} : conv[h].life = "live"}
    IN /\ conv[g].life \in {"live", "stopping"} /\ others # {}
       /\ conv' = [h \in Convs |-> IF h \in others THEN [conv[h] EXCEPT !.life = "stopping"] ELSE conv[h]]
       /\ Close(others)
       /\ UNCHANGED <<current, enabled, client, reset, started, worker, convOf, asked, clientVars,
                      signals, messages, aborted>>

\* The worker process ends: on SIGTERM, or by itself at any time.
WorkerEnds(g) ==
    /\ conv[g].life \in {"live", "stopping"} /\ worker[g].state # "dead"
    /\ worker' = [worker EXCEPT ![g] = Dead]
    /\ Close({g})
    /\ UNCHANGED <<sessionVars, convOf, asked, clientVars, signals, messages, aborted>>

\* worker_exited, worker_died
WorkerExited(g) ==
    /\ conv[g].life \in {"live", "stopping"} /\ worker[g].state = "dead"
    /\ current' = [current EXCEPT ![conv[g].service] = None]
    /\ conv' = [conv EXCEPT ![g] = Freed(g)]
    /\ Signal("stopped", conv[g].service, None)
    /\ UNCHANGED <<enabled, client, reset, started, workerVars, clientVars, messages, aborted>>

\* on_reset_session: gdm_session_reset stops and frees them all.
OnResetSession ==
    /\ reset /\ reset' = FALSE
    /\ LET all == {current[s] : s \in Services} \ {None}
       IN /\ Free(all)
          /\ conv' = [g \in Convs |-> IF g \in all THEN Freed(g) ELSE conv[g]]
    /\ current' = [s \in Services |-> None]
    /\ Signal("reset", None, None)
    /\ UNCHANGED <<enabled, client, started, convOf, asked, clientVars, messages, aborted>>

-----------------------------------------------------------------------------
(* The worker: gdm_session_worker_pam_new_messages_handler.                *)

\* The next message of a batch; the first one when PAM calls the conversation function.
NextMessage(g, style) ==
    /\ worker[g].state \in {"idle", "batch"}
    /\ Len(worker[g].batch) < MaxBatch
    /\ conv[g].life # "freed"
    /\ worker' = [worker EXCEPT ![g].state = "message", ![g].batch = Append(@, style)]
    /\ UNCHANGED <<sessionVars, call, reply, convOf, asked, clientVars, signals, messages,
                   aborted>>

Message(g) == worker[g].batch[Len(worker[g].batch)]
At(g, styles) == worker[g].state = "message" /\ Message(g) \in styles

\* gdm_session_worker_process_pam_message, a question: the call goes out.
Ask(g) ==
    /\ At(g, {"prompt"} \cup Extensions) /\ Connected(g)
    /\ asked < MaxQueries
    /\ asked' = asked + 1
    /\ convOf' = [convOf EXCEPT ![asked'] = g]
    /\ call' = [call EXCEPT ![g] = asked']
    /\ worker' = [worker EXCEPT ![g].state = "asking"]
    /\ UNCHANGED <<sessionVars, reply, clientVars, signals, messages, aborted>>

\* Text is passed on: gdm_session_handle_info, gdm_session_handle_problem.
Tell(g) ==
    /\ At(g, {"text"}) /\ Connected(g)
    /\ worker' = [worker EXCEPT ![g].state = "batch", ![g].got = Append(@, None)]
    /\ UNCHANGED <<sessionVars, call, reply, convOf, asked, clientVars, signals, messages,
                   aborted>>

\* The replies are wiped and freed, PAM gets PAM_CONV_ERR.
Fail(g) == worker' = [worker EXCEPT ![g].state = "error", ![g].got = <<>>]

\* An unknown style, a truncated, unadvertised or malformed extension message, or a
\* call that fails because the connection is closed.
CannotAsk(g) ==
    /\ \/ At(g, {"invalid"} \cup Extensions)
       \/ At(g, Styles) /\ ~Connected(g)
       \/ worker[g].state = "asking" /\ ~Connected(g)
    /\ Fail(g)
    /\ UNCHANGED <<sessionVars, call, reply, convOf, asked, clientVars, signals, messages,
                   aborted>>

\* The call returns.
AnswerArrives(g) ==
    /\ worker[g].state = "asking" /\ reply[g] # None
    /\ reply' = [reply EXCEPT ![g] = None]
    /\ IF reply[g].ok
       THEN worker' = [worker EXCEPT ![g].state = "batch", ![g].got = Append(@, reply[g].query)]
       ELSE Fail(g)
    /\ UNCHANGED <<sessionVars, call, convOf, asked, clientVars, signals, messages, aborted>>

\* The conversation function returns to PAM, which goes on with what it got.
PamContinues(g) ==
    /\ worker[g].state \in {"batch", "error"}
    /\ worker' = [worker EXCEPT ![g] = Idle]
    /\ UNCHANGED <<sessionVars, call, reply, convOf, asked, clientVars, signals, messages,
                   aborted>>

-----------------------------------------------------------------------------
(* The session.                                                            *)

\* Mutant of SetPendingQuery: only the signal is sent.
SetNoPendingQuery(c, q) == UNCHANGED <<conv, aborted>>

\* set_pending_query asserts that no other query is pending.
SetPendingQuery(c, q) ==
    /\ conv' = [conv EXCEPT ![c].pending = q]
    /\ aborted' = (aborted \/ conv[c].pending # None)

\* gdm_session_handle_info_query, ..._secret_info_query, ..._choice_list_query and
\* ..._custom_json_request: without a client, or one that can show it, the call fails.
HandleQuery(g) ==
    LET q == call[g]
        s == conv[g].service
        style == Message(g)
    IN /\ q # None
       /\ call' = [call EXCEPT ![g] = None]
       /\ IF ~client \/ style \in Extensions \ enabled
          THEN reply' = [reply EXCEPT ![g] = [query |-> q, ok |-> FALSE]] /\ UNCHANGED <<conv, aborted, signals>>
          ELSE /\ IF current[s] = None THEN UNCHANGED <<conv, aborted, signals>>
                  ELSE SetPendingQuery(current[s], q) /\ Signal(style, s, q)
               /\ UNCHANGED reply
       /\ UNCHANGED <<current, enabled, client, reset, started, worker, convOf, asked,
                      clientVars, messages>>

\* Mutant of AnswerQuery: the invocation is not forgotten once it is answered.
AnswerQueryTwice(s, a) ==
    IF current[s] = None \/ conv[current[s]].pending = None THEN UNCHANGED <<conv, reply>>
    ELSE LET g == convOf[conv[current[s]].pending]
         IN /\ reply' = [reply EXCEPT ![g] = IF Connected(g) THEN a ELSE None]
            /\ UNCHANGED conv

\* Mutant of AnswerQuery: the answer goes to whichever service has a pending query.
AnswerQueryAnywhere(s, a) ==
    LET waiting == {c \in Convs : conv[c].life = "live" /\ conv[c].pending # None}
    IN IF waiting = {} THEN UNCHANGED <<conv, reply>>
       ELSE LET c == CHOOSE c \in waiting : TRUE
            IN /\ reply' = [reply EXCEPT ![c] = a]
               /\ conv' = [conv EXCEPT ![c].pending = None]

\* gdm_session_answer_query and gdm_session_report_error: the invocation that is
\* pending at the service is completed; without one nothing happens.
AnswerQuery(s, a) ==
    IF current[s] = None \/ conv[current[s]].pending = None THEN UNCHANGED <<conv, reply>>
    ELSE LET g == convOf[conv[current[s]].pending]
         IN /\ reply' = [reply EXCEPT ![g] = IF Connected(g) THEN a ELSE None]
            /\ conv' = [conv EXCEPT ![current[s]].pending = None]

Arrived(what) == messages # <<>> /\ Head(messages).what = what
Take == messages' = Tail(messages)

\* gdm_session_handle_client_answer_query, ..._select_choice, ..._custom_json_reply,
\* ..._report_error; the methods of an extension exist while it is exported.
HandleAnswer ==
    LET m == Head(messages)
    IN /\ Arrived("answer")
       /\ Take
       /\ IF m.style \in Extensions \ enabled THEN UNCHANGED <<conv, reply>>
          ELSE AnswerQuery(m.service, m.answer)
       /\ UNCHANGED <<current, enabled, client, reset, started, worker, call, convOf, asked,
                      clientVars, signals, aborted>>

\* gdm_session_handle_client_begin_verification: a conversation that is under way
\* refuses another.
HandleBegin ==
    LET s == Head(messages).service
    IN /\ Arrived("begin")
       /\ Take
       /\ IF CanStart(s) THEN StartConversation(s) /\ UNCHANGED signals
          ELSE /\ Signal("refused", s, None)
               /\ UNCHANGED <<current, conv, started, worker, call, reply>>
       /\ UNCHANGED <<enabled, client, reset, convOf, asked, clientVars, aborted>>

\* gdm_session_handle_client_cancel, on_session_cancelled: one reset is queued.
HandleCancel ==
    /\ Arrived("cancel")
    /\ Take
    /\ reset' = TRUE
    /\ UNCHANGED <<current, conv, enabled, client, started, workerVars, clientVars, signals,
                   aborted>>

\* gdm_session_handle_client_enable_extensions exports those that are known.
EnableExtensions(names) == enabled' = names

\* handle_connection_from_outside; the client library enables the extensions before it
\* hands out the verifier.
ClientConnects(names) ==
    /\ ~client /\ client' = TRUE
    /\ EnableExtensions(names)
    /\ UNCHANGED <<current, conv, reset, started, workerVars, clientVars, signals, messages,
                   aborted>>

-----------------------------------------------------------------------------
(* The client (external).                                                  *)

Send(what, s, style, a) ==
    messages' = Append(messages, [what |-> what, service |-> s, style |-> style, answer |-> a])

BeginsUnderWay == Cardinality({i \in DOMAIN messages : messages[i].what = "begin"})

\* Out of turn it begins a service whatever it was told of it.
ClientBegins(s) ==
    /\ client /\ s # Autologin
    /\ started + BeginsUnderWay < MaxConvs
    /\ InTurn => view[s] = "none"
    /\ Send("begin", s, None, None)
    /\ view' = [view EXCEPT ![s] = "begun"]
    /\ UNCHANGED <<sessionVars, workerVars, shown, signals, aborted>>

\* The user answers what is shown, once; the client may report an error instead of a JSON
\* answer, and an answer that is not JSON counts as one.  Out of turn it answers anything,
\* any number of times.
ClientAnswers(s) ==
    /\ client
    /\ \E style \in Styles, q \in Queries, ok \in BOOLEAN :
          /\ InTurn => /\ shown[s] # None
                       /\ style = shown[s].what /\ q = shown[s].query
                       /\ ok \/ style = Json
          /\ Send("answer", s, style, [query |-> q, ok |-> ok])
    /\ shown' = [shown EXCEPT ![s] = None]
    /\ UNCHANGED <<sessionVars, workerVars, view, signals, aborted>>

ClientCancels ==
    /\ client
    /\ InTurn => \E s \in Services : view[s] = "begun"
    /\ Send("cancel", None, None, None)
    /\ shown' = [s \in Services |-> None]
    /\ view' = [s \in Services |-> "cancelling"]
    /\ UNCHANGED <<sessionVars, workerVars, signals, aborted>>

\* After "reset" or "stopped" a service is free, unless a cancellation is under way.
ClientReceives ==
    LET m == Head(signals)
        s == m.service
    IN /\ signals # <<>>
       /\ signals' = Tail(signals)
       /\ CASE m.what = "reset" ->
                 /\ shown' = [t \in Services |-> None]
                 /\ view' = [t \in Services |-> "none"]
            [] m.what \in {"stopped", "failed", "refused"} ->
                 /\ shown' = [shown EXCEPT ![s] = None]
                 /\ view' = [view EXCEPT ![s] = IF @ = "cancelling" THEN @
                                                ELSE IF m.what = "failed" THEN "failed"
                                                ELSE "none"]
            [] OTHER ->
                 /\ shown' = [shown EXCEPT ![s] = IF view[s] = "cancelling" THEN None ELSE m]
                 /\ UNCHANGED view
       /\ UNCHANGED <<sessionVars, workerVars, messages, aborted>>

-----------------------------------------------------------------------------
WorkerStep(g) ==
    \/ WorkerConnects(g) \/ (\E style \in Styles : NextMessage(g, style)) \/ Ask(g) \/ Tell(g) \/ CannotAsk(g)
    \/ AnswerArrives(g) \/ PamContinues(g) \/ WorkerEnds(g)

SessionStep ==
    \/ HandleAnswer \/ HandleBegin \/ HandleCancel \/ OnResetSession
    \/ \E g \in Convs : HandleQuery(g) \/ WorkerExited(g) \/ ConversationFails(g) \/ StopOtherConversations(g)

ClientStep ==
    \/ ClientCancels \/ ClientReceives
    \/ \E s \in Services : ClientBegins(s) \/ ClientAnswers(s)

Next ==
    \/ \E g \in Convs : WorkerStep(g)
    \/ SessionStep
    \/ ClientStep
    \/ \E names \in SUBSET Extensions : ClientConnects(names)
    \/ StartByManager

\* The daemon dispatches what arrives, a worker takes the reply it waits for.
Fairness ==
    /\ WF_vars(HandleAnswer \/ HandleBegin \/ HandleCancel)
    /\ \A g \in Convs : WF_vars(HandleQuery(g)) /\ WF_vars(AnswerArrives(g))

Spec == Init /\ [][Next]_vars /\ Fairness

-----------------------------------------------------------------------------
\* Type correctness of the relay: what is pending, asked or answered is a query.
TypeOK ==
    /\ current \in [Services -> Convs \cup {None}]
    /\ conv \in [Convs -> [service : Services \cup {None}, pending : Queries \cup {None},
                           life : {"unused", "live", "stopping", "freed"}]]
    /\ \A g \in Convs :
          /\ worker[g].state \in {"none", "idle", "message", "asking", "batch", "error", "dead"}
          /\ worker[g].batch \in Seq(Styles)
          /\ Len(worker[g].got) <= Len(worker[g].batch)
    /\ call \in [Convs -> Queries \cup {None}]
    /\ reply \in [Convs -> [query : Queries, ok : BOOLEAN] \cup {None}]
    /\ convOf \in [Queries -> Convs \cup {None}]
    /\ enabled \subseteq Extensions

\* The question a worker waits for an answer to.
Waiting(g, q) == /\ worker[g].state = "asking" /\ conv[g].life = "live"
                 /\ convOf[q] = g
                 /\ \A p \in Queries : convOf[p] = g => p <= q

\* An answer reaches the question it was given for: not the next one of the service,
\* nor one of a conversation that was started meanwhile, although the client names
\* only the service.
RightAnswer ==
    \A g \in Convs : reply[g] # None => Waiting(g, reply[g].query)

\* A worker that waits is waited for: its call is under way, pending at the session in
\* the conversation the client's answers go to, or answered.
NoQueryLost ==
    \A g \in Convs, q \in Queries :
        Waiting(g, q) =>
            \/ call[g] = q
            \/ reply[g] # None
            \/ current[conv[g].service] = g /\ conv[g].pending = q

\* The assertion of set_pending_query holds: an answered query is forgotten before the
\* worker can ask the next one.
NeverAborts == ~aborted

\* PAM gets a reply for every message of a batch, an empty one for a text only, or none at
\* all: what was typed before a failure is not left in memory.
AllOrNothing ==
    \A g \in Convs :
        /\ worker[g].state = "batch" => Len(worker[g].got) = Len(worker[g].batch)
        /\ worker[g].state \notin {"message", "asking", "batch"} => worker[g].got = <<>>
        /\ \A i \in DOMAIN worker[g].got :
              worker[g].got[i] = None <=> worker[g].batch[i] = "text"

\* Every reply in a batch is to a question that its worker asked, each to a later one.
OwnReplies ==
    \A g \in Convs : \A i \in DOMAIN worker[g].got :
        worker[g].got[i] # None =>
            /\ convOf[worker[g].got[i]] = g
            /\ \A j \in 1..(i - 1) :
                  worker[g].got[j] # None => worker[g].got[j] < worker[g].got[i]

\* What the user has answered gets through: the worker goes on, or its conversation
\* is over.
AnswersGetThrough ==
    \A q \in Queries :
        (\E i \in DOMAIN messages : messages[i].what = "answer" /\ messages[i].answer.query = q)
            ~> \A g \in Convs : ~Waiting(g, q)
====
