-------------------------- MODULE Reauthentication --------------------------
(***************************************************************************)
(* Reauthentication: an unlock screen, or a login screen on behalf of a    *)
(* user who is logged in already, asks the manager for a channel on which  *)
(* to verify the user (OpenReauthenticationChannel, daemon/gdm-manager.c). *)
(* The worker of a running session opens it (daemon/gdm-session-worker.c), *)
(* asked through the session's GdmSession (daemon/gdm-session.c); for a    *)
(* frozen session, and for one the manager does not know, the manager      *)
(* itself opens a temporary one.  A channel is a GdmSession in             *)
(* reauthentication mode with a D-Bus server of its own.  It is kept alive *)
(* by the table it is in and by every conversation that runs on it.        *)
(*                                                                         *)
(* Sessions belong to different users; the process that asks from inside a *)
(* session is named after the session.                                     *)
(***************************************************************************)
EXTENDS Naturals, Sequences, FiniteSets

CONSTANTS
    Sessions,         \* the sessions of the manager's user_sessions
    LoginScreens,     \* login screens
    Unmanaged,        \* sessions that another program has started
    Remote,           \* the sessions and login screens on remote displays
    MaxRequests,      \* bound: calls of OpenReauthenticationChannel
    MaxSignals,       \* bound: Reauthenticated signals of a worker not dispatched yet
    None

Callers == Sessions \cup LoginScreens \cup Unmanaged
Channels == 1..MaxRequests
Requests == 1..MaxRequests

ASSUME ReauthAssumptions ==
    /\ Sessions \cap (LoginScreens \cup Unmanaged) = {}
    /\ LoginScreens \cap Unmanaged = {}
    /\ Remote \subseteq Sessions \cup LoginScreens
    /\ MaxRequests \in Nat /\ MaxSignals \in Nat
    /\ None \notin Callers \cup Nat

VARIABLES
    session,          \* running, frozen (by systemd), its program over, or ended
    request,          \* the OpenReauthenticationChannel invocations
    asked,            \* how many there were
    waiting,          \* open_reauthentication_requests: caller -> invocation
    reauthPid,        \* the session conversation's reauth_pid_of_caller
    calls,            \* StartReauthentication calls on their way to the worker
    replies,          \* replies and signals on their way from the worker
    chan,             \* the channels
    opened,           \* how many there were
    table,            \* reauthentication_requests of each worker: caller -> channel
    transient,        \* transient_sessions of the manager: caller -> channel
    unlocked,         \* sessions that logind was asked to activate and unlock
    redirected        \* session -> the login screen whose remote id it was given

askVars == <<request, asked, waiting>>
sessionVars == <<session, reauthPid, calls, replies>>
chanVars == <<chan, opened, table, transient>>
outVars == <<unlocked, redirected>>
vars == <<askVars, sessionVars, chanVars, outVars>>

NoRequest == [caller |-> None, of |-> None, state |-> "none", address |-> None, alone |-> TRUE]
NoChannel == [owner |-> "none", of |-> None, caller |-> None, server |-> FALSE,
              client |-> "none", conv |-> FALSE, verified |-> FALSE]

Init ==
    /\ session = [s \in Sessions |-> "running"]
    /\ request = [i \in Requests |-> NoRequest]
    /\ asked = 0
    /\ waiting = [p \in Callers |-> None]
    /\ reauthPid = [s \in Sessions |-> None]
    /\ calls = [s \in Sessions |-> <<>>]
    /\ replies = [s \in Sessions |-> <<>>]
    /\ chan = [c \in Channels |-> NoChannel]
    /\ opened = 0
    /\ table = [s \in Sessions |-> [p \in Callers |-> None]]
    /\ transient = [p \in Callers |-> None]
    /\ unlocked = {}
    /\ redirected = [s \in Sessions |-> None]

-----------------------------------------------------------------------------
(* The life of a channel.                                                  *)

\* Where a channel is found by its events.
Held(c, tb, tr) ==
    \/ \E s \in Sessions, p \in Callers : tb[s][p] = c
    \/ \E p \in Callers : tr[p] = c

\* gdm_session_dispose stops the server and lets go of the connection.
Disposed(r) ==
    [r EXCEPT !.server = FALSE, !.conv = FALSE,
              !.client = IF @ = "connected" THEN "gone" ELSE @]

\* The last reference to a channel goes when it is in no table and no conversation
\* runs on it.
Settle(ch, tb, tr) ==
    /\ chan' = [c \in Channels |->
                   IF ch[c].server /\ ~ch[c].conv /\ ~Held(c, tb, tr)
                   THEN Disposed(ch[c]) ELSE ch[c]]
    /\ table' = tb
    /\ transient' = tr

NewChannel(owner, s, p) ==
    [NoChannel EXCEPT !.owner = owner, !.of = s, !.caller = p, !.server = TRUE]

-----------------------------------------------------------------------------
(* The manager: OpenReauthenticationChannel.                               *)

\* The invocation is the next one; it was sent for session s, or for None.
NewRequest(i, p, s, state, address) ==
    [request EXCEPT ![i] = [caller |-> p, of |-> s, state |-> state, address |-> address,
                            alone |-> TRUE]]

Deny(i, p) ==
    /\ request' = NewRequest(i, p, None, "denied", None)
    /\ UNCHANGED <<waiting, sessionVars, chanVars, outVars>>

\* History: requests of which the calls are under way at one session together.  A
\* request is alone when it shares neither its session nor its caller with another
\* call under way.
InFlight(s) == {i \in Requests : request[i].of = s /\ request[i].state = "sent"}

Sent(i, p, s) ==
    [j \in Requests |->
        IF j = i THEN [caller |-> p, of |-> s, state |-> "sent", address |-> None,
                       alone |-> /\ calls[s] = <<>> /\ replies[s] = <<>>
                                 /\ \A t \in Sessions : reauthPid[t] # p]
        ELSE IF j \in InFlight(s) \/ j = waiting[p] THEN [request[j] EXCEPT !.alone = FALSE]
        ELSE request[j]]

\* Mutant of StartReauthentication: the caller's pid is not kept.
StartReauthenticationForgets(i, p, s) ==
    /\ calls' = [calls EXCEPT ![s] = Append(@, p)]
    /\ request' = Sent(i, p, s)
    /\ waiting' = [waiting EXCEPT ![p] = i]
    /\ UNCHANGED <<session, reauthPid, replies, chanVars, outVars>>

\* gdm_session_start_reauthentication; an older request of the same caller loses its
\* place in the table, and with it its only reference.
StartReauthentication(i, p, s) ==
    /\ reauthPid' = [reauthPid EXCEPT ![s] = p]
    /\ calls' = [calls EXCEPT ![s] = Append(@, p)]
    /\ request' = Sent(i, p, s)
    /\ waiting' = [waiting EXCEPT ![p] = i]
    /\ UNCHANGED <<session, replies, chanVars, outVars>>

\* open_temporary_reauthentication_channel: an older one of the same caller is replaced.
OpenTemporary(i, p, s) ==
    /\ opened' = opened + 1
    /\ request' = NewRequest(i, p, s, "answered", opened')
    /\ Settle([chan EXCEPT ![opened'] = NewChannel("manager", s, p)], table,
              [transient EXCEPT ![p] = opened'])
    /\ UNCHANGED <<waiting, sessionVars, outVars>>

\* are_sessions_compatible, with one seat.
Compatible(p, s) == p \in Remote <=> s \in Remote

\* find_session_for_user, for a login screen; the caller's own session otherwise.
\* session_pid is still set while a session's program is over and its end not noticed.
Found(p, s) ==
    /\ s # None
    /\ session[s] \in {"running", "over", "frozen"}
    /\ p \in LoginScreens => Compatible(p, s)

\* gdm_manager_handle_open_reauthentication_channel.  Access is denied to a caller
\* whose own session or uid is not found, and to a login screen when the user has no
\* running session or one that is not compatible.
OpenReauthenticationChannel(p, s) ==
    /\ asked < MaxRequests
    /\ asked' = asked + 1
    /\ p \in Sessions => s = p /\ session[p] # "ended"
    /\ p \in Unmanaged => s = None
    /\ \/ Deny(asked', p)
       \/ /\ Found(p, s) /\ session[s] # "frozen"
          /\ StartReauthentication(asked', p, s)
       \/ /\ Found(p, s) /\ session[s] = "frozen"
          /\ OpenTemporary(asked', p, IF p \in LoginScreens THEN s ELSE None)
       \/ p \in Unmanaged /\ OpenTemporary(asked', p, None)

-----------------------------------------------------------------------------
(* The worker of a session.                                                *)

\* gdm_session_worker_handle_start_reauthentication: refused when the session program
\* is over; an older request of the same caller is freed, and its handlers go.
HandleStartReauthentication(s) ==
    /\ session[s] \in {"running", "over"}
    /\ calls[s] # <<>>
    /\ calls' = [calls EXCEPT ![s] = Tail(@)]
    /\ LET p == Head(calls[s])
       IN \/ /\ session[s] = "running"
             /\ opened' = opened + 1
             /\ replies' = [replies EXCEPT ![s] =
                               Append(@, [what |-> "started", channel |-> opened'])]
             /\ Settle([chan EXCEPT ![opened'] = NewChannel("worker", s, p)],
                       [table EXCEPT ![s][p] = opened'], transient)
          \/ /\ session[s] = "over"
             /\ replies' = [replies EXCEPT ![s] =
                               Append(@, [what |-> "refused", channel |-> None])]
             /\ UNCHANGED chanVars
    /\ UNCHANGED <<askVars, session, reauthPid, outVars>>

NextReply(s, what) == session[s] # "ended" /\ replies[s] # <<>> /\ Head(replies[s]).what = what
TakeReply(s) == replies' = [replies EXCEPT ![s] = Tail(@)]

\* Mutant of Answer: every request that waits is completed.
AnswerAll(p, address) ==
    /\ request' = [i \in Requests |->
                      IF \E q \in Callers : waiting[q] = i
                      THEN [request[i] EXCEPT !.state = "answered", !.address = address]
                      ELSE request[i]]
    /\ waiting' = [q \in Callers |-> None]

\* on_session_reauthentication_started: the invocation of that pid, if there is one,
\* is completed and leaves the table.
Answer(p, address) ==
    IF p = None \/ waiting[p] = None THEN UNCHANGED <<request, waiting>>
    ELSE /\ request' = [request EXCEPT ![waiting[p]].state = "answered",
                                       ![waiting[p]].address = address]
         /\ waiting' = [waiting EXCEPT ![p] = None]

\* on_reauthentication_started_cb: a failure is not reported to the caller.
ReauthenticationStarted(s) ==
    /\ \/ NextReply(s, "started") /\ Answer(reauthPid[s], Head(replies[s]).channel)
       \/ NextReply(s, "refused") /\ UNCHANGED <<request, waiting>>
    /\ reauthPid' = [reauthPid EXCEPT ![s] = None]
    /\ TakeReply(s)
    /\ UNCHANGED <<asked, session, calls, chanVars, outVars>>

\* Mutant of RedirectedBy: the pid of the request that was opened last.
RedirectedByLast(s, c) == reauthPid[s]

\* The pid in the worker's signal.
RedirectedBy(s, c) == chan[c].caller

\* switch_to_compatible_user_session: a session that is gone, or that logind does not
\* activate, is not unlocked.
SwitchTo(s) ==
    \/ UNCHANGED unlocked
    \/ session[s] # "ended" /\ unlocked' = unlocked \cup {s}

\* session_unlock, of a session that gdm does not manage or of the caller's own.
SessionUnlock(s) == unlocked' = unlocked \cup {s}

\* on_session_reauthenticated: the remote id of the login screen's display goes to the
\* session's, which then is activated and unlocked.
Reauthenticated(s) ==
    /\ NextReply(s, "reauthenticated")
    /\ LET l == RedirectedBy(s, Head(replies[s]).channel)
       IN redirected' = IF l \in LoginScreens \cap Remote /\ s \in Remote
                        THEN [redirected EXCEPT ![s] = l] ELSE redirected
    /\ SwitchTo(s)
    /\ TakeReply(s)
    /\ UNCHANGED <<askVars, session, reauthPid, calls, chanVars>>

-----------------------------------------------------------------------------
(* The client of a channel, and the handlers of its GdmSession's signals.  *)

\* The process that owns the channel is not frozen.
Runs(c) == chan[c].owner = "worker" => session[chan[c].of] \in {"running", "over"}

Tracked(c) == table[chan[c].of][chan[c].caller] = c

\* close_transient_session: the entry of its caller is removed, whichever it is.
CloseTransient(c, ch) ==
    Settle([ch EXCEPT ![c].conv = FALSE], table, [transient EXCEPT ![chan[c].caller] = None])

\* The caller connects to the address it was given (external); another user is not
\* let in (allow_user_function).
Connect(i) ==
    LET c == request[i].address
    IN /\ request[i].state = "answered"
       /\ chan[c].server /\ chan[c].client = "none" /\ Runs(c)
       /\ chan[c].caller = request[i].caller
       /\ chan' = [chan EXCEPT ![c].client = "connected"]
       /\ UNCHANGED <<askVars, sessionVars, opened, table, transient, outVars>>

\* on_reauthentication_client_rejected of the manager, for a process of the caller's
\* login session; one of another session changes nothing.
RejectClient(c) ==
    /\ chan[c].owner = "manager" /\ chan[c].server /\ chan[c].client = "none"
    /\ CloseTransient(c, chan)
    /\ UNCHANGED <<askVars, sessionVars, opened, outVars>>

Talks(c) == chan[c].client = "connected" /\ Runs(c)

BeginVerification(c) ==
    /\ Talks(c) /\ ~chan[c].conv
    /\ chan' = [chan EXCEPT ![c].conv = TRUE]
    /\ UNCHANGED <<askVars, sessionVars, opened, table, transient, outVars>>

\* The conversation's worker ends: verification has failed.
ConversationStops(c) ==
    /\ chan[c].conv /\ Runs(c)
    /\ Settle([chan EXCEPT ![c].conv = FALSE], table, transient)
    /\ UNCHANGED <<askVars, sessionVars, opened, outVars>>

\* on_reauthentication_cancelled of the worker and of the manager.
Cancel(c) ==
    /\ Talks(c)
    /\ \/ /\ chan[c].owner = "worker"
          /\ chan' = IF Tracked(c) THEN [chan EXCEPT ![c].conv = FALSE] ELSE chan
          /\ UNCHANGED <<table, transient>>
       \/ chan[c].owner = "manager" /\ CloseTransient(c, chan)
    /\ UNCHANGED <<askVars, sessionVars, opened, outVars>>

\* Mutant of Removed: the handler of a request that was replaced is still connected.
RemovedAnyway(c) == [table EXCEPT ![chan[c].of][chan[c].caller] = None]

\* g_hash_table_remove, by a handler that is disconnected when its request is freed.
Removed(c) ==
    IF Tracked(c) THEN [table EXCEPT ![chan[c].of][chan[c].caller] = None] ELSE table

\* on_reauthentication_client_disconnected: the worker removes the request, which
\* leaves the conversations of its session alone.
Disconnect(c) ==
    /\ Talks(c)
    /\ LET gone == [chan EXCEPT ![c].client = "gone"]
       IN \/ /\ chan[c].owner = "worker"
             /\ Settle(gone, Removed(c), transient)
          \/ chan[c].owner = "manager" /\ CloseTransient(c, gone)
    /\ UNCHANGED <<askVars, sessionVars, opened, outVars>>

SignalsQueued(s) ==
    Cardinality({i \in DOMAIN replies[s] : replies[s][i].what = "reauthenticated"})

\* on_reauthentication_verification_complete of the worker: the channel stays open.
VerificationComplete(c) ==
    /\ chan[c].owner = "worker" /\ chan[c].conv /\ Runs(c)
    /\ SignalsQueued(chan[c].of) < MaxSignals
    /\ \/ /\ Tracked(c)
          /\ chan' = [chan EXCEPT ![c].conv = FALSE, ![c].verified = TRUE]
          /\ replies' = [replies EXCEPT ![chan[c].of] =
                            Append(@, [what |-> "reauthenticated", channel |-> c])]
       \/ /\ ~Tracked(c)
          /\ chan' = [chan EXCEPT ![c].verified = TRUE]
          /\ UNCHANGED replies
    /\ UNCHANGED <<askVars, session, reauthPid, calls, opened, table, transient, outVars>>

\* ... and of the manager: the frozen session, or else the caller's own, is unlocked.
TransientVerificationComplete(c) ==
    /\ chan[c].owner = "manager" /\ chan[c].conv
    /\ \/ chan[c].of # None /\ SwitchTo(chan[c].of)
       \/ chan[c].of = None /\ SessionUnlock(chan[c].caller)
    /\ CloseTransient(c, [chan EXCEPT ![c].verified = TRUE])
    /\ UNCHANGED <<askVars, sessionVars, opened, redirected>>

-----------------------------------------------------------------------------
(* The environment: systemd freezes and thaws sessions, users log out.     *)

Freeze(s) ==
    /\ \/ session[s] = "running" /\ session' = [session EXCEPT ![s] = "frozen"]
       \/ session[s] = "frozen" /\ session' = [session EXCEPT ![s] = "running"]
    /\ UNCHANGED <<askVars, reauthPid, calls, replies, chanVars, outVars>>

ProgramEnds(s) ==
    /\ session[s] = "running"
    /\ session' = [session EXCEPT ![s] = "over"]
    /\ UNCHANGED <<askVars, reauthPid, calls, replies, chanVars, outVars>>

\* The session is closed, its worker gone: calls without an answer end with CLOSED,
\* which on_reauthentication_started_cb ignores.
SessionEnds(s) ==
    /\ session[s] # "ended"
    /\ session' = [session EXCEPT ![s] = "ended"]
    /\ calls' = [calls EXCEPT ![s] = <<>>]
    /\ replies' = [replies EXCEPT ![s] = <<>>]
    /\ reauthPid' = [reauthPid EXCEPT ![s] = None]
    /\ chan' = [c \in Channels |->
                   IF chan[c].owner = "worker" /\ chan[c].of = s THEN Disposed(chan[c])
                   ELSE chan[c]]
    /\ table' = [table EXCEPT ![s] = [p \in Callers |-> None]]
    /\ UNCHANGED <<askVars, opened, transient, outVars>>

ChannelStep(c) ==
    \/ RejectClient(c) \/ BeginVerification(c) \/ ConversationStops(c) \/ Cancel(c)
    \/ Disconnect(c) \/ VerificationComplete(c) \/ TransientVerificationComplete(c)

Next ==
    \/ \E p \in Callers, s \in Sessions \cup {None} : OpenReauthenticationChannel(p, s)
    \/ \E s \in Sessions :
          \/ HandleStartReauthentication(s) \/ ReauthenticationStarted(s)
          \/ Reauthenticated(s) \/ Freeze(s) \/ ProgramEnds(s) \/ SessionEnds(s)
    \/ \E i \in Requests : Connect(i)
    \/ \E c \in Channels : ChannelStep(c)

\* A worker that is not frozen runs, and the daemon dispatches what it sends.
Fairness ==
    \A s \in Sessions :
        /\ SF_vars(HandleStartReauthentication(s))
        /\ WF_vars(ReauthenticationStarted(s) \/ Reauthenticated(s))

Spec == Init /\ [][Next]_vars /\ Fairness

-----------------------------------------------------------------------------
\* Every variable has its type.
TypeOK ==
    /\ session \in [Sessions -> {"running", "frozen", "over", "ended"}]
    /\ request \in [Requests -> [caller : Callers \cup {None}, of : Sessions \cup {None},
                                 state : {"none", "denied", "sent", "answered"},
                                 address : Channels \cup {None}, alone : BOOLEAN]]
    /\ asked \in 0..MaxRequests
    /\ waiting \in [Callers -> Requests \cup {None}]
    /\ reauthPid \in [Sessions -> Callers \cup {None}]
    /\ calls \in [Sessions -> Seq(Callers)]
    /\ replies \in [Sessions -> Seq([what : {"started", "refused", "reauthenticated"},
                                     channel : Channels \cup {None}])]
    /\ chan \in [Channels -> [owner : {"none", "worker", "manager"}, of : Sessions \cup {None},
                              caller : Callers \cup {None}, server : BOOLEAN,
                              client : {"none", "connected", "gone"}, conv : BOOLEAN,
                              verified : BOOLEAN]]
    /\ opened \in 0..MaxRequests
    /\ table \in [Sessions -> [Callers -> Channels \cup {None}]]
    /\ transient \in [Callers -> Channels \cup {None}]
    /\ unlocked \subseteq Sessions \cup Unmanaged
    /\ redirected \in [Sessions -> LoginScreens \cup {None}]

\* A caller whose request was alone is given the address of the channel that was opened
\* for it, by that session's worker: the reply is matched to the caller through the
\* session's one reauth_pid_of_caller, and to the request through its caller.
OwnChannel ==
    \A i \in Requests :
        request[i].state = "answered" /\ request[i].alone =>
            /\ chan[request[i].address].caller = request[i].caller
            /\ chan[request[i].address].of = request[i].of

\* ... and so is every caller: what the client library hands out "can be used to
\* reauthenticate".
EveryoneOwnChannel ==
    \A i \in Requests :
        request[i].state = "answered" =>
            chan[request[i].address].caller = request[i].caller

\* A caller whose request is alone gets an answer, however often the
\* session is frozen and thawed, unless it ends or stays frozen for good.
AloneIsAnswered ==
    \A i \in Requests, s \in Sessions :
        (request[i].state = "sent" /\ request[i].alone /\ request[i].of = s)
            ~> \/ request[i].state = "answered" \/ ~request[i].alone
               \/ session[s] \in {"over", "ended"}
               \/ [](session[s] = "frozen")

\* A temporary channel does not outlive its client: no conversation, which has a
\* privileged worker, is left behind on it.
TemporaryEndsWithClient ==
    \A c \in Channels :
        chan[c].owner = "manager" /\ chan[c].client = "gone" => ~chan[c].conv /\ ~chan[c].server

\* A session is unlocked only after a verification on a channel that was opened for
\* it, and the remote connection of a login screen is redirected to it only when that
\* login screen had asked for the channel.
UnlockIsEarned ==
    /\ \A s \in unlocked :
          \E c \in Channels : chan[c].verified /\ s \in {chan[c].of, chan[c].caller}
    /\ \A s \in Sessions :
          redirected[s] # None =>
              \E c \in Channels : /\ chan[c].verified /\ chan[c].of = s
                                 /\ chan[c].caller = redirected[s]

\* The newest channel of a caller stays in its worker's table until its own client
\* goes, whatever becomes of the channels it has replaced.
WorkerKeepsNewest ==
    [][\A s \in Sessions, p \in Callers :
           LET c == table[s][p]
           IN c # None /\ table'[s][p] # c =>
                  \/ session'[s] = "ended"
                  \/ opened' # opened
                  \/ chan[c].client = "connected" /\ chan'[c].client = "gone"]_vars

\* A channel ends by what its own client or conversation does, or with its session.
\* Two go together only if they have the same caller and are held by the same worker, when
\* the newer replaces the older, or by the manager, where the older, when it ends, takes
\* the newer along (gdm-manager.c, close_transient_session); and then a conversation runs
\* on one of them at most.
ChannelsEndWithCaller ==
    [][\A c, d \in Channels :
           /\ chan[c].server /\ ~chan'[c].server
           /\ c # d /\ chan'[d] # chan[d]
           => \/ /\ chan'[d].caller = chan[c].caller /\ chan'[d].owner = chan[c].owner
                 /\ ~(chan[c].conv /\ chan[d].conv)
                 /\ chan[c].owner = "worker" => chan'[d].of = chan[c].of /\ opened' = d
              \/ \E s \in Sessions : session[s] # "ended" /\ session'[s] = "ended"]_vars

\* The manager, too, cleans up a client's own channel, "its session object": a
\* channel that ends does not take another with it.
ChannelsEndAlone ==
    [][\A c \in Channels :
           chan[c].server /\ ~chan'[c].server =>
               \/ \A d \in Channels \ {c} : chan'[d] = chan[d]
               \/ opened' # opened
               \/ \E s \in Sessions : session'[s] # session[s]]_vars
====
