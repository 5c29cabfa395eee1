# A TLA+ verification project for GDM

This directory models the GNOME Display Manager, the daemon that shows login
screens, authenticates users through PAM and starts and ends their sessions.
The modules are written from the C code in `daemon/`, `common/` and `libgdm/`; `PROJECT.json`
maps every definition to the lines it stands for. TLC checks the modules on
small instances, TLAPS proves theorems about each of them for every value of
its constants.

Contents: 1 the system, 2 the modules, 3 what the runs show, 4 bounds and
fairness, 5 what is proved, 6 disagreements found, 7 what is not modelled,
8 the plan.

## 1. The system

GDM is one daemon process and one *worker* process per conversation. Everything
in the daemon happens on one main loop (with one helper thread); what makes it
hard is not parallelism but the order in which replies, signals, timers and idle
sources are dispatched, and handlers that run nested inside one another.

| component | state | operations | talks to |
|---|---|---|---|
| Session worker (`gdm-session-worker.c`, `session-worker-main.c`) | state of the PAM transaction, pending D-Bus call, PAM handle, settings of the user, child, VT | Initialize, Authenticate, Authorize, EstablishCredentials, Open, StartProgram; the idle that makes one step; child watch; SIGTERM | PAM (blocking calls), AccountsService, kernel VTs, the session object |
| Session (`gdm-session.c`) | hash table of conversations, the conversation that runs the session, pid, the greeter's connection | start/stop/free conversations, callbacks of every worker call, reset, close, start | workers, greeter, manager (signals) |
| Worker job (`gdm-session-worker-job.c`) | pid, child watch | spawn, stop, stop now, child watch | worker process |
| Manager (`gdm-manager.c`) | user sessions, queued resets and starts, automatic login | handlers of session and display signals, RegisterDisplay, RegisterSession, OpenSession, reauthentication | all |
| Displays (`gdm-display.c`, `gdm-local-display.c`, `gdm-remote-display.c`) | status, seat, session, finish idle, launch environment | prepare, unmanage, finish, start and stop the greeter | factory and manager (`notify::status`) |
| Display store (`gdm-display-store.c`) | displays by id | add, remove, find, foreach | factories |
| Local display factory (`gdm-local-display-factory.c`, `gdm-display-factory.c`) | failures, active VT, graphics check timer, wait timer, purge idle | ensure a display for a seat; status, seat, udev and VT handlers | logind, udev, kernel |
| Remote display factory (`gdm-remote-display-factory.c`) | number of remote displays, suspend inhibitor, users with displays | create and destroy displays, inhibit and release | logind (asynchronous) |
| Launch environment (`gdm-launch-environment.c`) | its session, pid, dynamic user | start, stop, relay of its session's signals | session, dynamic users, display |
| Dynamic users (`gdm-dynamic-user-store.c`) | users by name and by UID, next UID | create, remove; varlink lookups in a thread | NSS, `/etc/passwd` lock |
| PAM query relay (`gdm-session-worker.c`, `gdm-session.c`) | the pending query of each conversation, the enabled extensions | the PAM conversation function; Info, Problem, InfoQuery, SecretInfoQuery, choice lists and JSON; the client's answers and cancellation | worker, session, greeter |
| Reauthentication (`gdm-manager.c`, `gdm-session.c`, `gdm-session-worker.c`) | open requests, channels of workers, temporary sessions of the manager | OpenReauthenticationChannel, StartReauthentication, clients that come, verify, cancel and go, unlocking | manager, session, worker, logind |
| Launchers (`gdm-x-session.c`, `gdm-wayland-session.c`) | X server, bus, session, imported environment, registration timer | start each, register, stop on whichever ends first, take everything down | manager (RegisterDisplay, RegisterSession), the user's systemd |
| Client library (`libgdm/gdm-client.c`) | shared proxies, handlers of closed connections, enabled extensions | get the verifier, greeter and reauthentication channel, synchronously or not | manager, session |
| Settings, logging, auditing, utmp, utilities, PAM module | files | I/O and conversions | - |

How a login goes: the local factory adds a display for a seat and prepares it;
the manager, notified, gets a dynamic user for the greeter, makes a session
object for it and starts its launch environment. The greeter registers, opens a
channel to its session object and begins one conversation per PAM service; each
has a worker, which the session object walks through PAM. The first conversation
to be opened is started by an idle of the manager in a display of its own; the
login screen waits in the background and is finished when the VT has moved on.
When the session ends its display is unmanaged, finished and purged, and the
factory puts a login screen back.

What is hard here, and what should hold (the list at the lines where each bites
is under "hazards" in `PROJECT.json`):

* **Worker**: calls in a wrong order or while one is pending; a failure at any
  stage, after which exactly what was done must be undone; settings that arrive
  late; death of the program or SIGTERM at any point. A program must run only
  after a complete login, every accepted call must be answered once, nothing
  may outlive the transaction.
* **Session**: a reply already received for a conversation that is freed before it
  is dispatched; a service restarted while its old worker is stopping; two
  conversations that win together; resets and starts queued in a state that is
  gone. No freed conversation may be used, none may leak, one program may run.
* **Dynamic users**: two indexes read by another thread; a UID search that calls
  back into the process; other programs taking UIDs; failures half way.
* **Remote factory**: a descriptor that logind returns after the displays it was
  asked for have gone.
* **Local displays**: status notifications that nest, a failure limit that a finish
  must not undo, timers and idles that race VT switches, seats that vanish.
* **Query relay**: an answer names a PAM service and no question, while questions are
  cancelled, conversations restarted and the next question is on its way; a worker
  that waits in a call without a time-out must never be forgotten.
* **Reauthentication**: callers, sessions, workers and the manager each keep a piece of
  one request, sessions freeze and end in the middle, and the verification that
  unlocks must be one that was made for the session that is unlocked.
* **Launchers**: SIGTERM or the end of a part while other parts are still being
  started, and several sources ready in one iteration of the main loop.
* **Client library**: overlapping requests for one shared proxy, connections that close
  at any moment, extension proxies that complete in any order.

## 2. The modules

| module | models | main variables |
|---|---|---|
| `LoginTransaction` | what a worker promises: stages one at a time, a program only from an opened session, everything given back (abstract) | `stage`, `program`, `held` |
| `SessionWorker` | one worker process | `state`, `pending`, `idle`, `pam`, `granted`, `sessionOpen`, `creds`, `child`, `settings`, VTs |
| `Session` | one session object in login mode, its jobs and the manager's handlers of its signals | `conversations`, `conv`, `sessionConversation`, `idles`, `userSessions` |
| `DynamicUserStore` | the store, its varlink thread, launch environments as owners of users, other programs | `byName`, `byUid`, `nextAlloc`, `pc`, `mutex`, `pwdLock` |
| `RemoteDisplayFactory` | remote and headless displays and the inhibitor | `store`, `count`, `suspendInhibited`, `inhibitCalls`, `fd` |
| `LocalDisplays` | local displays, their store and factory, and the manager's part in their status | `displays`, `calls`, `idles`, `numFailures`, `activeVt`, timers, `seats` |
| `QueryRelay` | a question of a PAM module on its way to the client and the answer on its way back | `conv`, `worker`, `call`, `reply`, `signals`, `messages`, `shown` |
| `Reauthentication` | channels to reauthenticate on, from the request to the unlock | `request`, `waiting`, `reauthPid`, `calls`, `replies`, `chan`, `table`, `transient` |
| `SessionLauncher` | the X and the Wayland session program | `pc`, `proc`, `tracked`, `watch`, `ready`, `timer`, `sessionEnv` |
| `GdmClient` | one `GdmClient` object and its requests | `slot`, `handlers`, `conns`, `phase`, `table`, `creating`, `data` |
| `MC*` | one per component, for TLC | |
| `*_proofs` | theorems: one module for each of the above, `Displays_proofs` for both factories of displays | |

**SessionWorker.** One action per D-Bus method (`Handle*`), one per step of
`state_change_idle` (`Do*`), and one for each return of a blocking PAM call
(`*Returns`), because signals fall between. `pending`, `idle` and `blocked` are
`pending_invocation`, `state_change_idle_id` and the call the main loop sits in.
Undoing a transaction decides by `state` alone, as the code does, while
`sessionOpen`, `creds` and the history `granted` say what PAM really did. The
settings of the user go through "unloaded", "loading", "loaded"; `onLoaded` is the
signal handler that resumes a waiting step. SIGTERM is fatal until
`on_state_changed` has seen SESSION_STARTED (`sigHandled`). The calls come in any order: the
daemon's `gdm_session_start_session` asks neither whether the worker is opened nor
whether it is busy, and `gdm_session_worker_handle_start_program` carries out a call that
`validate_state_change` has refused and answered. Such a call replaces the pending one
(`refusedStarts` remembers it), may be answered again, which uses a freed invocation
(`AnswersFreedInvocation`: the process may or may not survive that), and may leave an idle in a state it
cannot leave (`AssertionFails`). A second Initialize makes new settings, while the handler on
the earlier ones stays connected (`earlierLoads`). The worker
implements `LoginTransaction` all the same; the state ACCOUNT_DETAILS_SAVED is internal.

**Session.** A conversation is a record: memory (live, freed), connection, the
calls its worker has not answered and the replies that wait in the main context,
its worker process. Every `on_*_cb` is an action that takes the oldest waiting
reply, so that any handler can run between the arrival and the dispatch of a
reply. Freeing cancels; a callback that touches a freed structure corrupts it, and
a handler that walks over a NULL entry sets `crashed`. `gdm_session_get_session_id` reads
`session_conversation` wherever the manager looks for a user's session or a worker is set up for a user;
the freed conversations it has read so are in `misread`. BeginAutoLogin of the client may come at any
time, for a conversation in the middle of its pipeline too. Workers are external here:
they do what `LoginTransaction` promises, carry out a StartProgram they refused, and may end at any time. The manager's
idles are in `idles` in the order they were queued.

**DynamicUserStore.** The main thread's steps while it creates or removes a user
are separate actions, so that the varlink thread (`mutex`) and other programs
(`pwdLock`) get in between. `pick_uid` asks the system, and the question comes
back to the varlink thread (`VarlinkReplyToDaemon`).

**RemoteDisplayFactory.** Displays come and go between the call to logind and its
answer; `openFds` are the descriptors that are really open.

**LocalDisplays.** `g_object_notify` is synchronous: a change of status runs the
manager's handler and then the factory's inside the call, and these change the
status of this and other displays again. `calls` is the stack of calls still to be
made before the main loop goes on; every function that may notify is an entry, and
while the stack is not empty nothing else happens. `idles` is the order of
the idle sources, the purge and the queued finishes: the pairs of them of which the first was added no
later. A property set with `g_object_set`
notifies even when its value is the same; `_gdm_display_set_status` does not. A property is
not notified again inside its own notification on the same object (`G_SIGNAL_NO_RECURSE`): the
notification starts anew instead, which is what happens to a display whose greeter gets no
dynamic user (`GreeterHasNoUser`). A
display that leaves the store is disposed. logind's list of login windows is
derived from the sessions of the displays, any one of which may be named first.

**QueryRelay.** A batch of messages of the PAM conversation function is gone through
one message at a time; a question is a call that travels to the session (`call`),
becomes the pending invocation of its conversation, is signalled to the client
(`signals`), and the client's answer comes back (`messages`, `reply`). Every
connection keeps the order of its messages and nothing relates two connections.
What the client knows (`shown`, `view`) lags behind. Conversations end, are cancelled,
are stopped because another one is started, idle or asking, and are restarted by BeginVerification; their workers are killed or end by themselves.
`InTurn` says whether the client begins a conversation of a service only when it holds
none to be under way, answers what it was shown and cancels only what it began, or makes any of these calls at any time. The
client is not part of this repository; the run takes TRUE and section 6 says what
FALSE allows.

**Reauthentication.** A request is looked up by its caller in
`open_reauthentication_requests`, sent to the worker of the session, matched on the
way back through the one `reauth_pid_of_caller` of the session's conversation, and
answered with the address of a channel. A frozen session, and one the manager does
not know, get a temporary channel of the manager. A channel is a GdmSession of its
own: a server, a client, a conversation; `alone` (history) marks requests that
shared neither their session nor their caller with another one under way.

**SessionLauncher.** `pc` walks through `main` of either program; every synchronous step may
fail, and each failure goes to the code's own `out:` label. `ready` is what one
iteration of the main loop found ready, dispatched in any order. `tracked` are the
subprocess fields that are not NULL, `greeted` the parts that ever were; SIGTERM waits
in `term` until the loop runs. The merged environment is a function from variables to
where the value came from: the user's systemd (`IsImported`), the launcher's own environment, or the launcher itself, for the
addresses of the parts it has started (`LauncherVars`).

**GdmClient.** A request walks through `phase`; asynchronous ones overlap and the proxy
enters its `slot` when its caller finishes it. A connection goes from open through
closing (the signal is not dispatched yet) to closed. The extension proxies of one
verifier complete in any order and share one `UserVerifierData` (`data`).

## 3. What the runs show

`tlc -config X.cfg M` with the module and configuration named in `PROJECT.json`.
Runs marked *violation* end in a counterexample; section 6 says what it means.

| run | question | result |
|---|---|---|
| `worker` | Can any order of up to eight calls (one of them a StartProgram that is refused), any PAM verdict, late settings, or a signal at any point make the worker answer a call twice, fail an assertion, leave something behind, or leave a call unanswered? Does it implement `LoginTransaction`? | two answers and a failed assertion only through the refused StartProgram; the rest holds, 299 000 states |
| `session` | Two services race for the session while replies wait in the main context and resets, cancellations, worker deaths and restarts happen. Is a freed conversation used otherwise than by reading `session_conversation` after a restart, is the table exact (and `session_conversation` in it unless its service was restarted), does at most one program run? | holds, 1 149 000 states |
| `session_live` | Are stopped conversations freed, and does a queued start come to an end? | holds, 146 000 states |
| `session_spawn_fails` | Is memory still safe when a worker cannot be spawned? | *violation* |
| `user_store` | Three environments on two UIDs, the varlink thread and other programs: do the two indexes agree for every reader, does the daemon abort for want of a name only when its range is full of users of one kind, is no UID given out twice, and does a creation always end although it asks the system, which asks this process? | holds, 186 000 states |
| `remote_displays` | Displays that come and go while Inhibit is under way: is every open descriptor tracked, is the inhibition real, is it released only after the last display? | holds |
| `local_displays` | One seat, greeters and user sessions in up to three displays, VT switches, timers, purges and finishes as idles: is the login screen somebody looks at kept, is a display added only when there is none, and does a login screen come, if greeters get their users? | holds, 751 000 states |
| `local_seats` | A second seat that comes, goes and loses its graphics, automatic login and initial setup: is nothing left on a dead seat, and is the failure count reset only by displays that worked and by greeters that got no user? | holds, 530 000 states |
| `query_relay` | Three conversations and their questions, with texts and extensions, while answers, cancellations, restarts, resets and deaths of workers cross: does an answer reach its own question, is no waiting worker forgotten, does the assertion of `set_pending_query` hold, does what was answered get through? | holds, 687 000 states |
| `reauthentication` | Two user sessions, a login screen and an unmanaged session ask for channels while sessions freeze, thaw and end: does a caller get its own channel, is a session unlocked only by a verification made for it, which channels can end together, is a request that overlaps no other answered? | holds, 177 000 states |
| `launcher` | Every step of either program may fail, every part may end and SIGTERM may come at any time: what can be left behind, does its exit status follow what ended it, is the environment free of another session's variables, is the display registered at most once and in time, does it end? | holds, 1 053 000 states |
| `client` | Two overlapping requests of any kind on connections that may close at any time: does each complete once and only with complete extensions, does a proxy stay exactly as long as its connection, do callers share a proxy, do requests end? | holds, 159 000 states |

What the properties mean, in short (each is stated above its definition):

* *Worker.* `PamUndone` compares what PAM holds with what
  the thresholds in `uninitialize_pam` undo. `OnlyRefusedStartsTwice` and `CrashNeedsRefusedStart` say what
  is true of double answers and of the assertions of `state_change_idle` and `initialize_pam`:
  only a StartProgram that was refused brings them about, never PAM's failures, late settings, a second
  Initialize or calls that overlap. `AcceptedIsAnswered` excepts, for the same reason, a call
  whose place a refused StartProgram has taken. `CleanExit`
  includes the console: the VT is that of the login screen again. `ProgramOnlyAfterLogin`,
  which speaks of the history `granted` and not of `state`, is proved (section 5) and
  follows from `ImplementsLoginTransaction`.
* *Session.* `MemorySafe` is violated when a callback gets a freed conversation, a
  handler walks over a NULL entry, or `session_conversation` is read after what it names was freed in
  any way but a restart of its service. After a restart it is read (section 6); the property says that
  this is the only way. `TableIsExact`: the live conversations are exactly
  the entries of the table, one per service, no leak; and `session_conversation` is
  cleared with what it names, except by a restart of its service (section 6).
* *Dynamic users.* `IndexesAgree` holds for whoever gets the mutex. `AbortsOnlyIfFull` is what is true
  of the assertion in `pick_username` (section 6): it fails only when each UID belongs to a running
  environment of one kind, so that no failed creation and no ended greeter takes a name or UID out of the range for good. `UidsAreOurs` needs
  the lock on the password database; `CreateEnds` needs the mutex *not* to be held
  while the system is asked.
* *Local displays.* `OnlySuccessOrNoUserResets` and `AddsOnlyIfNone` are action
  properties, over all nested notifications. The former has an exception that the comment in the
  code has not: a greeter that gets no user (section 6). It is checked in `local_seats`, where greeters
  may get none. `LoginScreenComes` allows for three
  exceptions: an automatic login, a factory that has given up, and a session that
  ended before its program ran, of which the code tells nobody (`Lost`).
* *Query relay.* `RightAnswer` is not obvious, since the client names a service only: it
  holds because the session forgets a query before it passes the answer on and the
  client drops what it shows when it cancels. `NoQueryLost` is the safety half of
  "no worker hangs", `AnswersGetThrough` the liveness half.
* *Reauthentication.* `OwnChannel` and `AloneIsAnswered` are about requests that had
  their session to themselves and whose caller asked for nothing else meanwhile; `EveryoneOwnChannel` drops the restriction and is false
  (section 6). `UnlockIsEarned` goes back from the call to logind to a verification on a
  channel of that session, and from a redirected remote connection to the login screen
  that asked. `ChannelsEndWithCaller` says what a channel may take with it when it ends: another one of the same
  caller and the same holder, and not while conversations run on both. That it takes none, `ChannelsEndAlone`, is false
  (section 6).
* *Launcher.* `NoOrphans` says exactly what can be left, on every way out: an X server or a bus whose first line could
  not be read, and then no session was started and the exit status is EX_SOFTWARE. `StatusFollowsCause` tells apart what ended first from what had also
  ended by then.
* *Client.* `ProxiesFollowConnections` and `AgreeOnProxy` relate requests that overlap. The former says
  that a tracked proxy goes with its connection and with no other, and that there is one way to track a
  proxy whose connection is closed already: an asynchronous request that is finished after the closing was dispatched (section 6);
  `CompletedOnce` is about the memory the extension callbacks share.

Some definitions state what the code promises and does not keep (`NameIsAlwaysFound`, `OneDisplayPerUser`,
`EveryoneOwnChannel`, `ChannelsEndAlone`); no run has them, and section 6 names the
configuration that shows a counterexample. Where a run can say instead what exactly the code does keep, it does
(`AbortsOnlyIfFull`, `OwnChannel`, `ChannelsEndWithCaller`). Others are not checked by a run because they are proved (section 5):
`AllOrNothing` and `OwnReplies` of `QueryRelay`, `NoUserLeaks` and `EnvsOwnUsers` of `DynamicUserStore`,
`TemporaryEndsWithClient` and `WorkerKeepsNewest` of
`Reauthentication`, `ProgramOnlyAfterLogin` of `SessionWorker`, and the modules' `TypeOK`s.

Each property also has a mutant: a plausible bug in one mapped definition under
which TLC finds the property violated.

## 4. Bounds and fairness

| bound | value | why it is enough |
|---|---|---|
| `MaxCalls`, `MaxOutOfTurn` of the worker | 8, 1 | the six calls of a login and two that are repeated or late; one StartProgram that is refused is enough for a second answer, a lost call and a failed assertion, and the theorems have any number |
| `MaxWorkers`, `MaxQueued` | 2, 2 (1 in the live run) | two services that race, or one that is restarted while its old worker stops; two queued idles are needed for their order to matter. Both at once takes a third worker: there the proofs go further than the run |
| `MaxOutOfTurn` of the session | 1 (0 in the violation run) | one conversation that BeginAutoLogin interrupts in the middle of its pipeline; with a restart after it `session_conversation` dangles and is read |
| `Envs`, UIDs, preferred names | 3, 2, 2 | a collision of names, a collision of UIDs, a search that wraps around, and a range that is full, of one kind of user or of two |
| `MaxConvs`, `MaxQueries`, `MaxBatch` | 3, 2, 1 | a conversation, the one that replaces it and another; a question each for two of them, or two questions of one, in two batches. Two messages in one batch (1.6 million states) show no error either, but take too long for a run beside the liveness property; `RepliesBelong` is proved for any length. With two conversations an answer cannot yet go astray even for a hasty client, with three it can (section 6) |
| `MaxRequests`, `MaxSignals`, callers | 2, 1, 4 | two requests that overlap at one session, replace one another, or meet a frozen session; one caller of each kind and a second session to mix up |
| variables of the launcher | one of each kind | they do not influence one another |
| client `Requests`, `Connections`, `Lists` | 2, 2, 2 | two requests that overlap in any phase, each on its own connection; a list with two supported extensions and one with none |
| `MaxRemoteDisplays` | 4 | a display gone before, during and after a call to logind and another one after that |
| `MaxDisplays`, `MaxVt`, `MAX_DISPLAY_FAILURES` | 3, 2, 1 on one seat; 2, 2, 2 on two seats | a login screen, the session that came from it and a replacement; the limit is passed and not only reached. The store reuses places, so histories are unbounded |

`Room` in `LocalDisplays` lets events come from outside only while the store has a
free place for every display that queued idles may still add, so that no handler
meets a full store; `RoomForFailure` is the same bound for a greeter that gets no user, whose replacement is set up at once.
`UidMayFail` is FALSE in `local_displays` for the sake of `LoginScreenComes` only: a login screen need not come if no greeter ever gets a user. The larger instances with automatic login on one seat (2.4 million
states) and with three displays on two seats (12.7 million) hold too; they are not kept
as runs because of their length.

Deadlock is not checked: with a bounded number of calls, workers or displays every
one of these systems may come to rest.

Fairness. GLib's main loop dispatches every source that stays ready; a source that is
removed is not owed anything. From that:

* `SessionWorker`: weak fairness of the idle, the child watch, finalization, the return of
  fork, and the ping (which has a timeout). PAM and AccountsService are not assumed
  to answer: `AcceptedIsAnswered` has it as a hypothesis.
* `Session`: weak fairness of the manager's idles and of the dispatch of waiting replies, per
  conversation; a worker connects, answers the calls that need no user, and ends after
  SIGTERM. Nothing is assumed of the calls that wait for a user.
* `DynamicUserStore`: weak fairness of both threads, strong fairness of who waits for the
  mutex (the other holder lets it go again and again).
* `LocalDisplays`: calls return (weak fairness of `MakeCall`); idles, timers and the VT event are
  dispatched infinitely often if they are ready, stated as a disjunction with their
  being absent; a greeter on its way goes on or ends. Nothing is assumed of
  users, seats, graphics or failures.
* `QueryRelay`: weak fairness of the dispatch of the client's messages, of each worker's call
  and of each answer. Nothing is assumed of PAM, users or the client.
* `Reauthentication`: strong fairness of a worker's handler of StartReauthentication (a session may be
  frozen and thawed again and again), weak fairness of the dispatch of its replies.
* `SessionLauncher`: weak fairness of start-up, of the main loop and of the way out; a part that
  was sent SIGTERM ends. Without the last the launcher waits, as the code does.
* `GdmClient`: weak fairness of the asynchronous steps of each request (a call is answered or
  fails by GDBus's time-out) and of the closed signal.

## 5. What is proved

For every value of the constants that satisfies the modules' `ASSUME`s, with TLAPS.

**`SessionWorker_proofs`** (any number of calls in any order).
`TypeCorrect`. The safety properties are not inductive: they follow from
`TransactionInv`, which ties what PAM holds to `state` (`PamFollowsState`), the call the
main loop is in to the state it was entered from (`BlockedInState`: a step that starts in
one state must end in the next, whatever signals came between), and the program to
the state (`ProgramInState`: a program exists only between fork and the end of
SESSION_STARTED, and a reauthentication worker never has an idle that could fork).
From it:
`LoginBeforeProgram` (`ProgramOnlyAfterLogin`), `NothingOutlivesPam` (`PamUndone`), and
`WorkerImplementsLogin`: every step maps to a step or a stutter of `LoginTransaction`.
`AnswersAreCounted` (`OnlyRefusedStartsTwice`) needs
`AnswersInv`: a pending call has not been answered unless it is a refused StartProgram, which then has its first answer, and
calls not yet made have no answers. `CrashesAreExplained` (`CrashNeedsRefusedStart`) needs `InitializedFirst` (whoever gets beyond the first state
was initialized) and `IdleHasWork` (without a
refused StartProgram no idle is queued in a state that has no next one).
`LeavesNothingBehind` (`CleanExit`) needs `ConsoleInv`:
while the console is not on the login screen's VT, the worker knows which VT to leave, and its
session is opened or its end is being told to the daemon, so that nothing overwrites `session_vt` before finalize jumps back.
None of the results has a hypothesis.

**`DynamicUserStore_proofs`** (any sets of environments and names, any range of UIDs). The
inductive invariant is `TypeOK` with `MutexInv` (the main thread has the mutex exactly
between its two updates), `IndexInv` (the indexes agree except for the one user that is
being inserted or removed), `CreateInv` and `RemoveInv` (what the main thread knows in the middle of
an operation), `EnvsInv`, `OwnedInv` and `LockInv` (who holds the password lock, and that
nobody else registers the UID that was probed). It gives `StoreTypeCorrect`,
`ReadersSeeOneIndex`, `UsersAreExclusive`, `NothingLeaks` and `LockProtectsUids`. `AbortIsFull` (`AbortsOnlyIfFull`) counts: as many users of
one kind as there are UIDs, each with a UID of its own, have them all (the library's theorems on finite sets).

**`Displays_proofs`**, first part: `LocalDisplays` (any number of seats, displays and VTs, any failure
limit). What makes it hard is that status changes nest: a handler may rely only on what
the handlers below it on the stack have left. The invariant therefore speaks of the
stack: `FirstOK` of the call that is being made, `RestOK` of those that wait below it (they are for displays
that are still in the store; a `finish` below is for a display whose session is over and that
was managed once, or has failed). With it go `DisplayOK`, how the status of a display agrees with its
session and class and when a finish is queued for it (`GreeterOK`, `UserOK`, `StatusOK`, `QueuedOK`: that of a
failed display comes after the purge that takes it away), and `OrderOK`, the order of the idles. Together these are
`Core`; `Inv` adds the other variables' types, `AutomaticOK` and `OnLiveSeats`. No property below is inductive
without `Core`: whether a handler may reset the count, or touch a display at all, depends on what called it.
A step changes a few displays, idles and the top of the stack: `Touches` names the displays, and the lemma `CoreStep` reduces
`Core'` to them, so that each of the 30 or so handlers is proved from what it does alone. Results:
`LocalTypeCorrect` (`TypeOK`: no call and no idle is left for a display that was disposed), `DeadSeatsAreCleared`
(`NoDisplayOnDeadSeat`), `NoSecondLoginScreen` (`AddsOnlyIfNone`) and
`FailuresAreCounted` (`OnlySuccessOrNoUserResets`) without further hypotheses, and
`LoginScreenIsKept` (`ActiveLoginScreenIsKept`) for one seat, without which it is false too (section 6). The
last needs `Kept`: while the initial VT is in front and a login screen waits for its end,
either a greeter is on its way that will take its place (`Protected`) or a call on the stack will
manage it, finish what waits, or count a failure (`Remedy`).

**`Displays_proofs`**, second part: `RemoteDisplayFactory` (any number of displays and users; its
names begin with `Remote` where both factories have one, so that one module can speak of both). The invariant is `RemoteTypeOK`
(the count is the cardinality of the store, with the library's theorems on finite sets),
`NoInhibitorLost` and `OneInhibitor` (at most one of: a call under way, a descriptor
held). It gives `FactoryTypeCorrect`, `InhibitorIsTracked`, `InhibitionIsReal` and the action property
`ReleaseIsLast`.

**`Session_proofs`** (any number of workers, services and queued idles). The inductive
invariant is `TypeOK` with `ConvInv` (a conversation is freed exactly if its cancellable is
cancelled, which is why a callback can tell), `TableInv` (the table has every live conversation
under the name of its service and nothing else), `SessionInv` (`session_conversation` is
alive or its service was restarted), `MisreadInv` (so what was read through it), `ProgramInv` (at most one live conversation that is
not being stopped was asked to run its program) and `NullInv` (NULL enters the table only when a
worker cannot be spawned). The handlers are many but do few things to the table: every
step is shown to be of one of six kinds (it leaves the table alone, empties it, takes one
conversation out, puts one in, puts NULL in, or chooses the one whose program is started) and
each part of the invariant is proved once per kind. It gives `SessionTypeCorrect`,
`OneProgramAtATime` and, under `~SpawnMayFail`, `ConversationsAreSafe` (`MemorySafe`) and
`TableHoldsTheLiving` (`TableIsExact`); without that hypothesis `MemorySafe` is false (the run
`session_spawn_fails`).

**`SessionLauncher_proofs`** (any sets of variables). `LauncherInv`: parts are started in order
(`StartOrder`); a part that was known and is not tracked any more has ended (`PartsInv`); what
the main loop knows of the source that made it quit, before and after (`LoopInv`,
`StatusInv`); the session's environment is the merge of what was known when it was started
(`EnvironmentInv`); the timer runs only between the two registrations (`RegistrationInv`). It
gives `LauncherTypeCorrect`, `PartsEndWithLauncher` (`NoOrphans`), `ExitStatusIsDue`
(`StatusFollowsCause`), `EnvironmentIsClean` (`NoStaleVariables`) and the action property
`RegistrationsInTime` (`DisplayRegisteredInTime`).

**`GdmClient_proofs`** (any number of requests, connections and extensions). `ClientInv`: the
extension proxies still to be created are exactly the empty entries of a request's table, and
its data live until they are filled (`RequestInv`); proxies are of the kind they are kept as
(`ProxyInv`); there is a handler for the connection of each tracked proxy and for no other
(`TrackInv`); what a caller has been given is the tracked proxy until its connection closes
(`AgreeInv`). It gives `ClientTypeCorrect`, `RequestsCompleteOnce` (`CompletedOnce`),
`HandlersFollowProxies` (`ProxiesFollowConnections`) and `CallersAgree` (`AgreeOnProxy`).

**`QueryRelay_proofs`** (any number of conversations, queries, services and extensions). Two
invariants. `SessionInv` says of the session and its workers that a question is in one place at a
time: on its way, pending in the conversation the table names, or answered; it
gives `PendingQueryIsFree` (`NeverAborts`) and `EveryQueryIsHeld` (`NoQueryLost`) for every client, and with
`BatchInv` (a reply for every message but the one being handled) `RelayTypeCorrect`.
`TurnInv` adds the client: for each service there is one token, in a signal, on the screen or in an
answer under way, and it is the pending question (`TokenInv`); a conversation is begun
only when nothing of the old one can be heard any more (`BeginInv`, `StoppedInv`); a cancellation
is in one place too (`CancelInv`). Under `InTurn` it gives `AnswersAreRight` (`RightAnswer`),
which is false otherwise (section 6). `RepliesBelong` has two parts: for every client, PAM gets as many replies as the batch has
messages, or none (`AllOrNothing`); and under `InTurn` they are answers to this worker's own questions, in the order it
asked them (`OwnReplies`). The assumptions on the constants say that the name of nothing
is no name of something, and that no extension is called like one of the fixed kinds of message.

**`Reauthentication_proofs`** (any number of requests, sessions and callers). `ReauthInv`: channels
are opened at most once per request (`CountInv`, with the library's theorems on cardinality), have a
server while anyone uses them and are held by their own caller (`ChannelInv`, `TableInv`); replies name
channels of their session (`ReplyInv`); a request that is alone has the only call or reply under way at its
session, and the waiting caller is its own (`AloneInv`); what is unlocked was verified on a
channel of its own (`EarnedInv`); beside it `HeldInv`: a channel that has its server is held somewhere or has a
conversation, so that it can end only where a reference goes. It gives `ReauthTypeCorrect`, `AloneGetsOwnChannel` (`OwnChannel`),
`TemporaryChannelsEnd` (`TemporaryEndsWithClient`), `UnlocksAreEarned` (`UnlockIsEarned`) and
`NewestIsKept` (`WorkerKeepsNewest`). `ChannelsEndAsTheyShould` (`ChannelsEndWithCaller`) follows from `Around`:
a step that does not end a session changes at most one channel besides the one it is about.

Three proof attempts failed for a good reason. `OwnChannel` is false with three requests if `alone` means
only that the session was not shared: the caller of a request may have asked at another
session too, and gets whichever channel comes first. `session_conversation` need not be in the table
(section 6). The definitions now say what is true.
`ActiveLoginScreenIsKept` needs a machine with one seat, as in its run: the failure count is shared by all seats (section 6).

Only model-checked: the liveness properties, since fairness and ENABLED are beyond the prover
(`AcceptedIsAnswered`, `StoppedIsFreed`, `QueuedStartEnds`, `CreateEnds`, `LoginScreenComes`, `LauncherEnds`,
`RequestsComplete`, `AloneIsAnswered`, `AnswersGetThrough`). Every invariant and every action
property of the passing runs is proved, with the hypotheses named above.

## 6. Disagreements found

*A worker that cannot be spawned leaves a NULL conversation in the table*
(`session_spawn_fails`), which handlers that walk over the table dereference.

More disagreements between the code and what it says of itself, each with the definition
that states it and how to see the counterexample:

| what the code does | definition | configuration |
|---|---|---|
| A refused StartProgram is carried out: `gdm_session_worker_handle_start_program` does not look at the result of `validate_state_change`, which has answered the call already. A client can bring it about: StartSessionWhenReady with a service whose conversation is not open, or twice before the first reply. The call is answered twice, a pending call is lost, or `state_change_idle` reaches `g_assert_not_reached`. | `proc # "crashed"`; `CrashNeedsRefusedStart` and `OnlyRefusedStartsTwice` say what is true | `Worker.cfg` |
| The store aborts when it is full: `pick_username` calls a full set of names impossible because `pick_uid` would have refused, but runs first. | `NameIsAlwaysFound`; `AbortsOnlyIfFull` says what is true | `UserStore.cfg` |
| A user gets two headless displays: the test for an earlier one asks for a value that is not NULL in a table whose values are all NULL. | `OneDisplayPerUser` | `RemoteDisplays.cfg` |
| The failure limit is undone: `set_up_greeter_session` fails the display and finishes it in the same call, so that the count is reset. On the initial VT the replacement is set up inside that call, so a machine on which no UID can be had makes the daemon recurse without end. | that `num_failures` is reset only by a display that was managed; `OnlySuccessOrNoUserResets` says what is true | `LocalSeats.cfg` |
| A proxy whose connection has closed before its request was finished is tracked and handed out for ever, where the documentation promises NULL "if not connected". | that a tracked proxy has an open or closing connection; `ProxiesFollowConnections` says what is true | `Client.cfg` |
| Two requests for a channel of one session that cross: `reauth_pid_of_caller` is overwritten, the first channel goes to the second caller and the second to nobody. | `EveryoneOwnChannel` | `Reauth.cfg` |
| A temporary channel that ends removes whatever the manager keeps under its caller, a newer channel too. | `ChannelsEndAlone`; `ChannelsEndWithCaller` says what is true | `Reauth.cfg` |

Seen while modelling, without a statement in the code that they contradict:

* `num_failures` belongs to the factory and not to a seat. When a display of another seat
  finishes, the count starts anew, but no login screen is ensured for seat0, which may have been
  given up meanwhile and have a login screen in front that waits for its end. It takes
  two seats and four displays, and is why `LoginScreenIsKept` is about one seat: leave
  seat0's VT, come back while a transient greeter is on its way, which then fails and
  passes the limit, and let a session on the other seat end.
* A second start queued before the first StartProgram is answered stops the
  conversation that is starting, since only the answer sets `session_conversation`.
* A restart of a stopping service (gdm_session_start_conversation) frees the old conversation and does not clear
  `session_conversation`; until the session is reset `gdm_session_get_session_id` reads the freed conversation
  when a worker is set up for a user (`select_user`) and when the manager looks for a user's session. With two workers: BeginAutoLogin
  comes in the middle of the pipeline, a later step fails and stops the conversation, the reply to
  StartProgram then makes it `session_conversation`, and the service is begun again. With three: two conversations are
  opened and queued to start, the reply to the first StartProgram is dispatched after the second start has stopped its
  conversation, and the service is begun again. `misread` is not empty then (`Session.cfg`); `MemorySafe` allows it for a
  conversation whose service was restarted and for no other.
* SIGTERM between fork and `on_state_changed` ends the worker in a signal handler and
  leaves the program running.
* BeginVerification is not answered when its conversation is stopped before Initialize
  is answered.
* An Inhibit reply that comes after the last remote display has gone keeps the
  inhibitor until the next display has come and gone.
* `is_opened` of a session survives a reset.
* A display whose seat is removed is disposed while managed (a warning).
* A session that is lost before its program runs leaves its display prepared.
* On seats other than seat0 only managed displays are looked for, so a second request
  during preparation adds another display.
* `wait_to_finish_timeout_id` is stale after its callback (a critical message from GLib).
* Finishing waiting displays inside a walk over the store may insert into the hash
  table that is being walked.
* A client that begins a service again before it has seen the end of the old conversation
  may have an old answer reach the new conversation's question (`RightAnswer` with
  `InTurn = FALSE`).
* The worker's cancellation of a pending query is dead code: `timed_out` is never set.
* A request for a channel at a session that refuses or ends is never answered, and a
  conversation on a worker's channel outlives its disconnected client.
* The launcher keeps no reference to the X server or bus until it has read its first line: if
  the line cannot be read the process is left to itself (`NoOrphans` has this as its exception).
* The list of extensions may be changed between EnableExtensions and the creation of their proxies.
* The asynchronous request for a connection leaks a reference; the client keeps a reference to
  a reauthentication verifier, so that its connection does not close when the caller lets go of it,
  as the documentation says it would.

## 7. What is not modelled

* *External*: PAM, AccountsService, logind, NSS, the kernel's VTs and the session programs
  are nondeterministic; only what the code relies on is kept.
* *Left out as pure input and output*: auditing and utmp records, logging, settings files,
  plymouth, X cookies and authority files, argument vectors, the environment the daemon builds, the varlink wire
  format, D-Bus set-up, `gdm-config` (a one-shot command line program over PAM configuration and settings),
  `pam_gdm`, the enumeration of session files and the switch to another user in `libgdm`.
* *Not yet modelled*: the launch environment's own session and persistent directories,
  `CreateUserDisplay` of the local factory, OpenSession routing, session
  migration between displays and `StopConflictingSession` (with `is_opened`).
* *Simplified*: one session object in `Session`; a display that leaves the store counts as
  disposed; the exit of the daemon when AccountsService cannot be reached is not
  followed; in `Reauthentication` there is one seat, a user has one session, and a login
  screen asks as one process.

## 8. The plan

In order:

1. `LaunchEnvironment` as a module between `Session` and `LocalDisplays`: the greeter's session
   relayed as started, exited and died; composed with `DynamicUserStore` so that the user of a
   greeter lives exactly as long as it is needed.
2. A composition of `LocalDisplays` with user sessions of several displays: OpenSession routing,
   migration, conflicting sessions, and `CreateUserDisplay`.
3. `SessionWorker` under `Session`: the external workers of `Session` replaced by
   `LoginTransaction`, whose implementation by the worker is proved.
