---------------------------- MODULE SessionWorker ----------------------------
(***************************************************************************)
(* One gdm-session-worker process (daemon/gdm-session-worker.c and         *)
(* daemon/session-worker-main.c).  The daemon walks the worker through a   *)
(* PAM transaction with six D-Bus calls; each accepted call is remembered  *)
(* as the pending invocation, queues an idle that moves the worker to the  *)
(* next state, and is answered when that state is reached or the step      *)
(* fails.  Calls into PAM block the main loop; they end here as separate   *)
(* steps, so that signals can fall between.  PAM, AccountsService, the     *)
(* kernel and the session program are external and nondeterministic.  The  *)
(* daemon's calls come in any order: gdm_session_start_session, for one,   *)
(* does not ask whether the worker is opened or busy.                      *)
(***************************************************************************)
EXTENDS Integers, FiniteSets

CONSTANTS
    MaxCalls,         \* bound: D-Bus calls the daemon makes to this worker
    MaxOutOfTurn      \* bound: StartProgram calls among them that come out of turn

ASSUME WorkerAssumptions == MaxCalls \in Nat /\ MaxOutOfTurn \in Nat

NONE == 0
SETUP_COMPLETE == 1
AUTHENTICATED == 2
AUTHORIZED == 3
ACCREDITED == 4
ACCOUNT_DETAILS_SAVED == 5
SESSION_OPENED == 6
SESSION_STARTED == 7
States == NONE..SESSION_STARTED

NoCall == 0           \* pending_invocation == NULL
Calls == 1..MaxCalls

\* VT numbers: no VT, the VT of the login screen, any other VT.
NoVt == 0
GDM_INITIAL_VT == 1
NewVt == 2

\* What the main loop is blocked in, if anything.
Blocking == {"no", "pam_authenticate", "pam_acct_mgmt", "pam_setcred",
             "pam_open_session", "fork", "ping", "wait_child"}
PamBlocking == {"pam_authenticate", "pam_acct_mgmt", "pam_setcred", "pam_open_session"}

\* What PAM grants on the way to an opened session.
Grants == {"authenticated", "authorized", "accredited", "opened"}

VARIABLES
    proc,             \* the process: "running", "exited" or "crashed"
    state,            \* worker->state
    pending,          \* worker->pending_invocation
    idle,             \* worker->state_change_idle_id > 0
    blocked,          \* the blocking call the main loop is in
    sent,             \* calls received so far (their identities are 1..sent)
    replies,          \* replies[c]: how often call c has been answered
    refusedStarts,    \* history: StartProgram calls validate_state_change refused
    config,           \* the kind of session the worker is for, see Configs
    username,         \* worker->username != NULL
    settings,         \* worker->user_settings and its loading
    onLoaded,         \* on_settings_is_loaded_changed is connected
    earlierLoads,     \* so it is to settings of an earlier Initialize, still loading
    pam,              \* worker->pam_handle != NULL
    granted,          \* history: what PAM granted in this transaction
    sessionOpen,      \* pam_open_session succeeded, pam_close_session not called
    creds,            \* pam_setcred established credentials, not deleted
    child,            \* the session program: "none", "running" or "dead" (not reaped)
    sigHandled,       \* SIGTERM and SIGHUP are sources of the main loop
    forkFailed,       \* history: a session program could not be forked
    quit,             \* the main loop has been told to quit
    sessionVt,        \* worker->session_vt
    foreground        \* the VT the kernel shows

callVars == <<pending, sent, replies, refusedStarts>>
settingsVars == <<username, settings, onLoaded, earlierLoads>>
pamVars == <<pam, granted, sessionOpen, creds>>
procVars == <<proc, child, sigHandled, forkFailed, quit>>
vtVars == <<sessionVt, foreground>>
vars == <<state, idle, blocked, config, callVars, settingsVars, pamVars, procVars, vtVars>>

\* What the daemon's session tells every worker in Initialize's details (a program
\* session, a session on seat0 with VTs, the initial display), whether the worker
\* was spawned for reauthentication, the session display mode (NEW_VT or another),
\* and whether an Initialize has been accepted (worker->service != NULL).
Configs == {c \in [program: BOOLEAN, reauth: BOOLEAN, seat0Vt: BOOLEAN,
                   initialDisplay: BOOLEAN, newVtMode: BOOLEAN, initialized: BOOLEAN] :
              ~(c.program /\ c.reauth)}

FlagsOK ==
    /\ idle \in BOOLEAN /\ username \in BOOLEAN
    /\ onLoaded \in BOOLEAN /\ earlierLoads \in BOOLEAN
    /\ pam \in BOOLEAN /\ sessionOpen \in BOOLEAN /\ creds \in BOOLEAN
    /\ sigHandled \in BOOLEAN /\ forkFailed \in BOOLEAN /\ quit \in BOOLEAN

CallsOK ==
    /\ sent \in 0..MaxCalls
    /\ pending \in Calls \cup {NoCall}
    /\ replies \in [Calls -> Nat]
    /\ refusedStarts \subseteq Calls

DataOK ==
    /\ proc \in {"running", "exited", "crashed"}
    /\ state \in States
    /\ blocked \in Blocking
    /\ config \in Configs
    /\ settings \in {"null", "unloaded", "loading", "loaded"}
    /\ granted \subseteq Grants
    /\ child \in {"none", "running", "dead"}
    /\ sessionVt \in {NoVt, GDM_INITIAL_VT, NewVt}
    /\ foreground \in {GDM_INITIAL_VT, NewVt}

TypeOK == FlagsOK /\ CallsOK /\ DataOK

Init ==
    /\ proc = "running" /\ state = NONE /\ pending = NoCall /\ idle = FALSE
    /\ blocked = "no" /\ sent = 0 /\ replies = [c \in Calls |-> 0]
    /\ refusedStarts = {}
    /\ config \in Configs
    /\ ~config.newVtMode /\ ~config.initialized
    /\ username = FALSE /\ settings = "null" /\ onLoaded = FALSE /\ earlierLoads = FALSE
    /\ pam = FALSE /\ granted = {} /\ sessionOpen = FALSE /\ creds = FALSE
    /\ child = "none" /\ sigHandled = FALSE /\ forkFailed = FALSE /\ quit = FALSE
    /\ sessionVt = NoVt /\ foreground = GDM_INITIAL_VT

-----------------------------------------------------------------------------
(* Helpers of the handlers.                                                *)

\* The main loop dispatches: no blocking call, no quit, a live process.
Dispatching == proc = "running" /\ blocked = "no" /\ ~quit

Answer(c) == replies' = [replies EXCEPT ![c] = @ + 1]

\* Mutant of AnswerPending: the invocation is dropped unanswered.
AnswerPendingForgotten == pending' = NoCall /\ UNCHANGED <<sent, replies, refusedStarts>>

\* Answer the pending invocation and forget it: the tail of every do_* function.
AnswerPending ==
    /\ pending' = NoCall
    /\ replies' = IF pending = NoCall THEN replies ELSE [replies EXCEPT ![pending] = @ + 1]
    /\ UNCHANGED <<sent, refusedStarts>>

\* Mutant of ValidStateChange: any later state will do.
ValidStateChangeBeyond(newState) == pending = NoCall /\ state >= newState - 1

\* validate_state_change: the call may move the worker to new_state.
ValidStateChange(newState) == pending = NoCall /\ state = newState - 1

\* Mutants of UninitializePam: the session of a program that never started is left
\* open, or the state goes back by one only.
UninitializePamOffByOne ==
    /\ pam' = FALSE
    /\ state' = IF pam THEN NONE ELSE state
    /\ granted' = IF pam THEN {} ELSE granted
    /\ sessionOpen' = IF pam /\ state > SESSION_OPENED THEN FALSE ELSE sessionOpen
    /\ creds' = IF pam /\ state >= ACCREDITED THEN FALSE ELSE creds

UninitializePamOneBack ==
    /\ pam' = FALSE
    /\ state' = IF pam THEN state - 1 ELSE state
    /\ granted' = IF pam THEN {} ELSE granted
    /\ sessionOpen' = IF pam /\ state >= SESSION_OPENED THEN FALSE ELSE sessionOpen
    /\ creds' = IF pam /\ state >= ACCREDITED THEN FALSE ELSE creds

\* The PAM transaction goes back to nothing, undoing what its state says was done.
UninitializePam ==
    /\ pam' = FALSE
    /\ state' = IF pam THEN NONE ELSE state
    /\ granted' = IF pam THEN {} ELSE granted
    /\ sessionOpen' = IF pam /\ state >= SESSION_OPENED THEN FALSE ELSE sessionOpen
    /\ creds' = IF pam /\ state >= ACCREDITED THEN FALSE ELSE creds

\* Mutant of JumpBackToInitialVt: there is no jump.
NoJumpBack ==
    IF sessionVt \in {NoVt, GDM_INITIAL_VT} \/ ~config.seat0Vt
    THEN UNCHANGED vtVars
    ELSE sessionVt' = NoVt /\ UNCHANGED foreground

\* Jump to the login screen's VT, once, when the session had one of its own.
JumpBackToInitialVt ==
    IF sessionVt \in {NoVt, GDM_INITIAL_VT} \/ ~config.seat0Vt
    THEN UNCHANGED vtVars
    ELSE sessionVt' = NoVt /\ foreground' = GDM_INITIAL_VT

\* gdm_session_settings_load: AccountsService may have the user loaded already.
LoadSettings == settings' \in {"loading", "loaded"}

-----------------------------------------------------------------------------
(* D-Bus calls of the daemon.                                              *)

NewCall == /\ Dispatching
           /\ sent < MaxCalls
           /\ sent' = sent + 1

\* Mutant of Refuse: the refused call is taken as the pending one.
RefuseAndTake ==
    /\ Answer(sent')
    /\ pending' = sent'
    /\ UNCHANGED refusedStarts

\* The call is answered with WRONG_STATE or OUTSTANDING_REQUEST, and that is all.
Refuse ==
    /\ Answer(sent')
    /\ UNCHANGED <<pending, refusedStarts>>

\* Every accepted Initialize makes new settings; those of an earlier one are leaked
\* with their handlers.
HandleInitialize ==
    /\ NewCall
    /\ IF ~ValidStateChange(SETUP_COMPLETE)
       THEN Refuse /\ UNCHANGED <<config, idle, settingsVars>>
       ELSE /\ pending' = sent'
            /\ config' = [config EXCEPT !.initialized = TRUE]
            /\ UNCHANGED <<replies, refusedStarts>>
            /\ \E hasUser \in BOOLEAN :
                 /\ config.program => hasUser
                 /\ username' = (username \/ hasUser)
            /\ \/ config.program /\ settings' = "null"
               \/ ~config.program /\ ~username' /\ settings' = "unloaded"
               \/ ~config.program /\ username' /\ LoadSettings
            /\ onLoaded' = (settings' = "loading")    \* wait_for_settings
            /\ earlierLoads' = (earlierLoads \/ (onLoaded /\ settings = "loading"))
            /\ idle' = (idle \/ settings' # "loading")
    /\ UNCHANGED <<state, blocked, pamVars, procVars, vtVars>>

\* validate_and_queue_state_change
ValidateAndQueue(newState) ==
    /\ NewCall
    /\ IF ValidStateChange(newState)
       THEN pending' = sent' /\ idle' = TRUE /\ UNCHANGED <<replies, refusedStarts>>
       ELSE Refuse /\ UNCHANGED idle
    /\ UNCHANGED <<state, blocked, config, settingsVars, pamVars, procVars, vtVars>>

HandleAuthenticate == ValidateAndQueue(AUTHENTICATED)
HandleAuthorize == ValidateAndQueue(AUTHORIZED)
HandleEstablishCredentials == ValidateAndQueue(ACCREDITED)
HandleOpen == ValidateAndQueue(ACCOUNT_DETAILS_SAVED)

\* The result of validate_state_change is not looked at: a refused call is also
\* taken as the pending one, whatever was pending before.  A reauthentication worker
\* refuses (again), and so does a command line that does not parse.
HandleStartProgram ==
    /\ NewCall
    /\ LET valid == ValidStateChange(SESSION_STARTED)
           wrong == IF valid THEN 0 ELSE 1
       IN  /\ valid \/ Cardinality(refusedStarts) < MaxOutOfTurn
           /\ refusedStarts' = IF valid THEN refusedStarts ELSE refusedStarts \cup {sent'}
           /\ \E parses \in BOOLEAN :
                IF config.reauth \/ ~parses
                THEN /\ replies' = [replies EXCEPT ![sent'] = @ + wrong + 1]
                     /\ UNCHANGED <<pending, idle>>
                ELSE /\ replies' = [replies EXCEPT ![sent'] = @ + wrong]
                     /\ pending' = sent'
                     /\ idle' = TRUE
    /\ UNCHANGED <<state, blocked, config, settingsVars, pamVars, procVars, vtVars>>

\* The session type of the session to come decides whether the worker switches
\* VT itself (NEW_VT) or leaves that to logind or to nobody.
HandleSetSessionDisplayMode ==
    /\ Dispatching
    /\ \E newVt \in BOOLEAN : config' = [config EXCEPT !.newVtMode = newVt]
    /\ UNCHANGED <<state, idle, blocked, callVars, settingsVars, pamVars, procVars, vtVars>>

-----------------------------------------------------------------------------
(* state_change_idle: one step towards state + 1, by the current state.    *)

RunIdle(s) == /\ Dispatching
              /\ idle
              /\ state = s
              /\ idle' = FALSE

\* do_setup: pam_start and the PAM items either all work or leave no transaction.
DoSetup ==
    /\ RunIdle(NONE)
    /\ config.initialized /\ ~pam           \* g_assert in initialize_pam
    /\ \E started \in BOOLEAN :
         IF started THEN pam' = TRUE /\ state' = SETUP_COMPLETE
                    ELSE UNCHANGED <<pam, state>>
    /\ AnswerPending
    /\ UNCHANGED <<blocked, config, settingsVars, granted, sessionOpen, creds,
                   procVars, vtVars>>

\* do_authenticate, do_authorize and do_accredit enter PAM.
EnterPam(s, call) ==
    /\ RunIdle(s)
    /\ blocked' = call
    /\ UNCHANGED <<state, config, callVars, settingsVars, pamVars, procVars, vtVars>>

DoAuthenticate == EnterPam(SETUP_COMPLETE, "pam_authenticate")
DoAuthorize == EnterPam(AUTHENTICATED, "pam_acct_mgmt")
DoAccredit == EnterPam(AUTHORIZED, "pam_setcred")

\* do_save_account_details_when_ready and save_account_details_now: wait for the
\* user's settings; once saved, go on to open the session with a second idle.
DoSaveAccountDetailsWhenReady ==
    /\ Dispatching
    /\ idle
    /\ state = ACCREDITED
    /\ \/ /\ settings \in {"null", "loaded"}
          /\ state' = ACCOUNT_DETAILS_SAVED
          /\ idle' = TRUE
          /\ UNCHANGED <<settings, onLoaded>>
       \/ /\ settings \in {"unloaded", "loading"}
          /\ LoadSettings
          /\ IF settings' = "loaded"
             THEN state' = ACCOUNT_DETAILS_SAVED /\ idle' = TRUE /\ onLoaded' = FALSE
             ELSE UNCHANGED state /\ idle' = FALSE /\ onLoaded' = TRUE
    /\ UNCHANGED <<blocked, config, callVars, username, earlierLoads, pamVars, procVars, vtVars>>

\* do_open_session up to pam_open_session.  A VT that cannot be had fails the call
\* but leaves the transaction where it is.
DoOpenSession ==
    /\ RunIdle(ACCOUNT_DETAILS_SAVED)
    /\ \/ /\ config.seat0Vt                  \* set_up_for_new_vt fails
          /\ AnswerPending
          /\ UNCHANGED <<blocked, sessionVt>>
       \/ /\ blocked' = "pam_open_session"
          /\ sessionVt' = IF ~config.seat0Vt THEN sessionVt
                          ELSE IF config.initialDisplay THEN GDM_INITIAL_VT ELSE NewVt
          /\ UNCHANGED callVars
    /\ UNCHANGED <<state, config, settingsVars, pamVars, procVars, foreground>>

\* do_start_session up to fork: the VT switch comes first.
DoStartSession ==
    /\ RunIdle(SESSION_OPENED)
    /\ foreground' = IF config.seat0Vt /\ config.newVtMode /\ sessionVt # NoVt
                     THEN sessionVt ELSE foreground
    /\ \/ /\ child' = "running"
          /\ blocked' = "fork"
          /\ UNCHANGED <<state, forkFailed, callVars, pamVars>>
       \/ /\ UninitializePam
          /\ forkFailed' = TRUE
          /\ AnswerPending
          /\ UNCHANGED <<child, blocked>>
    /\ UNCHANGED <<config, settingsVars, proc, sigHandled, quit, sessionVt>>

\* There is no state to go to (g_assert_not_reached), or no transaction can be set up
\* (g_assert in initialize_pam): the process aborts.
AssertionFails ==
    /\ \/ RunIdle(SESSION_STARTED)
       \/ RunIdle(NONE) /\ (~config.initialized \/ pam)
    /\ proc' = "crashed"
    /\ UNCHANGED <<state, blocked, config, callVars, settingsVars, pamVars, child,
                   sigHandled, forkFailed, quit, vtVars>>

StateChangeIdle ==
    \/ AssertionFails
    \/ DoSetup
    \/ DoAuthenticate
    \/ DoAuthorize
    \/ DoAccredit
    \/ DoSaveAccountDetailsWhenReady
    \/ DoOpenSession
    \/ DoStartSession

-----------------------------------------------------------------------------
(* PAM returns.                                                            *)

\* The do_* functions are about to answer.
Answering ==
    \/ blocked \in PamBlocking \cup {"fork"}
    \/ Dispatching /\ idle /\ state \in {NONE, ACCOUNT_DETAILS_SAVED, SESSION_OPENED}

\* A StartProgram that was refused has been answered, and its GDBusMethodInvocation
\* freed: answering it again, when it is the pending one, may end the process.
AnswersFreedInvocation ==
    /\ proc = "running"
    /\ pending \in refusedStarts
    /\ Answering
    /\ proc' = "crashed"
    /\ UNCHANGED <<state, idle, blocked, config, callVars, settingsVars, pamVars, child,
                   sigHandled, forkFailed, quit, vtVars>>

\* PAM asked or told the user something through the daemon; it may have learnt
\* who the user is, whose settings are then fetched (update_username).
PamMessage ==
    /\ proc = "running"
    /\ blocked \in PamBlocking
    /\ ~username
    /\ username' = TRUE
    /\ IF settings = "unloaded" THEN LoadSettings ELSE UNCHANGED settings
    /\ UNCHANGED <<state, idle, blocked, config, callVars, onLoaded, earlierLoads, pamVars,
                   procVars, vtVars>>

Returned(call) == /\ proc = "running"
                  /\ blocked = call
                  /\ blocked' = "no"

\* The PAM call granted what was asked: the transaction is one state further.
Granted(what, newState) ==
    /\ granted' = granted \cup {what}
    /\ state' = newState
    /\ UNCHANGED pam

AuthenticateReturns ==
    /\ Returned("pam_authenticate")
    /\ \/ /\ Granted("authenticated", AUTHENTICATED)
          /\ UNCHANGED <<sessionOpen, creds>>
          /\ IF config.program \/ username
             THEN UNCHANGED <<username, settings>>
             ELSE /\ username' = TRUE
                  /\ IF settings = "unloaded" THEN LoadSettings ELSE UNCHANGED settings
       \/ UninitializePam /\ UNCHANGED <<username, settings>>
    /\ AnswerPending
    /\ UNCHANGED <<idle, config, onLoaded, earlierLoads, procVars, vtVars>>

\* Account checks and password change; their verdict is ignored when the user only
\* reauthenticates.
AuthorizeReturns ==
    /\ Returned("pam_acct_mgmt")
    /\ \/ Granted("authorized", AUTHORIZED) /\ UNCHANGED <<sessionOpen, creds>>
       \/ ~config.reauth /\ UninitializePam
    /\ AnswerPending
    /\ UNCHANGED <<idle, config, settingsVars, procVars, vtVars>>

\* The account is looked up and become before pam_setcred, whose own verdict is
\* ignored when the user only reauthenticates.
AccreditReturns ==
    /\ Returned("pam_setcred")
    /\ \/ /\ username
          /\ Granted("accredited", ACCREDITED)
          /\ creds' \in (IF config.reauth THEN BOOLEAN ELSE {TRUE})
          /\ UNCHANGED sessionOpen
       \/ UninitializePam
    /\ AnswerPending
    /\ UNCHANGED <<idle, config, settingsVars, procVars, vtVars>>

OpenSessionReturns ==
    /\ Returned("pam_open_session")
    /\ \/ /\ Granted("opened", SESSION_OPENED)
          /\ sessionOpen' = TRUE
          /\ UNCHANGED <<creds, sessionVt>>
       \/ UninitializePam /\ sessionVt' = NoVt
    /\ AnswerPending
    /\ UNCHANGED <<idle, config, settingsVars, procVars, foreground>>

\* fork has returned in the parent: only now does the notification of the new state
\* turn SIGTERM and SIGHUP into main loop sources (on_state_changed).
ForkReturns ==
    /\ Returned("fork")
    /\ state' = SESSION_STARTED
    /\ sigHandled' = TRUE
    /\ AnswerPending
    /\ UNCHANGED <<idle, config, settingsVars, pamVars, proc, child, forkFailed, quit, vtVars>>

-----------------------------------------------------------------------------
(* AccountsService, the session program, signals.                          *)

\* load_settings_from_user notifies is-loaded; on_settings_is_loaded_changed takes
\* up what was waiting, and disconnects itself only then.
TakeUpLoaded ==
    /\ idle' = TRUE
    /\ state' = IF state = ACCREDITED THEN ACCOUNT_DETAILS_SAVED ELSE state
    /\ onLoaded' = FALSE

SettingsLoaded ==
    /\ Dispatching
    /\ settings = "loading"
    /\ settings' = "loaded"
    /\ IF onLoaded /\ state \in {NONE, ACCREDITED}
       THEN TakeUpLoaded
       ELSE UNCHANGED <<idle, state, onLoaded>>
    /\ UNCHANGED <<blocked, config, callVars, username, earlierLoads, pamVars, procVars, vtVars>>

\* The handler of leaked settings looks at the worker's present ones, and disconnects
\* itself from those.
EarlierSettingsLoaded ==
    /\ Dispatching
    /\ earlierLoads
    /\ earlierLoads' = FALSE
    /\ IF settings = "loaded" /\ state \in {NONE, ACCREDITED}
       THEN TakeUpLoaded
       ELSE UNCHANGED <<idle, state, onLoaded>>
    /\ UNCHANGED <<blocked, config, callVars, username, settings, pamVars, procVars, vtVars>>

ProgramEnds ==
    /\ child = "running"
    /\ child' = "dead"
    /\ UNCHANGED <<state, idle, blocked, config, callVars, settingsVars, pamVars, proc,
                   sigHandled, forkFailed, quit, vtVars>>

\* session_worker_child_watch: close the transaction, tell the daemon, and let it
\* react (a ping round trip) before the VT switch.
ChildWatch ==
    /\ Dispatching
    /\ child = "dead"
    /\ child' = "none"
    /\ UninitializePam
    /\ blocked' = "ping"
    /\ UNCHANGED <<idle, config, callVars, settingsVars, proc, sigHandled, forkFailed, quit, vtVars>>

\* The daemon answered the ping, or the call timed out.
PingReturns ==
    /\ Returned("ping")
    /\ JumpBackToInitialVt
    /\ UNCHANGED <<state, idle, config, callVars, settingsVars, pamVars, procVars>>

\* SIGTERM or SIGHUP: before the program runs the handlers call _exit, afterwards
\* the main loop quits at its next iteration.
Signalled ==
    /\ \/ Dispatching /\ sigHandled /\ quit' = TRUE /\ UNCHANGED proc
       \/ proc = "running" /\ ~sigHandled /\ proc' = "exited" /\ UNCHANGED quit
    /\ UNCHANGED <<state, idle, blocked, config, callVars, settingsVars, pamVars, child,
                   sigHandled, forkFailed, vtVars>>

\* gdm_session_worker_finalize terminates a program that is still there and waits.
FinalizeWaits ==
    /\ proc = "running" /\ quit
    /\ blocked = "no"
    /\ child # "none"
    /\ blocked' = "wait_child"
    /\ UNCHANGED <<state, idle, config, callVars, settingsVars, pamVars, procVars, vtVars>>

Finalize ==
    /\ proc = "running" /\ quit
    /\ \/ blocked = "no" /\ child = "none"
       \/ blocked = "wait_child" /\ child = "dead"
    /\ child' = "none"
    /\ UninitializePam
    /\ JumpBackToInitialVt
    /\ proc' = "exited"
    /\ blocked' = "no"
    /\ UNCHANGED <<idle, config, callVars, settingsVars, sigHandled, forkFailed, quit>>

-----------------------------------------------------------------------------
Daemon ==
    \/ HandleInitialize
    \/ HandleAuthenticate
    \/ HandleAuthorize
    \/ HandleEstablishCredentials
    \/ HandleOpen
    \/ HandleStartProgram
    \/ HandleSetSessionDisplayMode

PamReturns ==
    \/ AuthenticateReturns
    \/ AuthorizeReturns
    \/ AccreditReturns
    \/ OpenSessionReturns

Next ==
    \/ Daemon
    \/ StateChangeIdle
    \/ PamMessage
    \/ PamReturns
    \/ ForkReturns
    \/ AnswersFreedInvocation
    \/ SettingsLoaded
    \/ EarlierSettingsLoaded
    \/ ProgramEnds
    \/ ChildWatch
    \/ PingReturns
    \/ Signalled
    \/ FinalizeWaits
    \/ Finalize

Spec == Init /\ [][Next]_vars

-----------------------------------------------------------------------------
(* Correctness.                                                            *)

\* A session program runs only for a user whom PAM authenticated, authorized and
\* accredited and whose session PAM opened, all in the transaction that is still
\* open, and never in a worker that reauthenticates: whatever calls arrive, and in
\* whatever order, state_change_idle never skips a step (gdm-session-worker.c:2697).
ProgramOnlyAfterLogin ==
    child = "running" /\ proc = "running" =>
        /\ pam
        /\ granted = Grants
        /\ ~config.reauth

\* Whatever way a transaction ends, no PAM session stays open and no credentials
\* stay established without a PAM handle to take them back with: uninitialize_pam
\* decides by the state alone what there is to undo (gdm-session-worker.c:1127).
PamUndone == ~pam => ~sessionOpen /\ ~creds

\* A second answer would use a freed GDBusMethodInvocation.  Whatever calls overlap, the
\* handlers and do_* functions that share pending_invocation answer each at most once,
\* but for a StartProgram that validate_state_change refused: that one is answered at
\* most twice (gdm-session-worker.c:2941, 2960).
OnlyRefusedStartsTwice ==
    \A c \in Calls : replies[c] <= IF c \in refusedStarts THEN 2 ELSE 1

\* None of the assertions on the way through the states fails, and no freed invocation
\* is answered, unless a StartProgram came out of turn: neither failures of PAM nor late
\* settings nor a second Initialize bring the idle into a state it cannot leave.
CrashNeedsRefusedStart == proc = "crashed" => refusedStarts # {}

\* A worker that ends after its program ran (and after the fork was noticed) leaves
\* nothing behind: no program, no open PAM session, no credentials, and the console
\* is back on the login screen's VT (gdm-session-worker.c:3264).  Once a fork failed
\* after the VT switch, a later session that cannot be opened forgets the VT to jump
\* back from (gdm-session-worker.c:2287).
CleanExit ==
    proc = "exited" /\ sigHandled =>
        /\ child = "none"
        /\ ~sessionOpen /\ ~creds
        /\ foreground = GDM_INITIAL_VT \/ forkFailed

\* The main loop always gets back to what is ready; fork returns; the ping to the
\* daemon is answered or times out; nothing is assumed of PAM, of AccountsService,
\* of the program, or of the daemon's calls and signals.
Fairness ==
    /\ WF_vars(StateChangeIdle)
    /\ WF_vars(ForkReturns)
    /\ WF_vars(ChildWatch)
    /\ WF_vars(PingReturns)
    /\ WF_vars(FinalizeWaits)
    /\ WF_vars(Finalize)

FairSpec == Spec /\ Fairness

\* If PAM keeps returning and AccountsService keeps answering, a call the worker has
\* accepted is answered, unless the worker ends first or a StartProgram that was
\* refused takes its place.
AcceptedIsAnswered ==
    (/\ []<>(blocked \notin PamBlocking)
     /\ []<>(settings # "loading"))
    => \A c \in Calls :
         pending = c ~> (replies[c] > 0 \/ proc # "running" \/ quit \/ pending \in refusedStarts)

-----------------------------------------------------------------------------
(* Refinement: the account details state is internal to the worker.        *)

stage == IF state >= ACCOUNT_DETAILS_SAVED THEN state - 1 ELSE state
held == (IF creds THEN {"credentials"} ELSE {}) \cup (IF sessionOpen THEN {"session"} ELSE {})

Abstract == INSTANCE LoginTransaction WITH stage <- stage, program <- child, held <- held

\* Every behaviour of the worker, with calls in any order, is one of a login
\* transaction: stages one at a time, a program only from an opened session, and
\* everything PAM holds given back at the end.
ImplementsLoginTransaction == Abstract!Spec

====
