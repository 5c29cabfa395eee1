------------------------- MODULE SessionWorker_proofs -------------------------
(***************************************************************************)
(* Proofs about SessionWorker, for any number of calls.                    *)
(***************************************************************************)
EXTENDS SessionWorker, TLAPS

-----------------------------------------------------------------------------
(* Type correctness.                                                       *)

\* Types hold at first.
LEMMA InitTypeOK == Init => TypeOK
<1> SUFFICES ASSUME Init PROVE TypeOK
  OBVIOUS
<1>1. FlagsOK
  BY Zenon DEF Init, FlagsOK
<1>2. CallsOK
  BY WorkerAssumptions DEF Init, CallsOK, Calls, NoCall
<1>3. DataOK
  BY DEF Init, DataOK, Grants, States, NONE, SESSION_STARTED, Blocking
<1> QED BY <1>1, <1>2, <1>3 DEF TypeOK

\* The worker's flags keep their types.
LEMMA NextFlagsOK == ASSUME FlagsOK, [Next]_vars PROVE FlagsOK'
<1> USE DEF FlagsOK, callVars, settingsVars, pamVars, procVars, vtVars
<1>1. CASE Daemon
  <2>1. /\ idle' \in BOOLEAN /\ username' \in BOOLEAN /\ onLoaded' \in BOOLEAN
        /\ earlierLoads' \in BOOLEAN
    BY <1>1, ZenonT(60) DEF Daemon, HandleInitialize, HandleAuthenticate, HandleAuthorize,
       HandleEstablishCredentials, HandleOpen, ValidateAndQueue, HandleStartProgram,
       HandleSetSessionDisplayMode
  <2>2. UNCHANGED <<pam, sessionOpen, creds, sigHandled, forkFailed, quit>>
    BY <1>1, Zenon DEF Daemon, HandleInitialize, HandleAuthenticate, HandleAuthorize,
       HandleEstablishCredentials, HandleOpen, ValidateAndQueue, HandleStartProgram,
       HandleSetSessionDisplayMode
  <2> QED BY <2>1, <2>2
<1>2. CASE StateChangeIdle
  BY <1>2, ZenonT(60) DEF StateChangeIdle, DoSetup, DoAuthenticate, DoAuthorize, DoAccredit,
     DoSaveAccountDetailsWhenReady, DoOpenSession, DoStartSession, AssertionFails, RunIdle,
     EnterPam, UninitializePam
<1>3. CASE PamMessage
  BY <1>3, Zenon DEF PamMessage
<1>4. CASE PamReturns \/ ForkReturns
  BY <1>4, ZenonT(60) DEF PamReturns, AuthenticateReturns, AuthorizeReturns, AccreditReturns,
     OpenSessionReturns, ForkReturns, Granted, UninitializePam
<1>5. CASE SettingsLoaded \/ EarlierSettingsLoaded \/ ProgramEnds \/ ChildWatch \/ PingReturns
  BY <1>5, ZenonT(60) DEF SettingsLoaded, EarlierSettingsLoaded, TakeUpLoaded, ProgramEnds, ChildWatch,
     PingReturns, UninitializePam
<1>6. CASE AnswersFreedInvocation \/ Signalled \/ FinalizeWaits \/ Finalize
  BY <1>6, ZenonT(60) DEF AnswersFreedInvocation, Signalled, FinalizeWaits, Finalize, UninitializePam
<1>7. CASE UNCHANGED vars
  BY <1>7, Zenon DEF vars
<1> QED BY <1>1, <1>2, <1>3, <1>4, <1>5, <1>6, <1>7, Zenon DEF Next

\* One more reply is a number of replies.
LEMMA RepliesType ==
    ASSUME NEW r \in [Calls -> Nat], NEW c \in Calls, NEW k \in Nat
    PROVE  [r EXCEPT ![c] = @ + k] \in [Calls -> Nat]
OBVIOUS

\* So do the calls.
LEMMA NextCallsOK == ASSUME CallsOK, [Next]_vars PROVE CallsOK'
<1> USE WorkerAssumptions DEF CallsOK, callVars, Calls, NoCall
<1>1. ASSUME NewCall PROVE sent' \in Calls /\ sent' \in 0..MaxCalls
  BY <1>1 DEF NewCall
<1>2. ASSUME AnswerPending PROVE CallsOK'
  BY <1>2 DEF AnswerPending
<1>a. ASSUME NewCall, Refuse \/ (pending' = sent' /\ replies' = replies /\ refusedStarts' = refusedStarts)
      PROVE  CallsOK'
  <2>1. CASE Refuse
    <3>1. replies' \in [Calls -> Nat]
      BY <1>1, <1>a, <2>1, RepliesType DEF Refuse, Answer
    <3> QED BY <1>1, <1>a, <2>1, <3>1 DEF Refuse
  <2>2. CASE pending' = sent' /\ replies' = replies /\ refusedStarts' = refusedStarts
    BY <1>1, <1>a, <2>2
  <2> QED BY <1>a, <2>1, <2>2
<1>3. CASE HandleInitialize
  <2>1. NewCall /\ (Refuse \/ (pending' = sent' /\ replies' = replies /\ refusedStarts' = refusedStarts))
    BY <1>3, Zenon DEF HandleInitialize
  <2> QED BY <1>a, <2>1
<1>4. ASSUME NEW s, ValidateAndQueue(s) PROVE CallsOK'
  <2>1. NewCall /\ (Refuse \/ (pending' = sent' /\ replies' = replies /\ refusedStarts' = refusedStarts))
    BY <1>4, Zenon DEF ValidateAndQueue
  <2> QED BY <1>a, <2>1
<1>5. CASE HandleStartProgram
  <2>1. NewCall /\ (pending' = pending \/ pending' = sent')
        /\ (refusedStarts' = refusedStarts \/ refusedStarts' = refusedStarts \cup {sent'})
    BY <1>5, Zenon DEF HandleStartProgram
  <2>2. \E k \in {0, 1, 0 + 1, 1 + 1} : replies' = [replies EXCEPT ![sent'] = @ + k]
    BY <1>5, <1>1 DEF HandleStartProgram
  <2>3. replies' \in [Calls -> Nat]
    BY <1>1, <2>1, <2>2, RepliesType
  <2> QED BY <1>1, <2>1, <2>3
<1>6. CASE StateChangeIdle
  BY <1>2, <1>6 DEF StateChangeIdle, DoSetup, DoAuthenticate, DoAuthorize, DoAccredit,
     DoSaveAccountDetailsWhenReady, DoOpenSession, DoStartSession, AssertionFails,
     EnterPam
<1>7. CASE PamReturns \/ ForkReturns
  BY <1>2, <1>7 DEF PamReturns, AuthenticateReturns, AuthorizeReturns, AccreditReturns,
     OpenSessionReturns, ForkReturns
<1>8. CASE UNCHANGED callVars
  BY <1>8
<1>9. \/ HandleInitialize \/ HandleStartProgram \/ (\E s \in States : ValidateAndQueue(s))
      \/ StateChangeIdle \/ PamReturns \/ ForkReturns \/ UNCHANGED callVars
  BY DEF Next, Daemon, HandleAuthenticate, HandleAuthorize, HandleEstablishCredentials,
     HandleOpen, HandleSetSessionDisplayMode, PamMessage, AnswersFreedInvocation,
     SettingsLoaded, EarlierSettingsLoaded, ProgramEnds,
     ChildWatch, PingReturns, Signalled, FinalizeWaits, Finalize, vars, States, NONE,
     SESSION_STARTED, AUTHENTICATED, AUTHORIZED, ACCREDITED, ACCOUNT_DETAILS_SAVED
<1> QED BY <1>3, <1>4, <1>5, <1>6, <1>7, <1>8, <1>9

\* So does what PAM holds.
LEMMA NextDataOK == ASSUME FlagsOK, DataOK, [Next]_vars PROVE DataOK'
<1> USE DEF DataOK, settingsVars, pamVars, procVars, vtVars, States, NONE,
        SESSION_STARTED, NoVt, GDM_INITIAL_VT, NewVt
<1>a. ASSUME UninitializePam
      PROVE  state' \in States /\ granted' \subseteq Grants
  <2>1. state' = NONE \/ state' = state
    BY <1>a, Zenon DEF UninitializePam
  <2>2. granted' \subseteq Grants
    BY <1>a, Zenon DEF UninitializePam
  <2> QED BY <2>1, <2>2
<1>b. ASSUME JumpBackToInitialVt
      PROVE  sessionVt' \in {NoVt, GDM_INITIAL_VT, NewVt} /\ foreground' \in {GDM_INITIAL_VT, NewVt}
  BY <1>b DEF JumpBackToInitialVt
<1>c. ASSUME LoadSettings PROVE settings' \in {"null", "unloaded", "loading", "loaded"}
  BY <1>c DEF LoadSettings
<1>1. CASE HandleInitialize
  <2>1. config' \in Configs
    BY <1>1 DEF HandleInitialize, Configs
  <2>2. settings' \in {"null", "unloaded", "loading", "loaded"}
    BY <1>1, <1>c DEF HandleInitialize
  <2> QED BY <1>1, <2>1, <2>2, Zenon DEF HandleInitialize
<1>2. ASSUME NEW s, ValidateAndQueue(s) PROVE DataOK'
  BY <1>2, Zenon DEF ValidateAndQueue
<1>3. CASE HandleStartProgram
  BY <1>3, Zenon DEF HandleStartProgram
<1>4. CASE HandleSetSessionDisplayMode
  <2>1. config' \in Configs
    BY <1>4 DEF HandleSetSessionDisplayMode, Configs
  <2> QED BY <1>4, <2>1, Zenon DEF HandleSetSessionDisplayMode
<1>5. CASE DoSetup
  <2>1. /\ (state' = SETUP_COMPLETE \/ state' = state) /\ proc' = proc
        /\ UNCHANGED <<blocked, config, settings, granted, child, sessionVt, foreground>>
    BY <1>5, Zenon DEF DoSetup
  <2> QED BY <2>1 DEF SETUP_COMPLETE
<1>6. CASE DoAuthenticate \/ DoAuthorize \/ DoAccredit
  <2>1. /\ blocked' \in {"pam_authenticate", "pam_acct_mgmt", "pam_setcred"}
        /\ UNCHANGED <<proc, state, config, settings, granted, child, sessionVt, foreground>>
    BY <1>6, Zenon DEF DoAuthenticate, DoAuthorize, DoAccredit, EnterPam
  <2> QED BY <2>1 DEF Blocking
<1>7. CASE DoSaveAccountDetailsWhenReady
  <2>1. /\ (state' = ACCOUNT_DETAILS_SAVED \/ state' = state)
        /\ settings' \in {"null", "unloaded", "loading", "loaded"}
        /\ UNCHANGED <<proc, blocked, config, granted, child, sessionVt, foreground>>
    BY <1>7, <1>c, Zenon DEF DoSaveAccountDetailsWhenReady
  <2> QED BY <2>1 DEF ACCOUNT_DETAILS_SAVED
<1>8. CASE DoOpenSession
  <2>1. /\ blocked' = "pam_open_session" \/ blocked' = blocked
        /\ sessionVt' \in {sessionVt, GDM_INITIAL_VT, NewVt}
        /\ UNCHANGED <<proc, state, config, settings, granted, child, foreground>>
    BY <1>8, Zenon DEF DoOpenSession
  <2> QED BY <2>1 DEF Blocking
<1>9. CASE DoStartSession
  <2>1. (state' = state /\ granted' = granted) \/ UninitializePam
    BY <1>9, Zenon DEF DoStartSession
  <2>2. /\ foreground' = foreground \/ (sessionVt # NoVt /\ foreground' = sessionVt)
        /\ child' = "running" \/ child' = child
        /\ blocked' = "fork" \/ blocked' = blocked
        /\ UNCHANGED <<proc, config, settings, sessionVt>>
    BY <1>9, Zenon DEF DoStartSession
  <2> QED BY <2>1, <2>2, <1>a DEF Blocking
<1>11. CASE PamMessage
  BY <1>11, <1>c, Zenon DEF PamMessage
<1>12. CASE PamReturns
  <2>1. \/ /\ state' \in {AUTHENTICATED, AUTHORIZED, ACCREDITED, SESSION_OPENED}
           /\ granted' \subseteq Grants
        \/ UninitializePam
    BY <1>12, Zenon DEF PamReturns, Grants, AuthenticateReturns, AuthorizeReturns, AccreditReturns,
       OpenSessionReturns, Granted
  <2>2. /\ settings' \in {"null", "unloaded", "loading", "loaded"}
        /\ sessionVt' = NoVt \/ sessionVt' = sessionVt
        /\ blocked' = "no"
        /\ UNCHANGED <<proc, config, child, foreground>>
    BY <1>12, <1>c, Zenon DEF PamReturns, AuthenticateReturns, AuthorizeReturns,
       AccreditReturns, OpenSessionReturns, Returned
  <2> QED BY <2>1, <2>2, <1>a DEF Blocking, AUTHENTICATED, AUTHORIZED, ACCREDITED, SESSION_OPENED
<1>13. CASE ForkReturns
  <2>1. /\ state' = SESSION_STARTED /\ blocked' = "no"
        /\ UNCHANGED <<proc, config, settings, granted, child, sessionVt, foreground>>
    BY <1>13, Zenon DEF ForkReturns, Returned
  <2> QED BY <2>1 DEF Blocking
<1>14. CASE SettingsLoaded
  <2>1. /\ state' = ACCOUNT_DETAILS_SAVED \/ state' = state
        /\ settings' = "loaded"
        /\ UNCHANGED <<proc, blocked, config, granted, child, sessionVt, foreground>>
    BY <1>14, Zenon DEF SettingsLoaded, TakeUpLoaded
  <2> QED BY <2>1 DEF ACCOUNT_DETAILS_SAVED
<1>22. CASE EarlierSettingsLoaded
  <2>1. /\ state' = ACCOUNT_DETAILS_SAVED \/ state' = state
        /\ UNCHANGED <<proc, blocked, config, settings, granted, child, sessionVt, foreground>>
    BY <1>22, Zenon DEF EarlierSettingsLoaded, TakeUpLoaded
  <2> QED BY <2>1 DEF ACCOUNT_DETAILS_SAVED
<1>23. CASE AssertionFails \/ AnswersFreedInvocation
  BY <1>23, Zenon DEF AssertionFails, AnswersFreedInvocation
<1>15. CASE ProgramEnds
  BY <1>15, Zenon DEF ProgramEnds
<1>16. CASE ChildWatch
  <2>1. /\ UninitializePam /\ child' = "none" /\ blocked' = "ping"
        /\ UNCHANGED <<proc, config, settings, sessionVt, foreground>>
    BY <1>16, Zenon DEF ChildWatch
  <2> QED BY <2>1, <1>a DEF Blocking
<1>17. CASE PingReturns
  <2>1. /\ JumpBackToInitialVt /\ blocked' = "no"
        /\ UNCHANGED <<proc, state, config, settings, granted, child>>
    BY <1>17, Zenon DEF PingReturns, Returned
  <2> QED BY <2>1, <1>b DEF Blocking
<1>18. CASE Signalled
  BY <1>18, Zenon DEF Signalled
<1>19. CASE FinalizeWaits
  <2>1. /\ blocked' = "wait_child"
        /\ UNCHANGED <<proc, state, config, settings, granted, child, sessionVt, foreground>>
    BY <1>19, Zenon DEF FinalizeWaits
  <2> QED BY <2>1 DEF Blocking
<1>20. CASE Finalize
  <2>1. /\ UninitializePam /\ JumpBackToInitialVt
        /\ child' = "none" /\ blocked' = "no" /\ proc' = "exited"
        /\ UNCHANGED <<config, settings>>
    BY <1>20, Zenon DEF Finalize
  <2> QED BY <2>1, <1>a, <1>b DEF Blocking
<1>21. CASE UNCHANGED vars
  BY <1>21, Zenon DEF vars
<1> QED BY <1>1, <1>2, <1>3, <1>4, <1>5, <1>6, <1>7, <1>8, <1>9, <1>11, <1>12, <1>13,
           <1>14, <1>15, <1>16, <1>17, <1>18, <1>19, <1>20, <1>21, <1>22, <1>23, Zenon
        DEF Next, Daemon, HandleAuthenticate, HandleAuthorize, HandleEstablishCredentials,
            HandleOpen, StateChangeIdle

\* Every variable of a worker keeps the values its comment names, whatever calls,
\* verdicts of PAM and signals come.
THEOREM TypeCorrect == Spec => []TypeOK
<1>1. Init => TypeOK
  BY InitTypeOK
<1>2. TypeOK /\ [Next]_vars => TypeOK'
  BY NextFlagsOK, NextCallsOK, NextDataOK DEF TypeOK
<1> QED BY <1>1, <1>2, PTL DEF Spec

-----------------------------------------------------------------------------
(* The inductive invariant of the transaction: worker->state alone says    *)
(* what PAM has granted and holds, what the main loop may be blocked in,   *)
(* and whether there is a program.  It holds for calls in any order.       *)

PamFollowsState ==
    /\ pam <=> state # NONE
    /\ sessionOpen <=> state >= SESSION_OPENED
    /\ creds => state >= ACCREDITED
    /\ "authenticated" \in granted <=> state >= AUTHENTICATED
    /\ "authorized" \in granted <=> state >= AUTHORIZED
    /\ "accredited" \in granted <=> state >= ACCREDITED
    /\ "opened" \in granted <=> state >= SESSION_OPENED

BlockedInState ==
    /\ blocked = "pam_authenticate" => state = SETUP_COMPLETE
    /\ blocked = "pam_acct_mgmt" => state = AUTHENTICATED
    /\ blocked = "pam_setcred" => state = AUTHORIZED
    /\ blocked = "pam_open_session" => state = ACCOUNT_DETAILS_SAVED
    /\ blocked = "fork" => state = SESSION_OPENED
    /\ blocked = "ping" => state = NONE
    /\ idle => blocked \notin PamBlocking \cup {"fork"}

ProgramInState ==
    /\ child # "none" <=> (state = SESSION_STARTED \/ blocked = "fork")
    /\ config.reauth => child = "none" /\ ~(idle /\ state >= SESSION_OPENED)

TransactionInv == PamFollowsState /\ BlockedInState /\ ProgramInState

\* The transaction has not begun at first.
LEMMA InitTransactionInv == Init => TransactionInv
<1> USE DEF NONE, SETUP_COMPLETE, AUTHENTICATED, AUTHORIZED, ACCREDITED,
        ACCOUNT_DETAILS_SAVED, SESSION_OPENED, SESSION_STARTED
<1> SUFFICES ASSUME Init PROVE TransactionInv
  OBVIOUS
<1>1. PamFollowsState
  BY DEF Init, PamFollowsState
<1>2. BlockedInState /\ ProgramInState
  BY DEF Init, PamBlocking, BlockedInState, ProgramInState
<1> QED BY <1>1, <1>2 DEF TransactionInv

\* Every step keeps the transaction in order.
LEMMA NextTransactionInv ==
    ASSUME TypeOK, TransactionInv, [Next]_vars PROVE TransactionInv'
<1> USE DEF NONE, SETUP_COMPLETE, AUTHENTICATED, AUTHORIZED, ACCREDITED,
        ACCOUNT_DETAILS_SAVED, SESSION_OPENED, SESSION_STARTED
<1> USE DEF TransactionInv, PamFollowsState, BlockedInState, ProgramInState
<1> USE DEF TypeOK, FlagsOK, DataOK, States, Blocking, PamBlocking, Grants, pamVars, procVars
<1>1. CASE HandleInitialize
  BY <1>1 DEF HandleInitialize, ValidStateChange, Configs
<1>2. ASSUME NEW s \in AUTHENTICATED..ACCOUNT_DETAILS_SAVED, ValidateAndQueue(s)
      PROVE  TransactionInv'
  BY <1>2 DEF ValidateAndQueue, ValidStateChange, NewCall, Dispatching
<1>3. CASE HandleStartProgram
  BY <1>3 DEF HandleStartProgram, NewCall, Dispatching
<1>4. CASE HandleSetSessionDisplayMode
  BY <1>4 DEF HandleSetSessionDisplayMode, Configs
<1>5. CASE DoSetup
  BY <1>5 DEF DoSetup, RunIdle, Dispatching
<1>6. CASE DoAuthenticate \/ DoAuthorize \/ DoAccredit
  BY <1>6 DEF DoAuthenticate, DoAuthorize, DoAccredit, RunIdle, EnterPam, Dispatching
<1>7. CASE DoSaveAccountDetailsWhenReady
  BY <1>7 DEF DoSaveAccountDetailsWhenReady, Dispatching
<1>8. CASE DoOpenSession
  BY <1>8 DEF DoOpenSession, RunIdle, Dispatching
<1>a. ASSUME UninitializePam
      PROVE  state' = NONE /\ ~pam' /\ granted' = {} /\ ~sessionOpen' /\ ~creds'
  <2>1. state' = NONE /\ granted' = {}
    <3>1. CASE pam
      BY <1>a, <3>1 DEF UninitializePam
    <3>2. CASE ~pam
      BY <1>a, <3>2 DEF UninitializePam
    <3> QED BY <3>1, <3>2
  <2>2. ~pam' /\ ~sessionOpen' /\ ~creds'
    BY <1>a DEF UninitializePam
  <2> QED BY <2>1, <2>2
<1>b. ASSUME UninitializePam, blocked' = "no", child' = "none", config' = config
      PROVE  TransactionInv'
  BY <1>a, <1>b
<1>9. CASE DoStartSession
  <2>1. CASE child' = "running" /\ blocked' = "fork" /\ UNCHANGED <<state, callVars, pamVars>>
    BY <1>9, <2>1 DEF DoStartSession, RunIdle, Dispatching
  <2>2. CASE UninitializePam /\ UNCHANGED <<child, blocked>>
    BY <1>9, <2>2, <1>b DEF DoStartSession, RunIdle, Dispatching
  <2> QED BY <1>9, <2>1, <2>2, Zenon DEF DoStartSession
<1>11. CASE PamMessage
  BY <1>11 DEF PamMessage
<1>12. CASE AuthenticateReturns
  <2>1. blocked = "pam_authenticate" /\ blocked' = "no" /\ UNCHANGED <<idle, config, child>>
    BY <1>12, Zenon DEF AuthenticateReturns, Returned
  <2>2. CASE Granted("authenticated", AUTHENTICATED) /\ UNCHANGED <<sessionOpen, creds>>
    <3>1. PamFollowsState'
      BY <2>1, <2>2 DEF Granted
    <3>2. BlockedInState' /\ ProgramInState'
      BY <2>1, <2>2 DEF Granted
    <3> QED BY <3>1, <3>2
  <2>3. CASE UninitializePam
    BY <2>1, <2>3, <1>b
  <2> QED BY <1>12, <2>2, <2>3, Zenon DEF AuthenticateReturns
<1>13. CASE AuthorizeReturns
  <2>1. blocked = "pam_acct_mgmt" /\ blocked' = "no" /\ UNCHANGED <<idle, config, child>>
    BY <1>13, Zenon DEF AuthorizeReturns, Returned
  <2>2. CASE Granted("authorized", AUTHORIZED) /\ UNCHANGED <<sessionOpen, creds>>
    <3>1. PamFollowsState'
      BY <2>1, <2>2 DEF Granted
    <3>2. BlockedInState' /\ ProgramInState'
      BY <2>1, <2>2 DEF Granted
    <3> QED BY <3>1, <3>2
  <2>3. CASE UninitializePam
    BY <2>1, <2>3, <1>b
  <2> QED BY <1>13, <2>2, <2>3, Zenon DEF AuthorizeReturns
<1>14. CASE AccreditReturns
  <2>1. blocked = "pam_setcred" /\ blocked' = "no" /\ UNCHANGED <<idle, config, child>>
    BY <1>14, Zenon DEF AccreditReturns, Returned
  <2>2. CASE Granted("accredited", ACCREDITED) /\ UNCHANGED sessionOpen /\ creds' \in BOOLEAN
    <3>1. PamFollowsState'
      BY <2>1, <2>2 DEF Granted
    <3>2. BlockedInState' /\ ProgramInState'
      BY <2>1, <2>2 DEF Granted
    <3> QED BY <3>1, <3>2
  <2>3. CASE UninitializePam
    BY <2>1, <2>3, <1>b
  <2> QED BY <1>14, <2>2, <2>3, Zenon DEF AccreditReturns
<1>15. CASE OpenSessionReturns
  <2>1. blocked = "pam_open_session" /\ blocked' = "no" /\ UNCHANGED <<idle, config, child>>
    BY <1>15, Zenon DEF OpenSessionReturns, Returned
  <2>2. CASE Granted("opened", SESSION_OPENED) /\ sessionOpen' = TRUE /\ UNCHANGED creds
    <3>1. PamFollowsState'
      BY <2>1, <2>2 DEF Granted
    <3>2. BlockedInState' /\ ProgramInState'
      BY <2>1, <2>2 DEF Granted
    <3> QED BY <3>1, <3>2
  <2>3. CASE UninitializePam
    BY <2>1, <2>3, <1>b
  <2> QED BY <1>15, <2>2, <2>3, Zenon DEF OpenSessionReturns
<1>16. CASE ForkReturns
  BY <1>16 DEF ForkReturns, Returned
<1>17. CASE SettingsLoaded \/ EarlierSettingsLoaded
  BY <1>17 DEF SettingsLoaded, EarlierSettingsLoaded, TakeUpLoaded, Dispatching
<1>18. CASE ProgramEnds
  BY <1>18 DEF ProgramEnds
<1>19. CASE ChildWatch
  BY <1>19 DEF ChildWatch, Dispatching, UninitializePam
<1>20. CASE PingReturns
  BY <1>20 DEF PingReturns, Returned
<1>21. CASE Signalled
  BY <1>21 DEF Signalled
<1>22. CASE FinalizeWaits
  BY <1>22 DEF FinalizeWaits
<1>23. CASE Finalize
  BY <1>23 DEF Finalize, UninitializePam
<1>24. CASE AssertionFails \/ AnswersFreedInvocation \/ UNCHANGED vars
  BY <1>24 DEF AssertionFails, RunIdle, AnswersFreedInvocation, vars
<1>25. HandleAuthenticate \/ HandleAuthorize \/ HandleEstablishCredentials \/ HandleOpen
       => \E s \in AUTHENTICATED..ACCOUNT_DETAILS_SAVED : ValidateAndQueue(s)
  BY DEF HandleAuthenticate, HandleAuthorize, HandleEstablishCredentials, HandleOpen
<1> QED BY <1>1, <1>2, <1>3, <1>4, <1>5, <1>6, <1>7, <1>8, <1>9, <1>11, <1>12, <1>13,
           <1>14, <1>15, <1>16, <1>17, <1>18, <1>19, <1>20, <1>21, <1>22, <1>23, <1>24, <1>25,
           Zenon
        DEF Next, Daemon, StateChangeIdle, PamReturns

\* The invariant holds in every reachable state.
LEMMA InductiveInvariant == Spec => [](TypeOK /\ TransactionInv)
<1>1. Init => TypeOK /\ TransactionInv
  BY InitTypeOK, InitTransactionInv
<1>2. TypeOK /\ TransactionInv /\ [Next]_vars => (TypeOK /\ TransactionInv)'
  BY NextFlagsOK, NextCallsOK, NextDataOK, NextTransactionInv DEF TypeOK
<1> QED BY <1>1, <1>2, PTL DEF Spec

\* Whatever calls the daemon makes, in whatever order, and whatever PAM answers, a
\* session program runs only in a transaction PAM has granted to the end, and never
\* in a worker that reauthenticates.
THEOREM LoginBeforeProgram == Spec => []ProgramOnlyAfterLogin
<1>1. ASSUME TypeOK, TransactionInv, child = "running" PROVE ProgramOnlyAfterLogin
  <2>1. state \in {SESSION_OPENED, SESSION_STARTED} /\ ~config.reauth
    BY <1>1 DEF TransactionInv, BlockedInState, ProgramInState
  <2>2. pam
    BY <1>1, <2>1 DEF TransactionInv, PamFollowsState, NONE, SESSION_OPENED, SESSION_STARTED
  <2>3. /\ "authenticated" \in granted /\ "authorized" \in granted
        /\ "accredited" \in granted /\ "opened" \in granted
    BY <1>1, <2>1 DEF TransactionInv, PamFollowsState, AUTHENTICATED, AUTHORIZED, ACCREDITED,
       SESSION_OPENED, SESSION_STARTED
  <2>4. granted = Grants
    BY <1>1, <2>3, Zenon DEF TypeOK, DataOK, Grants
  <2> QED BY <2>1, <2>2, <2>4 DEF ProgramOnlyAfterLogin
<1>2. TypeOK /\ TransactionInv => ProgramOnlyAfterLogin
  BY <1>1 DEF ProgramOnlyAfterLogin
<1> QED BY <1>2, InductiveInvariant, PTL

\* uninitialize_pam's bookkeeping by state is enough: no PAM session and no
\* credentials outlive the PAM handle.
THEOREM NothingOutlivesPam == Spec => []PamUndone
<1>1. TypeOK /\ TransactionInv => PamUndone
  BY DEF TypeOK, FlagsOK, TransactionInv, PamFollowsState, PamUndone, NONE, ACCREDITED,
     SESSION_OPENED
<1> QED BY <1>1, InductiveInvariant, PTL

-----------------------------------------------------------------------------
(* The worker implements LoginTransaction.                                 *)

\* The first state maps to a first state.
LEMMA RefinementInit == Init => Abstract!Init
BY DEF Init, Abstract!Init, stage, held, NONE, ACCOUNT_DETAILS_SAVED

\* Every step maps to a step of the transaction, or to none.
LEMMA RefinementStep ==
    ASSUME TypeOK, TransactionInv, [Next]_vars PROVE [Abstract!Next]_(Abstract!vars)
<1> USE DEF NONE, SETUP_COMPLETE, AUTHENTICATED, AUTHORIZED, ACCREDITED,
        ACCOUNT_DETAILS_SAVED, SESSION_OPENED, SESSION_STARTED
<1> USE DEF TypeOK, FlagsOK, DataOK, States, TransactionInv, PamFollowsState, BlockedInState,
        ProgramInState, PamBlocking, pamVars, procVars
<1> USE DEF Abstract!Next, Abstract!vars
<1>a. ASSUME UNCHANGED <<state, creds, sessionOpen, child>>
      PROVE  UNCHANGED Abstract!vars
  BY <1>a DEF stage, held
<1>b. ASSUME UninitializePam
      PROVE  stage' = 0 /\ held' = {}
  <2>1. state' = NONE
    <3>1. CASE pam
      BY <1>b, <3>1 DEF UninitializePam
    <3>2. CASE ~pam
      BY <1>b, <3>2 DEF UninitializePam
    <3> QED BY <3>1, <3>2
  <2>2. ~sessionOpen' /\ ~creds'
    BY <1>b DEF UninitializePam
  <2> QED BY <2>1, <2>2 DEF stage, held
<1>c. ASSUME UninitializePam, child = "none", child' = child PROVE Abstract!GiveUp
  BY <1>b, <1>c DEF Abstract!GiveUp
<1>1. CASE DoSetup
  <2>1. CASE state' = SETUP_COMPLETE /\ state = NONE
    <3>1. UNCHANGED <<creds, sessionOpen, child>>
      BY <1>1, Zenon DEF DoSetup
    <3>2. stage = 0 /\ stage' = 1 /\ held' = held
      BY <2>1, <3>1 DEF stage, held
    <3> QED BY <3>1, <3>2 DEF Abstract!Advance, Abstract!Opened, Abstract!Accredited
  <2>2. CASE UNCHANGED <<state, creds, sessionOpen, child>>
    BY <1>a, <2>2
  <2> QED BY <1>1, <2>1, <2>2, Zenon DEF DoSetup, RunIdle
<1>2. CASE DoSaveAccountDetailsWhenReady \/ SettingsLoaded \/ EarlierSettingsLoaded
  <2>1. UNCHANGED <<creds, sessionOpen, child>>
        /\ ((state = ACCREDITED /\ state' = ACCOUNT_DETAILS_SAVED) \/ state' = state)
    BY <1>2, Zenon DEF DoSaveAccountDetailsWhenReady, SettingsLoaded, EarlierSettingsLoaded,
       TakeUpLoaded
  <2> QED BY <2>1 DEF stage, held
<1>3. CASE DoStartSession
  <2>1. CASE child' = "running" /\ UNCHANGED <<state, pamVars>>
    <3>1. stage = 5 /\ child = "none" /\ blocked = "no"
      BY <1>3 DEF DoStartSession, RunIdle, Dispatching, stage
    <3>2. UNCHANGED <<stage, held>>
      BY <2>1 DEF stage, held
    <3> QED BY <2>1, <3>1, <3>2 DEF Abstract!Launch, Abstract!Opened
  <2>2. CASE UninitializePam /\ child' = child
    <3>1. child = "none"
      BY <1>3 DEF DoStartSession, RunIdle, Dispatching
    <3> QED BY <2>2, <3>1, <1>c
  <2> QED BY <1>3, <2>1, <2>2, Zenon DEF DoStartSession
<1>4. CASE AuthenticateReturns
  <2>1. blocked = "pam_authenticate" /\ child' = child
    BY <1>4, Zenon DEF AuthenticateReturns, Returned
  <2>2. child = "none" /\ state = SETUP_COMPLETE
    BY <2>1
  <2>3. CASE state' = AUTHENTICATED /\ UNCHANGED <<sessionOpen, creds>>
    BY <2>1, <2>2, <2>3 DEF stage, held, Abstract!Advance, Abstract!Opened, Abstract!Accredited
  <2>4. CASE UninitializePam
    BY <2>1, <2>2, <2>4, <1>c
  <2> QED BY <1>4, <2>3, <2>4, Zenon DEF AuthenticateReturns, Granted
<1>5. CASE AuthorizeReturns
  <2>1. blocked = "pam_acct_mgmt" /\ child' = child
    BY <1>5, Zenon DEF AuthorizeReturns, Returned
  <2>2. child = "none" /\ state = AUTHENTICATED
    BY <2>1
  <2>3. CASE state' = AUTHORIZED /\ UNCHANGED <<sessionOpen, creds>>
    BY <2>1, <2>2, <2>3 DEF stage, held, Abstract!Advance, Abstract!Opened, Abstract!Accredited
  <2>4. CASE UninitializePam
    BY <2>1, <2>2, <2>4, <1>c
  <2> QED BY <1>5, <2>3, <2>4, Zenon DEF AuthorizeReturns, Granted
<1>6. CASE AccreditReturns
  <2>1. blocked = "pam_setcred" /\ child' = child
    BY <1>6, Zenon DEF AccreditReturns, Returned
  <2>2. child = "none" /\ state = AUTHORIZED
    BY <2>1
  <2>3. CASE state' = ACCREDITED /\ UNCHANGED sessionOpen
    <3>1. held' \in SUBSET {"credentials"}
      BY <2>2, <2>3 DEF held
    <3> QED BY <2>1, <2>2, <2>3, <3>1 DEF stage, Abstract!Advance, Abstract!Opened, Abstract!Accredited
  <2>4. CASE UninitializePam
    BY <2>1, <2>2, <2>4, <1>c
  <2> QED BY <1>6, <2>3, <2>4, Zenon DEF AccreditReturns, Granted
<1>7. CASE OpenSessionReturns
  <2>1. blocked = "pam_open_session" /\ child' = child
    BY <1>7, Zenon DEF OpenSessionReturns, Returned
  <2>2. child = "none" /\ state = ACCOUNT_DETAILS_SAVED
    BY <2>1
  <2>3. CASE state' = SESSION_OPENED /\ sessionOpen' = TRUE /\ UNCHANGED creds
    <3>1. held' = held \cup {"session"}
      BY <2>3, Zenon DEF held
    <3> QED BY <2>1, <2>2, <2>3, <3>1 DEF stage, Abstract!Advance, Abstract!Opened, Abstract!Accredited
  <2>4. CASE UninitializePam
    BY <2>1, <2>2, <2>4, <1>c
  <2> QED BY <1>7, <2>3, <2>4, Zenon DEF OpenSessionReturns, Granted
<1>8. CASE ForkReturns
  <2>1. blocked = "fork" /\ state' = SESSION_STARTED /\ UNCHANGED <<child, sessionOpen, creds>>
    BY <1>8, Zenon DEF ForkReturns, Returned
  <2> QED BY <2>1 DEF stage, held, Abstract!LaunchNoticed, Abstract!Opened, Abstract!Started
<1>9. CASE ProgramEnds
  <2>1. child = "running" /\ child' = "dead" /\ UNCHANGED <<state, sessionOpen, creds>>
    BY <1>9, Zenon DEF ProgramEnds
  <2> QED BY <2>1 DEF stage, held, Abstract!ProgramEnds
<1>10. CASE ChildWatch
  <2>1. blocked = "no" /\ child = "dead" /\ child' = "none" /\ UninitializePam
    BY <1>10, Zenon DEF ChildWatch, Dispatching
  <2> QED BY <2>1, <1>b DEF stage, Abstract!Close, Abstract!Started
<1>11. CASE Finalize
  <2>1. CASE blocked = "no" /\ child = "none"
    BY <1>11, <2>1, <1>c, Zenon DEF Finalize
  <2>2. CASE blocked = "wait_child" /\ child = "dead"
    BY <1>11, <2>2, <1>b DEF Finalize, stage, Abstract!Close, Abstract!Started
  <2> QED BY <1>11, <2>1, <2>2, Zenon DEF Finalize
<1>12. CASE Daemon
  BY <1>12, <1>a, Zenon DEF Daemon, HandleInitialize, HandleAuthenticate, HandleAuthorize,
     HandleEstablishCredentials, HandleOpen, ValidateAndQueue, HandleStartProgram,
     HandleSetSessionDisplayMode
<1>13. CASE \/ DoAuthenticate \/ DoAuthorize \/ DoAccredit \/ DoOpenSession
            \/ AssertionFails \/ PamMessage \/ AnswersFreedInvocation
  BY <1>13, <1>a, Zenon DEF DoAuthenticate, DoAuthorize, DoAccredit, EnterPam, DoOpenSession,
     AssertionFails, PamMessage, AnswersFreedInvocation
<1>14. CASE PingReturns \/ Signalled \/ FinalizeWaits \/ UNCHANGED vars
  BY <1>14, <1>a, Zenon DEF PingReturns, Signalled, FinalizeWaits, vars
<1> QED BY <1>1, <1>2, <1>3, <1>4, <1>5, <1>6, <1>7, <1>8, <1>9, <1>10, <1>11, <1>12, <1>13,
           <1>14, Zenon DEF Next, StateChangeIdle, PamReturns

\* A worker implements LoginTransaction for any number of calls in any order: the
\* stages go one at a time, a program is launched at most once and only from an
\* opened session, and every end gives back what PAM held.
THEOREM WorkerImplementsLogin == Spec => ImplementsLoginTransaction
<1>1. Init => Abstract!Init
  BY RefinementInit
<1>2. TypeOK /\ TransactionInv /\ [Next]_vars => [Abstract!Next]_(Abstract!vars)
  BY RefinementStep
<1> QED BY <1>1, <1>2, InductiveInvariant, PTL DEF Spec, ImplementsLoginTransaction, Abstract!Spec

-----------------------------------------------------------------------------
(* Answers.  A call is pending before it is answered, but for a StartProgram *)
(* that was refused: that one is pending after its first answer.           *)

AnswersInv ==
    /\ \A c \in Calls : replies[c] <= IF c \in refusedStarts THEN 2 ELSE 1
    /\ \A c \in Calls : c > sent => replies[c] = 0
    /\ \A c \in refusedStarts : c <= sent
    /\ pending # NoCall =>
         /\ pending <= sent
         /\ replies[pending] = IF pending \in refusedStarts THEN 1 ELSE 0

\* Nothing is answered at first.
LEMMA InitAnswersInv == Init => AnswersInv
BY WorkerAssumptions DEF Init, AnswersInv, Calls

\* Every step keeps count of the answers.
LEMMA NextAnswersInv == ASSUME CallsOK, AnswersInv, [Next]_vars PROVE AnswersInv'
<1> USE WorkerAssumptions DEF CallsOK, AnswersInv, callVars, Calls, NoCall
<1>a. ASSUME NewCall PROVE sent' \in Calls /\ sent' = sent + 1
  BY <1>a DEF NewCall
<1>b. ASSUME NewCall, pending' = sent', replies' = replies, refusedStarts' = refusedStarts
      PROVE  AnswersInv'
  <2>1. sent' \notin refusedStarts /\ replies[sent'] = 0
    BY <1>a, <1>b
  <2> QED BY <1>a, <1>b, <2>1
<1>c. ASSUME NewCall, UNCHANGED <<pending, refusedStarts>>, replies' = [replies EXCEPT ![sent'] = @ + 1]
      PROVE  AnswersInv'
  <2>1. \A c \in Calls : replies'[c] = IF c = sent' THEN 1 ELSE replies[c]
    BY <1>a, <1>c
  <2>2. pending # NoCall => pending # sent' /\ pending \in Calls
    BY <1>a, <1>c
  <2> QED BY <1>a, <1>c, <2>1, <2>2
<1>d. ASSUME AnswerPending PROVE AnswersInv'
  <2>1. CASE pending = NoCall
    BY <1>d, <2>1 DEF AnswerPending
  <2>2. CASE pending # NoCall
    BY <1>d, <2>2 DEF AnswerPending
  <2> QED BY <2>1, <2>2
<1>e. ASSUME NewCall, refusedStarts' = refusedStarts \cup {sent'},
             \/ replies' = [replies EXCEPT ![sent'] = @ + 1 + 1] /\ UNCHANGED pending
             \/ replies' = [replies EXCEPT ![sent'] = @ + 1] /\ pending' = sent'
      PROVE  AnswersInv'
  <2>1. \A c \in Calls : c # sent' => replies'[c] = replies[c] /\ (c \in refusedStarts' <=> c \in refusedStarts)
    BY <1>a, <1>e
  <2>2. replies'[sent'] = IF pending' = sent' THEN 1 ELSE 2
    BY <1>a, <1>e
  <2>3. sent' \in refusedStarts'
    BY <1>e
  <2>4. pending' = pending \/ pending' = sent'
    BY <1>e
  <2>5. \A c \in refusedStarts' : c <= sent'
    BY <1>a, <1>e
  <2>6. \A c \in Calls : replies'[c] <= IF c \in refusedStarts' THEN 2 ELSE 1
    BY <2>1, <2>2, <2>3
  <2>7. \A c \in Calls : c > sent' => replies'[c] = 0
    BY <1>a, <1>e, <2>1
  <2>8. pending' # NoCall =>
          /\ pending' <= sent'
          /\ replies'[pending'] = IF pending' \in refusedStarts' THEN 1 ELSE 0
    <3>1. CASE pending' = sent'
      BY <1>a, <1>e, <2>2, <2>3, <3>1
    <3>2. CASE pending' = pending /\ pending # sent'
      BY <1>a, <1>e, <2>1, <3>2
    <3> QED BY <2>4, <3>1, <3>2
  <2> QED BY <2>5, <2>6, <2>7, <2>8
<1>1. CASE HandleInitialize
  <2>1. NewCall /\ (Refuse \/ (pending' = sent' /\ replies' = replies /\ refusedStarts' = refusedStarts))
    BY <1>1, Zenon DEF HandleInitialize
  <2> QED BY <2>1, <1>b, <1>c DEF Refuse, Answer
<1>2. ASSUME NEW s, ValidateAndQueue(s) PROVE AnswersInv'
  <2>1. NewCall /\ (Refuse \/ (pending' = sent' /\ replies' = replies /\ refusedStarts' = refusedStarts))
    BY <1>2, Zenon DEF ValidateAndQueue
  <2> QED BY <2>1, <1>b, <1>c DEF Refuse, Answer
<1>3. CASE HandleStartProgram
  <2>1. CASE ValidStateChange(SESSION_STARTED)
    <3>1. NewCall /\ refusedStarts' = refusedStarts
          /\ \/ replies' = [replies EXCEPT ![sent'] = @ + 0 + 1] /\ UNCHANGED pending
             \/ replies' = [replies EXCEPT ![sent'] = @ + 0] /\ pending' = sent'
      BY <1>3, <2>1, Zenon DEF HandleStartProgram
    <3>2. sent' \in Calls /\ replies[sent'] = 0 /\ replies \in [Calls -> Nat]
      BY <1>a, <3>1
    <3>3. CASE replies' = [replies EXCEPT ![sent'] = @ + 0 + 1] /\ UNCHANGED pending
      <4>1. replies' = [replies EXCEPT ![sent'] = @ + 1]
        BY <3>2, <3>3
      <4> QED BY <3>1, <3>3, <4>1, <1>c
    <3>4. CASE replies' = [replies EXCEPT ![sent'] = @ + 0] /\ pending' = sent'
      <4>1. replies' = replies
        BY <3>2, <3>4
      <4> QED BY <3>1, <3>4, <4>1, <1>b
    <3> QED BY <3>1, <3>3, <3>4
  <2>2. CASE ~ValidStateChange(SESSION_STARTED)
    <3>1. NewCall /\ refusedStarts' = refusedStarts \cup {sent'}
          /\ \/ replies' = [replies EXCEPT ![sent'] = @ + 1 + 1] /\ UNCHANGED pending
             \/ replies' = [replies EXCEPT ![sent'] = @ + 1] /\ pending' = sent'
      BY <1>3, <2>2, Zenon DEF HandleStartProgram
    <3> QED BY <3>1, <1>e
  <2> QED BY <2>1, <2>2
<1>4. CASE StateChangeIdle \/ PamReturns \/ ForkReturns
  <2>1. AnswerPending \/ UNCHANGED callVars
    BY <1>4, Zenon DEF StateChangeIdle, DoSetup, DoAuthenticate, DoAuthorize, DoAccredit,
       DoSaveAccountDetailsWhenReady, DoOpenSession, DoStartSession, AssertionFails,
       EnterPam, PamReturns, AuthenticateReturns, AuthorizeReturns, AccreditReturns,
       OpenSessionReturns, ForkReturns
  <2> QED BY <2>1, <1>d
<1>5. CASE UNCHANGED callVars
  BY <1>5
<1>6. \/ HandleInitialize \/ HandleStartProgram \/ (\E s : ValidateAndQueue(s))
      \/ StateChangeIdle \/ PamReturns \/ ForkReturns \/ UNCHANGED callVars
  BY Zenon DEF Next, Daemon, HandleAuthenticate, HandleAuthorize, HandleEstablishCredentials,
     HandleOpen, HandleSetSessionDisplayMode, PamMessage, AnswersFreedInvocation,
     SettingsLoaded, EarlierSettingsLoaded, ProgramEnds,
     ChildWatch, PingReturns, Signalled, FinalizeWaits, Finalize, vars
<1> QED BY <1>1, <1>2, <1>3, <1>4, <1>5, <1>6

\* Whatever calls overlap, only a StartProgram that was refused is answered again, and
\* no call is answered more than twice.
THEOREM AnswersAreCounted == Spec => []OnlyRefusedStartsTwice
<1>1. Init => TypeOK /\ AnswersInv
  BY InitTypeOK, InitAnswersInv
<1>2. TypeOK /\ AnswersInv /\ [Next]_vars => (TypeOK /\ AnswersInv)'
  BY NextFlagsOK, NextCallsOK, NextDataOK, NextAnswersInv DEF TypeOK
<1>3. AnswersInv => OnlyRefusedStartsTwice
  BY DEF AnswersInv, OnlyRefusedStartsTwice
<1> QED BY <1>1, <1>2, <1>3, PTL DEF Spec

-----------------------------------------------------------------------------
(* Crashes.                                                                *)

\* Nothing gets anywhere before the first Initialize.
InitializedFirst == state # NONE \/ onLoaded \/ earlierLoads => config.initialized

\* But for StartProgram, an idle is queued only where there is a step to take.
IdleHasWork == refusedStarts = {} /\ idle => state # SESSION_STARTED /\ config.initialized

CrashInv == InitializedFirst /\ IdleHasWork /\ CrashNeedsRefusedStart

\* What the steps of the worker leave alone.
LEMMA NextCrashInv ==
    ASSUME TypeOK, TransactionInv, CrashInv, [Next]_vars PROVE CrashInv'
<1> USE DEF NONE, SETUP_COMPLETE, AUTHENTICATED, AUTHORIZED, ACCREDITED,
        ACCOUNT_DETAILS_SAVED, SESSION_OPENED, SESSION_STARTED
<1> USE DEF CrashInv, InitializedFirst, IdleHasWork, CrashNeedsRefusedStart
<1>0. /\ idle \in BOOLEAN /\ onLoaded \in BOOLEAN /\ earlierLoads \in BOOLEAN
      /\ config \in Configs /\ state \in 0..7
  BY DEF TypeOK, FlagsOK, DataOK, States
<1>a. ASSUME UNCHANGED <<state, onLoaded, earlierLoads, idle, config>>, proc' = proc,
             refusedStarts = {} \/ refusedStarts' # {}
      PROVE  CrashInv'
  BY <1>a
<1>1. CASE HandleInitialize
  <2>0. UNCHANGED <<state, refusedStarts, proc>>
    BY <1>1, Zenon DEF HandleInitialize, Refuse, procVars
  <2>1. CASE ~ValidStateChange(SETUP_COMPLETE)
    <3>1. UNCHANGED <<config, idle, onLoaded, earlierLoads>>
      BY <1>1, <2>1, Zenon DEF HandleInitialize, settingsVars
    <3> QED BY <2>0, <3>1
  <2>2. CASE ValidStateChange(SETUP_COMPLETE)
    <3>1. config' = [config EXCEPT !.initialized = TRUE]
      BY <1>1, <2>2, Zenon DEF HandleInitialize
    <3>2. config'.initialized /\ state = NONE
      BY <1>0, <2>2, <3>1 DEF Configs, ValidStateChange
    <3> QED BY <2>0, <3>2
  <2> QED BY <2>1, <2>2
<1>2. ASSUME NEW s \in AUTHENTICATED..ACCOUNT_DETAILS_SAVED, ValidateAndQueue(s) PROVE CrashInv'
  <2>1. UNCHANGED <<state, onLoaded, earlierLoads, config, refusedStarts, proc>>
    BY <1>2, Zenon DEF ValidateAndQueue, Refuse, settingsVars, procVars
  <2>2. idle' = idle \/ ValidStateChange(s)
    BY <1>2, Zenon DEF ValidateAndQueue
  <2>3. ValidStateChange(s) => state # NONE /\ state # SESSION_STARTED
    BY DEF ValidStateChange
  <2> QED BY <2>1, <2>2, <2>3
<1>3. CASE HandleStartProgram
  <2>1. UNCHANGED <<state, onLoaded, earlierLoads, config, proc>>
    BY <1>3, Zenon DEF HandleStartProgram, settingsVars, procVars
  <2>2. (refusedStarts' = refusedStarts /\ ValidStateChange(SESSION_STARTED))
        \/ refusedStarts' = refusedStarts \cup {sent'}
    BY <1>3, Zenon DEF HandleStartProgram
  <2>3. ValidStateChange(SESSION_STARTED) => state = SESSION_OPENED
    BY DEF ValidStateChange
  <2> QED BY <2>1, <2>2, <2>3
<1>4. CASE HandleSetSessionDisplayMode
  <2>1. UNCHANGED <<state, idle, onLoaded, earlierLoads, refusedStarts, proc>>
    BY <1>4, Zenon DEF HandleSetSessionDisplayMode, settingsVars, callVars, procVars
  <2>2. config'.initialized = config.initialized
    BY <1>0, <1>4 DEF HandleSetSessionDisplayMode, Configs
  <2> QED BY <2>1, <2>2
<1>5. CASE DoSetup
  <2>1. config.initialized /\ idle' = FALSE /\ UNCHANGED <<config, onLoaded, earlierLoads>>
        /\ proc' = proc /\ refusedStarts' = refusedStarts
    BY <1>5, Zenon DEF DoSetup, RunIdle, AnswerPending, settingsVars, procVars
  <2> QED BY <2>1
<1>6. CASE DoAuthenticate \/ DoAuthorize \/ DoAccredit \/ DoOpenSession
  <2>1. /\ idle' = FALSE /\ UNCHANGED <<state, config, onLoaded, earlierLoads>>
        /\ proc' = proc /\ refusedStarts' = refusedStarts
    BY <1>6, Zenon DEF DoAuthenticate, DoAuthorize, DoAccredit, EnterPam, RunIdle,
       DoOpenSession, AnswerPending, settingsVars, callVars, procVars
  <2> QED BY <2>1
<1>7. CASE DoSaveAccountDetailsWhenReady
  <2>1. /\ state = ACCREDITED /\ UNCHANGED <<config, earlierLoads, refusedStarts>> /\ proc' = proc
        /\ state' = state \/ state' = ACCOUNT_DETAILS_SAVED
    BY <1>7, Zenon DEF DoSaveAccountDetailsWhenReady, callVars, procVars
  <2> QED BY <2>1
<1>b. ASSUME UninitializePam PROVE state' = NONE \/ state' = state
  BY <1>b, Zenon DEF UninitializePam
<1>8. CASE DoStartSession
  <2>1. /\ idle' = FALSE /\ UNCHANGED <<config, onLoaded, earlierLoads>>
        /\ proc' = proc /\ refusedStarts' = refusedStarts
        /\ state' = state \/ UninitializePam
    BY <1>8, Zenon DEF DoStartSession, RunIdle, AnswerPending, settingsVars, callVars
  <2> QED BY <2>1, <1>b
<1>9. CASE AssertionFails
  <2>1. /\ idle /\ UNCHANGED <<state, config, onLoaded, earlierLoads, refusedStarts>>
        /\ idle' = FALSE
    BY <1>9, Zenon DEF AssertionFails, RunIdle, settingsVars, callVars
  <2>2. state = SESSION_STARTED \/ (state = NONE /\ (~config.initialized \/ pam))
    BY <1>9, Zenon DEF AssertionFails, RunIdle
  <2>3. refusedStarts # {}
    BY <2>1, <2>2 DEF TransactionInv, PamFollowsState
  <2> QED BY <2>1, <2>3
<1>10. CASE AnswersFreedInvocation
  <2>1. /\ UNCHANGED <<state, idle, config, onLoaded, earlierLoads, refusedStarts>>
        /\ pending \in refusedStarts
    BY <1>10, Zenon DEF AnswersFreedInvocation, settingsVars, callVars
  <2> QED BY <2>1
<1>11. CASE PamReturns \/ ForkReturns
  <2>1. /\ UNCHANGED <<idle, config, onLoaded, earlierLoads>>
        /\ proc' = proc /\ refusedStarts' = refusedStarts
        /\ blocked \in PamBlocking \cup {"fork"}
    BY <1>11, Zenon DEF PamReturns, AuthenticateReturns, AuthorizeReturns, AccreditReturns,
       OpenSessionReturns, ForkReturns, Returned, AnswerPending, settingsVars, procVars, PamBlocking
  <2>2. ~idle /\ state # NONE
    BY <2>1, <1>0 DEF TransactionInv, BlockedInState, PamBlocking
  <2> QED BY <2>1, <2>2
<1>12. CASE SettingsLoaded \/ EarlierSettingsLoaded
  <2>1. /\ UNCHANGED <<config, refusedStarts>> /\ proc' = proc
        /\ \/ /\ UNCHANGED <<idle, state, onLoaded>>
              /\ earlierLoads' = earlierLoads \/ earlierLoads' = FALSE
           \/ /\ onLoaded \/ earlierLoads
              /\ state' \in {state, ACCOUNT_DETAILS_SAVED} /\ state \in {NONE, ACCREDITED}
    BY <1>12, Zenon DEF SettingsLoaded, EarlierSettingsLoaded, TakeUpLoaded, callVars, procVars
  <2> QED BY <2>1
<1>13. CASE ChildWatch \/ Finalize
  <2>1. /\ UNCHANGED <<idle, config, onLoaded, earlierLoads, refusedStarts>>
        /\ proc' = proc \/ proc' = "exited"
        /\ UninitializePam
    BY <1>13, Zenon DEF ChildWatch, Finalize, settingsVars, callVars
  <2> QED BY <2>1, <1>b
<1>14. CASE PamMessage \/ ProgramEnds \/ PingReturns \/ FinalizeWaits \/ UNCHANGED vars
  <2>1. /\ UNCHANGED <<state, idle, config, onLoaded, earlierLoads, refusedStarts>> /\ proc' = proc
    BY <1>14, Zenon DEF PamMessage, ProgramEnds, PingReturns, FinalizeWaits, vars, settingsVars,
       callVars, procVars
  <2> QED BY <2>1, <1>a
<1>15. CASE Signalled
  <2>1. /\ UNCHANGED <<state, idle, config, onLoaded, earlierLoads, refusedStarts>>
        /\ proc' = proc \/ proc' = "exited"
    BY <1>15, Zenon DEF Signalled, settingsVars, callVars
  <2> QED BY <2>1
<1>16. HandleAuthenticate \/ HandleAuthorize \/ HandleEstablishCredentials \/ HandleOpen
       => \E s \in AUTHENTICATED..ACCOUNT_DETAILS_SAVED : ValidateAndQueue(s)
  BY DEF HandleAuthenticate, HandleAuthorize, HandleEstablishCredentials, HandleOpen
<1> QED BY <1>1, <1>2, <1>3, <1>4, <1>5, <1>6, <1>7, <1>8, <1>9, <1>10, <1>11, <1>12, <1>13,
           <1>14, <1>15, <1>16, Zenon DEF Next, Daemon, StateChangeIdle

\* No assertion on the way through the states fails unless a StartProgram was refused,
\* for any number of calls in any order.
THEOREM CrashesAreExplained == Spec => []CrashNeedsRefusedStart
<1>1. Init => TypeOK /\ TransactionInv /\ CrashInv
  <2>1. Init => CrashInv
    BY DEF Init, CrashInv, InitializedFirst, IdleHasWork, CrashNeedsRefusedStart
  <2> QED BY <2>1, InitTypeOK, InitTransactionInv
<1>2. TypeOK /\ TransactionInv /\ CrashInv /\ [Next]_vars => (TypeOK /\ TransactionInv /\ CrashInv)'
  BY NextFlagsOK, NextCallsOK, NextDataOK, NextTransactionInv, NextCrashInv DEF TypeOK
<1>3. CrashInv => CrashNeedsRefusedStart
  BY DEF CrashInv
<1> QED BY <1>1, <1>2, <1>3, PTL DEF Spec

-----------------------------------------------------------------------------
(* The way out.                                                            *)

\* While the console is not on the login screen's VT the worker knows which VT it is on,
\* and its session is opened or it is about to jump back, unless a fork failed.
ConsoleInv ==
    \/ foreground = GDM_INITIAL_VT
    \/ forkFailed
    \/ /\ sessionVt = NewVt /\ config.seat0Vt
       /\ state >= SESSION_OPENED \/ blocked = "ping"

\* uninitialize_pam leaves no transaction.
LEMMA TransactionEnds ==
    ASSUME TypeOK, TransactionInv, UninitializePam
    PROVE  state' = NONE /\ ~sessionOpen' /\ ~creds'
<1> USE DEF NONE, ACCREDITED, SESSION_OPENED
<1>1. state' = NONE
  <2>1. CASE pam
    BY <2>1 DEF UninitializePam
  <2>2. CASE ~pam
    BY <2>2 DEF UninitializePam, TransactionInv, PamFollowsState
  <2> QED BY <2>1, <2>2
<1>2. ~sessionOpen' /\ ~creds'
  <2>1. CASE pam
    BY <2>1 DEF UninitializePam, TransactionInv, PamFollowsState
  <2>2. CASE ~pam
    <3>1. ~sessionOpen /\ ~creds
      BY <2>2 DEF TransactionInv, PamFollowsState
    <3> QED BY <2>2, <3>1 DEF UninitializePam
  <2> QED BY <2>1, <2>2
<1> QED BY <1>1, <1>2

\* The way back: when the worker jumps, the console is on the login screen's VT.
LEMMA JumpShowsLoginScreen ==
    ASSUME TypeOK, ConsoleInv, JumpBackToInitialVt
    PROVE  foreground' = GDM_INITIAL_VT \/ forkFailed
BY DEF ConsoleInv, JumpBackToInitialVt, NoVt, GDM_INITIAL_VT, NewVt, vtVars

\* The console is shown to another VT only by a session that is opened, and until the
\* worker jumps back.
LEMMA NextConsoleInv ==
    ASSUME TypeOK, TransactionInv, ConsoleInv, [Next]_vars PROVE ConsoleInv'
<1> USE DEF NONE, SETUP_COMPLETE, AUTHENTICATED, AUTHORIZED, ACCREDITED,
        ACCOUNT_DETAILS_SAVED, SESSION_OPENED, SESSION_STARTED
<1>0. config \in Configs /\ state \in 0..7 /\ forkFailed \in BOOLEAN
  BY DEF TypeOK, FlagsOK, DataOK, States
<1>a. ASSUME state < SESSION_OPENED, blocked # "ping", foreground' = foreground,
             forkFailed' = forkFailed
      PROVE  ConsoleInv'
  BY <1>0, <1>a DEF ConsoleInv
<1>b. ASSUME UNCHANGED <<foreground, sessionVt, forkFailed>>, config'.seat0Vt = config.seat0Vt,
             state >= SESSION_OPENED => state' >= SESSION_OPENED \/ blocked' = "ping",
             blocked = "ping" => blocked' = "ping"
      PROVE  ConsoleInv'
  BY <1>b DEF ConsoleInv
<1>1. CASE HandleInitialize
  <2>1. UNCHANGED <<foreground, sessionVt, forkFailed, state, blocked>>
    BY <1>1, Zenon DEF HandleInitialize, vtVars, procVars
  <2>2. config' = config \/ config' = [config EXCEPT !.initialized = TRUE]
    BY <1>1, Zenon DEF HandleInitialize
  <2>3. config'.seat0Vt = config.seat0Vt
    BY <1>0, <2>2 DEF Configs
  <2> QED BY <2>1, <2>3, <1>b
<1>2. CASE HandleStartProgram \/ (\E s : ValidateAndQueue(s))
  <2>1. UNCHANGED <<foreground, sessionVt, forkFailed, state, blocked, config>>
    BY <1>2, Zenon DEF HandleStartProgram, ValidateAndQueue, vtVars, procVars
  <2> QED BY <2>1, <1>b
<1>3. CASE HandleSetSessionDisplayMode
  <2>1. UNCHANGED <<foreground, sessionVt, forkFailed, state, blocked>>
    BY <1>3, Zenon DEF HandleSetSessionDisplayMode, vtVars, procVars
  <2>2. config'.seat0Vt = config.seat0Vt
    BY <1>0, <1>3 DEF HandleSetSessionDisplayMode, Configs
  <2> QED BY <2>1, <2>2, <1>b
<1>4. CASE DoSetup \/ DoAuthenticate \/ DoAuthorize \/ DoAccredit \/ DoOpenSession
           \/ DoSaveAccountDetailsWhenReady
  <2>1. blocked = "no" /\ state < SESSION_OPENED
    BY <1>4 DEF DoSetup, DoAuthenticate, DoAuthorize, DoAccredit, DoOpenSession, EnterPam,
       RunIdle, DoSaveAccountDetailsWhenReady, Dispatching
  <2>2. foreground' = foreground /\ forkFailed' = forkFailed
    BY <1>4, Zenon DEF DoSetup, DoAuthenticate, DoAuthorize, DoAccredit, DoOpenSession, EnterPam,
       DoSaveAccountDetailsWhenReady, vtVars, procVars
  <2> QED BY <2>1, <2>2, <1>a
<1>5. CASE DoStartSession
  <2>1. /\ state = SESSION_OPENED /\ blocked = "no"
        /\ UNCHANGED <<config, sessionVt>>
        /\ \/ foreground' = foreground
           \/ config.seat0Vt /\ sessionVt # NoVt /\ foreground' = sessionVt
        /\ \/ state' = state /\ forkFailed' = forkFailed
           \/ forkFailed' = TRUE
    BY <1>5, Zenon DEF DoStartSession, RunIdle, Dispatching
  <2>2. CASE foreground' = foreground
    BY <2>1, <2>2 DEF ConsoleInv
  <2>3. CASE config.seat0Vt /\ sessionVt # NoVt /\ foreground' = sessionVt
    BY <2>1, <2>3 DEF ConsoleInv, TypeOK, DataOK, NoVt, GDM_INITIAL_VT, NewVt
  <2> QED BY <2>1, <2>2, <2>3
<1>6. CASE PamReturns
  <2>1. blocked \in PamBlocking
    BY <1>6, Zenon DEF PamReturns, AuthenticateReturns, AuthorizeReturns, AccreditReturns,
       OpenSessionReturns, Returned, PamBlocking
  <2>2. foreground' = foreground /\ forkFailed' = forkFailed
    BY <1>6, Zenon DEF PamReturns, AuthenticateReturns, AuthorizeReturns, AccreditReturns,
       OpenSessionReturns, vtVars, procVars
  <2>3. state < SESSION_OPENED /\ blocked # "ping"
    BY <2>1 DEF TransactionInv, BlockedInState, PamBlocking
  <2> QED BY <2>2, <2>3, <1>a
<1>7. CASE ForkReturns
  <2>1. /\ blocked = "fork" /\ state' = SESSION_STARTED
        /\ UNCHANGED <<foreground, sessionVt, forkFailed, config>>
    BY <1>7, Zenon DEF ForkReturns, Returned, vtVars
  <2> QED BY <2>1, <1>b
<1>8. CASE SettingsLoaded \/ EarlierSettingsLoaded
  <2>1. /\ UNCHANGED <<foreground, sessionVt, forkFailed, config, blocked>>
        /\ state' = state \/ state = ACCREDITED
    BY <1>8, Zenon DEF SettingsLoaded, EarlierSettingsLoaded, TakeUpLoaded, vtVars, procVars
  <2> QED BY <2>1, <1>b
<1>9. CASE ChildWatch
  <2>1. blocked' = "ping" /\ UNCHANGED <<config, foreground, sessionVt, forkFailed>>
    BY <1>9, Zenon DEF ChildWatch, vtVars
  <2> QED BY <2>1, <1>b
<1>10. CASE PingReturns \/ Finalize
  <2>1. JumpBackToInitialVt /\ forkFailed' = forkFailed
    BY <1>10, Zenon DEF PingReturns, Finalize, procVars
  <2> QED BY <2>1, JumpShowsLoginScreen DEF ConsoleInv
<1>11. CASE FinalizeWaits
  <2>1. /\ blocked = "no"
        /\ UNCHANGED <<state, config, foreground, sessionVt, forkFailed>>
    BY <1>11, Zenon DEF FinalizeWaits, vtVars, procVars
  <2> QED BY <2>1, <1>b
<1>12. CASE AssertionFails \/ AnswersFreedInvocation \/ PamMessage \/ ProgramEnds \/ Signalled
            \/ UNCHANGED vars
  <2>1. UNCHANGED <<state, blocked, config, foreground, sessionVt, forkFailed>>
    BY <1>12, Zenon DEF AssertionFails, AnswersFreedInvocation, PamMessage, ProgramEnds, Signalled,
       vars, vtVars, procVars
  <2> QED BY <2>1, <1>b
<1> QED BY <1>1, <1>2, <1>3, <1>4, <1>5, <1>6, <1>7, <1>8, <1>9, <1>10, <1>11, <1>12,
           Zenon DEF Next, Daemon, StateChangeIdle, HandleAuthenticate, HandleAuthorize,
           HandleEstablishCredentials, HandleOpen

\* Only the worker itself, in finalize, ends a process that handles signals; afterwards
\* no step of the worker is left.
LEMMA NextCleanExit ==
    ASSUME TypeOK, TransactionInv, ConsoleInv, CleanExit, [Next]_vars PROVE CleanExit'
<1>1. CASE Finalize
  <2>1. child' = "none" /\ UninitializePam /\ JumpBackToInitialVt /\ forkFailed' = forkFailed
    BY <1>1, Zenon DEF Finalize
  <2> QED BY <2>1, TransactionEnds, JumpShowsLoginScreen DEF CleanExit
<1>2. CASE Signalled
  <2>1. /\ UNCHANGED <<child, sigHandled, forkFailed, foreground, sessionOpen, creds>>
        /\ proc' = proc \/ ~sigHandled
    BY <1>2, Zenon DEF Signalled, pamVars, vtVars
  <2> QED BY <2>1, Zenon DEF CleanExit
<1>3. CASE ProgramEnds
  <2>1. /\ UNCHANGED <<proc, sigHandled, forkFailed, foreground, sessionOpen, creds>>
        /\ child = "running"
    BY <1>3, Zenon DEF ProgramEnds, pamVars, vtVars
  <2> QED BY <2>1 DEF CleanExit
<1>4. CASE UNCHANGED vars
  <2>1. UNCHANGED <<proc, sigHandled, forkFailed, child, foreground, sessionOpen, creds>>
    BY <1>4, Zenon DEF vars, procVars, pamVars, vtVars
  <2> QED BY <2>1, Zenon DEF CleanExit
<1>5. ASSUME proc' # "exited" PROVE CleanExit'
  BY <1>5 DEF CleanExit
<1>6. CASE Daemon
  <2>1. proc = "running" /\ proc' = proc
    BY <1>6, Zenon DEF Daemon, HandleInitialize, HandleAuthenticate, HandleAuthorize,
     HandleEstablishCredentials, HandleOpen, ValidateAndQueue, HandleStartProgram,
     HandleSetSessionDisplayMode, NewCall, Dispatching, procVars
  <2> QED BY <2>1, <1>5
<1>7. CASE StateChangeIdle
  <2>1. proc = "running" /\ (proc' = proc \/ proc' = "crashed")
    BY <1>7, Zenon DEF StateChangeIdle, DoSetup, DoAuthenticate, DoAuthorize, DoAccredit,
     DoSaveAccountDetailsWhenReady, DoOpenSession, DoStartSession, AssertionFails, EnterPam,
     RunIdle, Dispatching, procVars
  <2> QED BY <2>1, <1>5
<1>8. CASE PamMessage \/ PamReturns \/ ForkReturns \/ AnswersFreedInvocation \/ SettingsLoaded
           \/ EarlierSettingsLoaded \/ ChildWatch \/ PingReturns \/ FinalizeWaits
  <2>1. proc = "running" /\ (proc' = proc \/ proc' = "crashed")
    BY <1>8, Zenon DEF PamMessage, PamReturns, AuthenticateReturns, AuthorizeReturns,
     AccreditReturns, OpenSessionReturns, ForkReturns, AnswersFreedInvocation, SettingsLoaded,
     EarlierSettingsLoaded, ChildWatch, PingReturns, FinalizeWaits, Returned, Dispatching, procVars
  <2> QED BY <2>1, <1>5
<1> QED BY <1>1, <1>2, <1>3, <1>4, <1>6, <1>7, <1>8, Zenon DEF Next

ExitIndInv == TypeOK /\ TransactionInv /\ ConsoleInv /\ CleanExit

\* A worker that handles its signals leaves no program, no PAM session and no credentials
\* behind when it ends, and the console shows the login screen (finalize), for any
\* number of calls in any order.
THEOREM LeavesNothingBehind == Spec => []CleanExit
<1>1. Init => ExitIndInv
  <2>1. Init => ConsoleInv /\ CleanExit
    BY DEF Init, ConsoleInv, CleanExit
  <2> QED BY <2>1, InitTypeOK, InitTransactionInv DEF ExitIndInv
<1>2. ExitIndInv /\ [Next]_vars => ExitIndInv'
  <2> SUFFICES ASSUME ExitIndInv, [Next]_vars PROVE ExitIndInv'
    OBVIOUS
  <2>1. TypeOK' /\ TransactionInv'
    BY NextFlagsOK, NextCallsOK, NextDataOK, NextTransactionInv DEF ExitIndInv, TypeOK
  <2>2. ConsoleInv' /\ CleanExit'
    BY NextConsoleInv, NextCleanExit DEF ExitIndInv
  <2> QED BY <2>1, <2>2 DEF ExitIndInv
<1>3. ExitIndInv => CleanExit
  BY DEF ExitIndInv
<1> QED BY <1>1, <1>2, <1>3, PTL DEF Spec

====
