----------------------- MODULE SessionLauncher_proofs -----------------------
(***************************************************************************)
(* Proofs about the programs that run a user's session, for every set of   *)
(* environment variables.  What the launcher leaves behind when it ends    *)
(* was decided many steps earlier: which parts it got to know, what the    *)
(* main loop found ready in the iteration that ended it, and in which      *)
(* order it was dispatched.  The invariant carries this from the start-up  *)
(* through the loop to the exit.                                           *)
(***************************************************************************)
EXTENDS SessionLauncher, SequenceTheorems, TLAPS

\* The parts of TypeOK.
FixedOK == kind \in Kinds /\ handles \in BOOLEAN /\ own \subseteq Vars
ProcOK ==
    /\ proc \in [Parts -> {"none", "running", "exited", "killed"}]
    /\ tracked \subseteq Parts /\ greeted \subseteq Parts /\ watch \subseteq Parts
    /\ signalled \subseteq Parts
EnvOK ==
    /\ imported \in [given : BOOLEAN, names : SUBSET Vars]
    /\ sessionEnv \in [Vars -> {"unset", "own", "imported", "launcher"}]
ControlOK ==
    /\ pc \in {"start", "spawn_x", "read_x", "spawn_bus", "read_bus", "connect_bus", "import",
               "update_env", "connect_dm", "spawn_session", "register", "loop", "signal",
               "wait", "clear", "exited"}
    /\ term \in BOOLEAN /\ cancelled \in BOOLEAN /\ quit \in BOOLEAN
    /\ cause \in {"none", "term"} \cup Parts
    /\ ready \subseteq Parts \cup {"term", "timer"}
    /\ timer \in {"none", "armed", "fired", "removed"}
    /\ sessionStatus \in {"zero", "session"}
    /\ exitStatus \in {"ok", "usage", "dataerr", "software", "session"}
RegisteredOK == registered \in {<<>>, <<"session">>, <<"session", "display">>}

BeforeSession == {"start", "spawn_x", "read_x", "spawn_bus", "read_bus", "connect_bus",
                  "import", "update_env", "spawn_session"}
BeforeBus == {"start", "spawn_x", "read_x", "spawn_bus", "read_bus"}
BeforeX == {"start", "spawn_x", "read_x"}
StartingUp == BeforeSession \cup {"connect_dm", "register"}
GoingOut == {"signal", "wait", "clear", "exited"}

\* No part is tracked before it is started, so that starting one never replaces a
\* process the launcher knows; the two programs connect to the display manager at
\* different times.
StartOrder ==
    /\ pc \in BeforeX => "x" \notin greeted
    /\ pc \in BeforeBus => "bus" \notin greeted
    /\ pc \in BeforeSession => "session" \notin greeted
    /\ pc = "connect_dm" /\ kind = "x" => "session" \notin greeted

\* A part the launcher knows is tracked until it has ended, and only the main loop has
\* something ready, of the parts only those that have ended.
PartsInv ==
    /\ tracked \subseteq greeted
    /\ \A p \in greeted \ tracked : Ended(p)
    /\ \A p \in ready \cap Parts : Ended(p)
    /\ ready # {} => pc = "loop"
    /\ pc \in {"clear", "exited"} => \A p \in greeted : Ended(p)

\* A part that was started and is not known waits for its first line, or the launcher has
\* given up reading it.
OrphanInv ==
    \A p \in Parts : proc[p] # "none" /\ p \notin greeted =>
        \/ p = "x" /\ pc = "read_x"
        \/ p = "bus" /\ pc = "read_bus"
        \/ /\ p \in {"x", "bus"} /\ pc \in GoingOut
           /\ "session" \notin greeted /\ exitStatus = "software"

\* Only the main loop quits, and what is known of the source that made it quit.
LoopInv ==
    /\ pc \in StartingUp => ~quit
    /\ ~quit => cause = "none" /\ ~cancelled /\ sessionStatus = "zero"
    /\ cause = "term" => cancelled /\ sessionStatus = "zero"
    /\ cause = "session" =>
          /\ Ended("session")
          /\ proc["session"] = "exited" =>
                sessionStatus = "session" /\ "session" \notin tracked

\* The exit status is decided on the way out.
StatusInv ==
    /\ pc \notin GoingOut => exitStatus = "ok"
    /\ pc \in GoingOut =>
          /\ cause = "session" /\ proc["session"] = "exited" => exitStatus = "session"
          /\ cause = "term" => exitStatus = "ok"

\* The session's environment is the merge of what was known when it was started.
EnvironmentInv == "session" \in greeted => sessionEnv = MergedEnvironment

\* The timer runs only between the registrations of the session and the display.
RegistrationInv ==
    /\ pc \in StartingUp => registered = <<>> /\ timer = "none"
    /\ timer = "armed" => registered = <<"session">>
    /\ "timer" \in ready => timer = "armed"

LauncherInv ==
    StartOrder /\ PartsInv /\ OrphanInv /\ LoopInv /\ StatusInv /\ EnvironmentInv /\ RegistrationInv

-----------------------------------------------------------------------------
(* One lemma for each part of the invariant.                               *)

\* RegisterSession and RegisterDisplay append to what was registered.
LEMMA Appended ==
    /\ Append(<<>>, "session") = <<"session">>
    /\ Append(<<"session">>, "display") = <<"session", "display">>
<1>1. Append(<<>>, "session") = <<"session">>
  OBVIOUS
<1>2. ASSUME NEW S, NEW a \in S, NEW b \in S PROVE Append(<<a>>, b) = <<a, b>>
  <2>1. <<a>> \in Seq(S) /\ <<a, b>> \in Seq(S)
    OBVIOUS
  <2>2. /\ Append(<<a>>, b) \in Seq(S) /\ Len(Append(<<a>>, b)) = Len(<<a, b>>)
        /\ Append(<<a>>, b)[1] = a /\ Append(<<a>>, b)[2] = b
    BY <2>1, AppendProperties
  <2>3. \A i \in 1..Len(Append(<<a>>, b)) : Append(<<a>>, b)[i] = <<a, b>>[i]
    BY <2>2
  <2> QED BY <2>1, <2>2, <2>3, SeqEqual, Zenon
<1>3. Append(<<"session">>, "display") = <<"session", "display">>
  <2> DEFINE S == {"session", "display"}
  <2>1. "session" \in S /\ "display" \in S
    OBVIOUS
  <2> QED BY <1>2, <2>1, Zenon
<1> QED BY <1>1, <1>3

\* Processes keep their types.
LEMMA NextProcOK ==
    ASSUME ProcOK, [Next]_vars PROVE ProcOK'
<1> USE DEF fixedVars, procVars, envVars, loopVars, ProcOK, Parts
<1>1. CASE SpawnXServer
  BY <1>1 DEF SpawnXServer, SpawnPart, Proceed, GiveUp
<1>2. CASE SpawnBus
  BY <1>2 DEF SpawnBus, SpawnPart, Proceed, GiveUp
<1>3. CASE ReadDisplay \/ ReadAddress
  BY <1>3 DEF ReadDisplay, Track, Proceed, GiveUp, ReadAddress
<1>4. CASE SpawnSession
  BY <1>4 DEF SpawnSession, Proceed, GiveUp
<1>5. CASE OnXServerFinished \/ OnBusFinished \/ OnSessionFinished
  BY <1>5 DEF OnXServerFinished, Finished, Quit, OnBusFinished, OnSessionFinished
<1>6. CASE SignalSubprocesses
  BY <1>6 DEF SignalSubprocesses
<1>7. CASE ClearState
  BY <1>7 DEF ClearState
<1>8. CASE Main \/ ConnectBus \/ ImportEnvironment \/
             UpdateBusEnvironment \/ ConnectToDisplayManager \/ RegisterSession \/
             Iterate \/ OnSigterm \/ RegisterDisplayTimeout \/ LeaveLoop \/
             WaitOnSubprocesses \/ SigtermArrives
  BY <1>8 DEF Main, Proceed, GiveUp, ConnectBus, ImportEnvironment,
     UpdateBusEnvironment, ConnectToDisplayManager, RegisterSession, Iterate,
     Dispatchable, OnSigterm, Quit, RegisterDisplayTimeout, LeaveLoop,
     WaitOnSubprocesses, SigtermArrives
<1>9. ASSUME NEW p \in Parts, Ends(p) PROVE ProcOK'
  BY <1>9 DEF Ends
<1>10. CASE UNCHANGED vars
  BY <1>10 DEF vars
<1> QED BY <1>1, <1>2, <1>3, <1>4, <1>5, <1>6, <1>7, <1>8, <1>9, <1>10 DEF Next,
           StartUp, MainLoop, Out

\* So does what is known of the environment.
LEMMA NextEnvOK ==
    ASSUME FixedOK, EnvOK, [Next]_vars PROVE (FixedOK /\ EnvOK)'
<1> USE DEF fixedVars, procVars, envVars, loopVars, FixedOK, EnvOK
<1>1. CASE ImportEnvironment
  <2>1. FixedOK' /\ UNCHANGED sessionEnv
    BY <1>1 DEF ImportEnvironment
  <2>2. \/ UNCHANGED imported
        \/ \E names \in SUBSET Vars : imported' = [given |-> TRUE, names |-> names]
    BY <1>1, Zenon DEF ImportEnvironment
  <2>3. imported' \in [given : BOOLEAN, names : SUBSET Vars]
    <3>1. CASE UNCHANGED imported
      BY <3>1
    <3>2. ASSUME NEW names \in SUBSET Vars, imported' = [given |-> TRUE, names |-> names]
          PROVE  imported' \in [given : BOOLEAN, names : SUBSET Vars]
      BY <3>2, Zenon
    <3> QED BY <2>2, <3>1, <3>2
  <2> QED BY <2>1, <2>3
<1>2. CASE SpawnSession
  BY <1>2 DEF SpawnSession, Proceed, GiveUp, MergedEnvironment
<1>3. CASE Main \/ SpawnXServer \/ ReadDisplay \/ SpawnBus \/
             ReadAddress \/ ConnectBus \/ UpdateBusEnvironment \/
             ConnectToDisplayManager \/ RegisterSession \/ Iterate \/ OnSigterm \/
             RegisterDisplayTimeout \/ LeaveLoop \/ OnXServerFinished \/ OnBusFinished
             \/ OnSessionFinished \/ SignalSubprocesses \/ WaitOnSubprocesses \/
             ClearState \/ SigtermArrives
  BY <1>3 DEF Main, Proceed, GiveUp, SpawnXServer, SpawnPart, ReadDisplay,
     Track, SpawnBus, ReadAddress, ConnectBus, UpdateBusEnvironment,
     ConnectToDisplayManager, RegisterSession, Iterate, Dispatchable, OnSigterm, Quit,
     RegisterDisplayTimeout, LeaveLoop, OnXServerFinished, Finished, OnBusFinished,
     OnSessionFinished, SignalSubprocesses, WaitOnSubprocesses, ClearState,
     SigtermArrives
<1>4. ASSUME NEW p \in Parts, Ends(p) PROVE (FixedOK /\ EnvOK)'
  BY <1>4 DEF Ends
<1>5. CASE UNCHANGED vars
  BY <1>5 DEF vars
<1> QED BY <1>1, <1>2, <1>3, <1>4, <1>5 DEF Next, StartUp, MainLoop, Out

\* So does the control state.
LEMMA NextControlOK ==
    ASSUME ProcOK, ControlOK, [Next]_vars PROVE ControlOK'
<1> USE DEF fixedVars, procVars, envVars, loopVars, ControlOK, Parts
<1>1. CASE Main
  BY <1>1 DEF Main
<1>3. CASE SpawnXServer
  BY <1>3 DEF SpawnXServer, SpawnPart, Proceed, GiveUp
<1>4. CASE SpawnBus
  BY <1>4 DEF SpawnBus, SpawnPart, Proceed, GiveUp
<1>5. CASE ReadDisplay
  BY <1>5 DEF ReadDisplay, Track, Proceed, GiveUp
<1>6. CASE ReadAddress
  BY <1>6 DEF ReadAddress, Track, Proceed, GiveUp
<1>7. CASE ConnectBus
  BY <1>7 DEF ConnectBus, Proceed, GiveUp
<1>8. CASE ImportEnvironment
  BY <1>8 DEF ImportEnvironment, Proceed
<1>9. CASE UpdateBusEnvironment
  BY <1>9 DEF UpdateBusEnvironment, Proceed, GiveUp
<1>10. CASE ConnectToDisplayManager
  BY <1>10 DEF ConnectToDisplayManager, Proceed, GiveUp
<1>11. CASE SpawnSession
  BY <1>11 DEF SpawnSession, Proceed, GiveUp
<1>12. CASE SignalSubprocesses
  BY <1>12 DEF SignalSubprocesses
<1>13. CASE WaitOnSubprocesses
  BY <1>13 DEF WaitOnSubprocesses
<1>14. CASE RegisterSession
  BY <1>14 DEF RegisterSession, Proceed, GiveUp
<1>15. CASE Iterate
  BY <1>15 DEF Iterate, Dispatchable, ProcOK
<1>16. CASE OnSigterm
  BY <1>16 DEF OnSigterm, Quit
<1>17. CASE RegisterDisplayTimeout
  BY <1>17 DEF RegisterDisplayTimeout
<1>18. CASE OnXServerFinished
  BY <1>18 DEF OnXServerFinished, Finished, Quit
<1>19. CASE OnBusFinished
  BY <1>19 DEF OnBusFinished, Finished, Quit
<1>20. CASE OnSessionFinished
  BY <1>20 DEF OnSessionFinished, Finished, Quit
<1>21. CASE LeaveLoop
  BY <1>21 DEF LeaveLoop
<1>22. CASE ClearState
  BY <1>22 DEF ClearState
<1>23. CASE SigtermArrives
  BY <1>23 DEF SigtermArrives
<1>24. ASSUME NEW p \in Parts, Ends(p) PROVE ControlOK'
  BY <1>24 DEF Ends
<1>25. CASE UNCHANGED vars
  BY <1>25 DEF vars
<1> QED BY <1>1, <1>3, <1>4, <1>5, <1>6, <1>7, <1>8, <1>9, <1>10, <1>11, <1>12,
           <1>13, <1>14, <1>15, <1>16, <1>17, <1>18, <1>19, <1>20, <1>21, <1>22, <1>23,
           <1>24, <1>25 DEF Next, StartUp, MainLoop, Out

\* So does the registration.
LEMMA NextRegisteredOK ==
    ASSUME RegisteredOK, RegistrationInv, [Next]_vars PROVE RegisteredOK'
<1> USE DEF fixedVars, procVars, envVars, loopVars, RegisteredOK, RegistrationInv,
            StartingUp
<1>1. CASE RegisterSession
  BY <1>1, Appended DEF RegisterSession, Proceed, GiveUp
<1>2. CASE RegisterDisplayTimeout
  BY <1>2, Appended DEF RegisterDisplayTimeout
<1>3. CASE Main \/ SpawnXServer \/ ReadDisplay \/ SpawnBus \/
             ReadAddress \/ ConnectBus \/ ImportEnvironment \/ UpdateBusEnvironment \/
             ConnectToDisplayManager \/ SpawnSession \/ Iterate \/ OnSigterm \/
             LeaveLoop \/ OnXServerFinished \/ OnBusFinished \/ OnSessionFinished \/
             SignalSubprocesses \/ WaitOnSubprocesses \/ ClearState \/ SigtermArrives
  BY <1>3 DEF Main, Proceed, GiveUp, SpawnXServer, SpawnPart, ReadDisplay,
     Track, SpawnBus, ReadAddress, ConnectBus, ImportEnvironment, UpdateBusEnvironment,
     ConnectToDisplayManager, SpawnSession, Iterate, Dispatchable, OnSigterm, Quit,
     LeaveLoop, OnXServerFinished, Finished, OnBusFinished, OnSessionFinished,
     SignalSubprocesses, WaitOnSubprocesses, ClearState, SigtermArrives
<1>4. ASSUME NEW p \in Parts, Ends(p) PROVE RegisteredOK'
  BY <1>4 DEF Ends
<1>5. CASE UNCHANGED vars
  BY <1>5 DEF vars
<1> QED BY <1>1, <1>2, <1>3, <1>4, <1>5 DEF Next, StartUp, MainLoop, Out

\* A part becomes known at one place of the start-up, which is not come to again.
LEMMA NextStartOrder ==
    ASSUME TypeOK, StartOrder, [Next]_vars PROVE StartOrder'
<1> USE DEF fixedVars, procVars, envVars, loopVars, Ended, TypeOK, Parts, Kinds,
            StartOrder, BeforeX, BeforeBus, BeforeSession
<1>1. CASE ReadDisplay
  BY <1>1 DEF ReadDisplay, Track, Proceed, GiveUp
<1>2. CASE ReadAddress
  BY <1>2 DEF ReadAddress, Track, Proceed, GiveUp
<1>3. CASE ConnectToDisplayManager
  BY <1>3 DEF ConnectToDisplayManager, Proceed, GiveUp
<1>4. CASE SpawnSession
  BY <1>4 DEF SpawnSession, Proceed, GiveUp
<1>5. CASE Main \/ SpawnXServer \/ SpawnBus \/ ConnectBus \/
             ImportEnvironment \/ UpdateBusEnvironment \/ RegisterSession \/ Iterate \/
             OnSigterm \/ RegisterDisplayTimeout \/ LeaveLoop \/ OnXServerFinished \/
             OnBusFinished \/ OnSessionFinished \/ SignalSubprocesses \/
             WaitOnSubprocesses \/ ClearState \/ SigtermArrives
  BY <1>5 DEF Main, Proceed, GiveUp, SpawnXServer, SpawnPart, SpawnBus,
     ConnectBus, ImportEnvironment, UpdateBusEnvironment, RegisterSession, Iterate,
     Dispatchable, OnSigterm, Quit, RegisterDisplayTimeout, LeaveLoop,
     OnXServerFinished, Finished, OnBusFinished, OnSessionFinished, SignalSubprocesses,
     WaitOnSubprocesses, ClearState, SigtermArrives
<1>6. ASSUME NEW p \in Parts, Ends(p) PROVE StartOrder'
  BY <1>6 DEF Ends
<1>7. CASE UNCHANGED vars
  BY <1>7 DEF vars
<1> QED BY <1>1, <1>2, <1>3, <1>4, <1>5, <1>6, <1>7 DEF Next, StartUp, MainLoop, Out

\* Who is not tracked any more has ended.
LEMMA NextPartsInv ==
    ASSUME TypeOK, StartOrder, PartsInv, LoopInv, [Next]_vars PROVE PartsInv'
<1> USE DEF fixedVars, procVars, envVars, loopVars, Ended, TypeOK, Parts, Kinds,
            StartOrder, BeforeX, BeforeBus, BeforeSession, PartsInv
<1>1. CASE Main
  BY <1>1 DEF Main
<1>2. CASE SpawnXServer
  BY <1>2 DEF SpawnXServer, SpawnPart, Proceed, GiveUp
<1>3. CASE SpawnBus
  BY <1>3 DEF SpawnBus, SpawnPart, Proceed, GiveUp
<1>4. CASE ReadDisplay
  BY <1>4 DEF ReadDisplay, Track, Proceed, GiveUp
<1>5. CASE ReadAddress
  BY <1>5 DEF ReadAddress, Track, Proceed, GiveUp
<1>6. CASE SpawnSession
  BY <1>6 DEF SpawnSession, Proceed, GiveUp
<1>7. CASE Iterate
  BY <1>7 DEF Iterate, Dispatchable
<1>8. CASE OnXServerFinished \/ OnBusFinished \/ OnSessionFinished
  BY <1>8 DEF OnXServerFinished, Finished, Quit, OnBusFinished, OnSessionFinished
<1>9. CASE WaitOnSubprocesses
  BY <1>9 DEF WaitOnSubprocesses
<1>10. CASE ClearState
  BY <1>10 DEF ClearState
<1>11. CASE ConnectBus \/ ImportEnvironment \/ UpdateBusEnvironment
              \/ ConnectToDisplayManager \/ RegisterSession \/ OnSigterm \/
              RegisterDisplayTimeout \/ LeaveLoop \/ SignalSubprocesses \/
              SigtermArrives
  BY <1>11 DEF Proceed, GiveUp, ConnectBus, ImportEnvironment,
     UpdateBusEnvironment, ConnectToDisplayManager, RegisterSession, OnSigterm, Quit,
     RegisterDisplayTimeout, LeaveLoop, SignalSubprocesses, SigtermArrives
<1>12. ASSUME NEW p \in Parts, Ends(p) PROVE PartsInv'
  BY <1>12 DEF Ends
<1>13. CASE UNCHANGED vars
  BY <1>13 DEF vars
<1> QED BY <1>1, <1>2, <1>3, <1>4, <1>5, <1>6, <1>7, <1>8, <1>9, <1>10, <1>11, <1>12,
           <1>13 DEF Next, StartUp, MainLoop, Out

\* Who is not known is never forgotten by a launcher that goes on.
LEMMA NextOrphanInv ==
    ASSUME TypeOK, StartOrder, OrphanInv, StatusInv, [Next]_vars PROVE OrphanInv'
<1> USE DEF fixedVars, procVars, envVars, loopVars, Ended, TypeOK, Parts, Kinds,
            StartOrder, BeforeX, BeforeBus, BeforeSession, GoingOut, OrphanInv
<1>1. CASE Main
  BY <1>1 DEF Main
<1>2. CASE SpawnXServer
  BY <1>2 DEF SpawnXServer, SpawnPart, Proceed, GiveUp
<1>3. CASE SpawnBus
  BY <1>3 DEF SpawnBus, SpawnPart, Proceed, GiveUp
<1>4. CASE ReadDisplay
  BY <1>4 DEF ReadDisplay, Track, Proceed, GiveUp
<1>5. CASE ReadAddress
  BY <1>5 DEF ReadAddress, Track, Proceed, GiveUp
<1>6. CASE SpawnSession
  BY <1>6 DEF SpawnSession, Proceed, GiveUp
<1>7. CASE OnXServerFinished \/ OnBusFinished \/ OnSessionFinished
  BY <1>7 DEF OnXServerFinished, Finished, Quit, OnBusFinished, OnSessionFinished
<1>8. CASE ConnectBus \/ ImportEnvironment \/ UpdateBusEnvironment
           \/ ConnectToDisplayManager \/ RegisterSession \/ Iterate \/ OnSigterm
           \/ RegisterDisplayTimeout \/ LeaveLoop
  BY <1>8 DEF Proceed, GiveUp, ConnectBus, ImportEnvironment, UpdateBusEnvironment,
     ConnectToDisplayManager, RegisterSession, Iterate, OnSigterm, Quit,
     RegisterDisplayTimeout, LeaveLoop
<1>9. CASE SignalSubprocesses \/ WaitOnSubprocesses \/ ClearState \/ SigtermArrives
  BY <1>9 DEF SignalSubprocesses, WaitOnSubprocesses, ClearState, SigtermArrives
<1>10. ASSUME NEW p \in Parts, Ends(p) PROVE OrphanInv'
  BY <1>10 DEF Ends
<1>11. CASE UNCHANGED vars
  BY <1>11 DEF vars
<1> QED BY <1>1, <1>2, <1>3, <1>4, <1>5, <1>6, <1>7, <1>8, <1>9, <1>10, <1>11 DEF Next,
           StartUp, MainLoop, Out

\* What quit the loop first stays known, with what it did to the exit status.
LEMMA NextLoopInv ==
    ASSUME TypeOK, StartOrder, PartsInv, LoopInv, [Next]_vars PROVE LoopInv'
<1> USE DEF fixedVars, procVars, envVars, loopVars, Ended, TypeOK, Parts, Kinds,
            StartOrder, BeforeX, BeforeBus, BeforeSession, PartsInv, LoopInv, StartingUp
<1>1. CASE SpawnXServer
  BY <1>1 DEF SpawnXServer, SpawnPart, Proceed, GiveUp
<1>2. CASE SpawnBus
  BY <1>2 DEF SpawnBus, SpawnPart, Proceed, GiveUp
<1>3. CASE SpawnSession
  BY <1>3 DEF SpawnSession, Proceed, GiveUp
<1>4. CASE OnSigterm
  BY <1>4 DEF OnSigterm, Quit
<1>5. CASE OnXServerFinished \/ OnBusFinished
  BY <1>5 DEF OnXServerFinished, Finished, Quit, OnBusFinished
<1>6. CASE OnSessionFinished
  BY <1>6 DEF OnSessionFinished, Finished, Quit
<1>7. CASE Main \/ ReadDisplay \/ ReadAddress \/ ConnectBus \/
             ImportEnvironment \/ UpdateBusEnvironment \/ ConnectToDisplayManager \/
             RegisterSession \/ Iterate \/ RegisterDisplayTimeout \/ LeaveLoop \/
             SignalSubprocesses \/ WaitOnSubprocesses \/ ClearState \/ SigtermArrives
  BY <1>7 DEF Main, Proceed, GiveUp, ReadDisplay, Track, ReadAddress,
     ConnectBus, ImportEnvironment, UpdateBusEnvironment, ConnectToDisplayManager,
     RegisterSession, Iterate, Dispatchable, RegisterDisplayTimeout, LeaveLoop,
     SignalSubprocesses, WaitOnSubprocesses, ClearState, SigtermArrives
<1>8. ASSUME NEW p \in Parts, Ends(p) PROVE LoopInv'
  BY <1>8 DEF Ends
<1>9. CASE UNCHANGED vars
  BY <1>9 DEF vars
<1> QED BY <1>1, <1>2, <1>3, <1>4, <1>5, <1>6, <1>7, <1>8, <1>9 DEF Next, StartUp,
           MainLoop, Out

\* The exit status is set on the way out, from what quit the loop first.
LEMMA NextStatusInv ==
    ASSUME TypeOK, PartsInv, LoopInv, StatusInv, [Next]_vars PROVE StatusInv'
<1> USE DEF fixedVars, procVars, envVars, loopVars, Ended, TypeOK, Parts, Kinds,
            PartsInv, LoopInv, StatusInv, StartingUp, GoingOut, BeforeSession
<1>1. CASE LeaveLoop
  BY <1>1 DEF LeaveLoop
<1>2. CASE SpawnXServer \/ SpawnBus \/ SpawnSession
  BY <1>2 DEF SpawnXServer, SpawnPart, Proceed, GiveUp, SpawnBus, SpawnSession
<1>3. CASE OnXServerFinished \/ OnBusFinished \/ OnSessionFinished
  BY <1>3 DEF OnXServerFinished, Finished, Quit, OnBusFinished, OnSessionFinished
<1>4. CASE Main \/ ReadDisplay \/ ReadAddress \/ ConnectBus \/
             ImportEnvironment \/ UpdateBusEnvironment \/ ConnectToDisplayManager \/
             RegisterSession
  BY <1>4 DEF Main, Proceed, GiveUp, ReadDisplay, Track, ReadAddress,
     ConnectBus, ImportEnvironment, UpdateBusEnvironment, ConnectToDisplayManager,
     RegisterSession
<1>5. CASE Iterate \/ OnSigterm \/ RegisterDisplayTimeout \/ SignalSubprocesses \/
             WaitOnSubprocesses \/ ClearState \/ SigtermArrives
  BY <1>5 DEF Iterate, Dispatchable, OnSigterm, Quit, RegisterDisplayTimeout, SignalSubprocesses,
     WaitOnSubprocesses, ClearState, SigtermArrives
<1>6. ASSUME NEW p \in Parts, Ends(p) PROVE StatusInv'
  BY <1>6 DEF Ends
<1>7. CASE UNCHANGED vars
  BY <1>7 DEF vars
<1> QED BY <1>1, <1>2, <1>3, <1>4, <1>5, <1>6, <1>7 DEF Next, StartUp, MainLoop, Out

\* Nothing of the merge changes once the session has been started.
LEMMA NextEnvironmentInv ==
    ASSUME StartOrder, EnvironmentInv, [Next]_vars PROVE EnvironmentInv'
<1> USE DEF fixedVars, procVars, envVars, loopVars, Ended, Parts, Kinds, StartOrder,
            BeforeX, BeforeBus, BeforeSession, EnvironmentInv, MergedEnvironment, IsImported,
            LauncherVars
<1>1. CASE ImportEnvironment
  BY <1>1 DEF ImportEnvironment, Proceed
<1>2. CASE SpawnSession
  BY <1>2 DEF SpawnSession, Proceed, GiveUp
<1>3. CASE Main \/ SpawnXServer \/ ReadDisplay \/ SpawnBus \/
             ReadAddress \/ ConnectBus \/ UpdateBusEnvironment \/
             ConnectToDisplayManager \/ RegisterSession \/ Iterate \/ OnSigterm \/
             RegisterDisplayTimeout \/ LeaveLoop \/ OnXServerFinished \/ OnBusFinished
             \/ OnSessionFinished \/ SignalSubprocesses \/ WaitOnSubprocesses \/
             ClearState \/ SigtermArrives
  BY <1>3 DEF Main, Proceed, GiveUp, SpawnXServer, SpawnPart, ReadDisplay,
     Track, SpawnBus, ReadAddress, ConnectBus, UpdateBusEnvironment,
     ConnectToDisplayManager, RegisterSession, Iterate, Dispatchable, OnSigterm, Quit,
     RegisterDisplayTimeout, LeaveLoop, OnXServerFinished, Finished, OnBusFinished,
     OnSessionFinished, SignalSubprocesses, WaitOnSubprocesses, ClearState,
     SigtermArrives
<1>4. ASSUME NEW p \in Parts, Ends(p) PROVE EnvironmentInv'
  BY <1>4 DEF Ends
<1>5. CASE UNCHANGED vars
  BY <1>5 DEF vars
<1> QED BY <1>1, <1>2, <1>3, <1>4, <1>5 DEF Next, StartUp, MainLoop, Out

\* The registrations come in their order.
LEMMA NextRegistrationInv ==
    ASSUME TypeOK, PartsInv, RegistrationInv, [Next]_vars PROVE RegistrationInv'
<1> USE DEF fixedVars, procVars, envVars, loopVars, Ended, TypeOK, Parts, Kinds,
            PartsInv, RegistrationInv, StartingUp, BeforeSession
<1>1. CASE RegisterSession
  BY <1>1 DEF RegisterSession, Proceed, GiveUp
<1>2. CASE Iterate
  BY <1>2 DEF Iterate, Dispatchable
<1>3. CASE RegisterDisplayTimeout
  BY <1>3 DEF RegisterDisplayTimeout
<1>4. CASE ClearState
  BY <1>4 DEF ClearState
<1>5. CASE Main \/ SpawnXServer \/ ReadDisplay \/ SpawnBus \/
             ReadAddress \/ ConnectBus \/ ImportEnvironment \/ UpdateBusEnvironment \/
             ConnectToDisplayManager \/ SpawnSession \/ OnSigterm \/ LeaveLoop \/
             OnXServerFinished \/ OnBusFinished \/ OnSessionFinished \/
             SignalSubprocesses \/ WaitOnSubprocesses \/ SigtermArrives
  BY <1>5 DEF Main, Proceed, GiveUp, SpawnXServer, SpawnPart, ReadDisplay,
     Track, SpawnBus, ReadAddress, ConnectBus, ImportEnvironment, UpdateBusEnvironment,
     ConnectToDisplayManager, SpawnSession, OnSigterm, Quit, LeaveLoop,
     OnXServerFinished, Finished, OnBusFinished, OnSessionFinished, SignalSubprocesses,
     WaitOnSubprocesses, SigtermArrives
<1>6. ASSUME NEW p \in Parts, Ends(p) PROVE RegistrationInv'
  BY <1>6 DEF Ends
<1>7. CASE UNCHANGED vars
  BY <1>7 DEF vars
<1> QED BY <1>1, <1>2, <1>3, <1>4, <1>5, <1>6, <1>7 DEF Next, StartUp, MainLoop, Out

-----------------------------------------------------------------------------
\* The invariant holds at first.
LEMMA InitLauncherInv == Init => TypeOK /\ LauncherInv
<1> SUFFICES ASSUME Init PROVE TypeOK /\ LauncherInv
  OBVIOUS
<1>1. TypeOK
  BY DEF Init, TypeOK, Kinds, Parts
<1>2. StartOrder /\ PartsInv /\ OrphanInv
  BY DEF Init, StartOrder, PartsInv, OrphanInv
<1>3. LoopInv /\ StatusInv
  BY DEF Init, LoopInv, StatusInv, StartingUp, GoingOut
<1>4. EnvironmentInv /\ RegistrationInv
  BY DEF Init, EnvironmentInv, RegistrationInv
<1> QED BY <1>1, <1>2, <1>3, <1>4 DEF LauncherInv

\* The launcher goes through states of the invariant only.
LEMMA LauncherInvariance == Spec => [](TypeOK /\ LauncherInv)
<1>1. ASSUME TypeOK, LauncherInv, [Next]_vars PROVE TypeOK'
  <2>1. FixedOK /\ ProcOK /\ EnvOK /\ ControlOK /\ RegisteredOK
    BY <1>1 DEF TypeOK, FixedOK, ProcOK, EnvOK, ControlOK, RegisteredOK
  <2>2. (FixedOK /\ ProcOK /\ EnvOK /\ ControlOK /\ RegisteredOK)'
    BY <1>1, <2>1, NextProcOK, NextEnvOK, NextControlOK, NextRegisteredOK DEF LauncherInv
  <2> QED BY <2>2 DEF TypeOK, FixedOK, ProcOK, EnvOK, ControlOK, RegisteredOK
<1>2. TypeOK /\ LauncherInv /\ [Next]_vars => LauncherInv'
  BY NextStartOrder, NextPartsInv, NextOrphanInv, NextLoopInv, NextStatusInv,
     NextEnvironmentInv, NextRegistrationInv DEF LauncherInv
<1> QED BY InitLauncherInv, <1>1, <1>2, PTL DEF Spec

\* Every variable of the launcher always has its type.
THEOREM LauncherTypeCorrect == Spec => []TypeOK
BY LauncherInvariance, PTL

\* Whichever way the launcher goes down, no part of a session outlives it: only a server or
\* bus whose first line could not be read does, and then no session was started.
THEOREM PartsEndWithLauncher == Spec => []NoOrphans
<1>1. TypeOK /\ LauncherInv => NoOrphans
  <2> SUFFICES ASSUME TypeOK, LauncherInv, pc = "exited", NEW p \in Parts, proc[p] = "running"
               PROVE  /\ p \in {"x", "bus"} \ greeted
                      /\ "session" \notin greeted /\ exitStatus = "software"
    BY DEF NoOrphans
  <2>1. p \notin greeted
    BY DEF LauncherInv, PartsInv, Ended
  <2> QED BY <2>1 DEF LauncherInv, OrphanInv
<1> QED BY LauncherInvariance, <1>1, PTL

\* The exit status is that of the session if the session ended first, and EX_OK if
\* SIGTERM came first, whatever else was ready in the same iteration.
THEOREM ExitStatusIsDue == Spec => []StatusFollowsCause
<1>1. LauncherInv => StatusFollowsCause
  BY DEF LauncherInv, StatusInv, StatusFollowsCause, GoingOut
<1> QED BY LauncherInvariance, <1>1, PTL

\* The merge of the environments lets no session variable of an earlier session
\* through and prefers the launcher's own values, for every set of variables.
LEMMA MergeIsClean ==
    ASSUME TypeOK
    PROVE  /\ \A v \in SessionVars : MergedEnvironment[v] # "imported"
           /\ \A v \in own \ Fallback : MergedEnvironment[v] \in {"own", "launcher"}
           /\ imported.given =>
                 \A v \in Fallback \cap imported.names : MergedEnvironment[v] = "imported"
           /\ \A v \in LauncherVars : MergedEnvironment[v] = "launcher"
<1>1. ASSUME NEW v \in SessionVars PROVE MergedEnvironment[v] # "imported"
  <2>1. v \in Vars /\ ~IsImported(v)
    BY VariablesAreApart DEF Vars, IsImported
  <2> QED BY <2>1 DEF MergedEnvironment
<1>2. ASSUME NEW v \in own \ Fallback PROVE MergedEnvironment[v] \in {"own", "launcher"}
  <2>1. v \in Vars /\ ~IsImported(v)
    BY DEF TypeOK, IsImported
  <2> QED BY <2>1 DEF MergedEnvironment
<1>3. ASSUME NEW v \in Fallback \cap imported.names, imported.given
      PROVE  MergedEnvironment[v] = "imported"
  <2>1. v \in Vars /\ v \notin LauncherVars /\ IsImported(v)
    BY <1>3, VariablesAreApart DEF Vars, LauncherVars, IsImported
  <2> QED BY <2>1 DEF MergedEnvironment
<1>4. ASSUME NEW v \in LauncherVars PROVE MergedEnvironment[v] = "launcher"
  <2>1. v \in Vars
    BY VariablesAreApart DEF Vars, LauncherVars
  <2> QED BY <2>1 DEF MergedEnvironment
<1> QED BY <1>1, <1>2, <1>3, <1>4

\* No variable of an earlier session that systemd --user still has reaches the session
\* program, the launcher's own values win except for the fallback ones, and the session finds
\* the server and the bus that were started for it, whatever the variables are (the comment
\* in spawn_session).
THEOREM EnvironmentIsClean == Spec => []NoStaleVariables
<1>1. TypeOK /\ LauncherInv => NoStaleVariables
  BY MergeIsClean DEF LauncherInv, EnvironmentInv, NoStaleVariables
<1> QED BY LauncherInvariance, <1>1, PTL

\* The session is registered before the display, each once, and no display after
\* SIGTERM was dispatched.
THEOREM RegistrationsInTime == Spec => DisplayRegisteredInTime
<1> DEFINE InTime ==
        registered' # registered =>
            \/ registered' = <<"session">>
            \/ registered = <<"session">> /\ registered' = <<"session", "display">>
               /\ cause # "term"
<1>1. ASSUME LauncherInv, [Next]_vars PROVE [InTime]_vars
  <2>1. CASE RegisterSession
    <3>1. registered = <<>> /\ registered' \in {registered, Append(registered, "session")}
      BY <1>1, <2>1 DEF RegisterSession, LauncherInv, RegistrationInv, StartingUp
    <3> QED BY <3>1, Appended
  <2>2. CASE RegisterDisplayTimeout
    <3>1. /\ registered = <<"session">>
          /\ \/ UNCHANGED registered
             \/ ~cancelled /\ registered' = Append(registered, "display")
      BY <1>1, <2>2 DEF RegisterDisplayTimeout, LauncherInv, RegistrationInv
    <3>2. ~cancelled => cause # "term"
      BY <1>1 DEF LauncherInv, LoopInv
    <3> QED BY <3>1, <3>2, Appended
  <2>3. CASE UNCHANGED registered
    BY <2>3
  <2>4. \/ RegisterSession \/ RegisterDisplayTimeout \/ UNCHANGED registered
    BY <1>1, Zenon DEF Next, StartUp, MainLoop, Out, Main, SpawnXServer,
       ReadDisplay, SpawnBus, ReadAddress, ConnectBus, ImportEnvironment,
       UpdateBusEnvironment, ConnectToDisplayManager, SpawnSession, Iterate, OnSigterm,
       LeaveLoop, OnXServerFinished, OnBusFinished, OnSessionFinished, Finished,
       SignalSubprocesses, WaitOnSubprocesses, ClearState, SigtermArrives, Ends, vars
  <2> QED BY <2>1, <2>2, <2>3, <2>4
<1> QED BY LauncherInvariance, <1>1, PTL DEF Spec, DisplayRegisteredInTime
====
