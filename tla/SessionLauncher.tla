--------------------------- MODULE SessionLauncher ---------------------------
(***************************************************************************)
(* The programs that run a user's session: daemon/gdm-x-session.c, which   *)
(* starts an X server, a message bus and the session, and                  *)
(* daemon/gdm-wayland-session.c, which starts a message bus and the        *)
(* session.  Starting up is a sequence of synchronous calls; only then     *)
(* does the main loop run, so that a SIGTERM or the end of a part during   *)
(* start-up waits for it.  The loop ends with whatever part ends first;    *)
(* sources that were found ready in the same iteration are still           *)
(* dispatched, in any order.                                               *)
(***************************************************************************)
EXTENDS Naturals, Sequences

CONSTANTS
    Fallback,         \* variables of which the imported value is preferred (PATH)
    SessionVars,      \* variables of one session only (DISPLAY, WAYLAND_DISPLAY...)
    OtherVars,        \* the other variables of the user's systemd instance
    ServerVars,       \* set for its X server: DISPLAY, XAUTHORITY, WINDOWPATH on a VT
    BusVars           \* set for its bus: DBUS_SESSION_BUS_ADDRESS

ASSUME VariablesAreApart ==
    /\ Fallback \cap SessionVars = {}
    /\ (Fallback \cup SessionVars) \cap OtherVars = {}
    /\ ServerVars \cup BusVars \subseteq SessionVars \cup OtherVars

Kinds == {"x", "wayland"}
Parts == {"x", "bus", "session"}
Vars == Fallback \cup SessionVars \cup OtherVars

VARIABLES
    kind,             \* which of the two programs
    handles,          \* it registers the session and the display itself
    own,              \* variables set in its own environment
    pc,               \* where main is
    proc,             \* the processes it has started
    tracked,          \* x_subprocess, bus_subprocess, session_subprocess not NULL
    greeted,          \* history: parts that were ever tracked
    watch,            \* parts with a g_subprocess_wait_async under way
    signalled,        \* parts that were sent SIGTERM
    imported,         \* state->environment: the variables imported, with a flag
    sessionEnv,       \* where each variable of the session came from
    term,             \* SIGTERM has arrived and was not dispatched
    cancelled,        \* the cancellable is cancelled
    quit,             \* g_main_loop_quit was called
    cause,            \* history: the source that made the loop quit first
    ready,            \* sources of this iteration that are not dispatched yet
    timer,            \* register_display_id: no source, armed, fired, removed
    registered,       \* calls that reached the display manager, in order
    sessionStatus,    \* session_exit_status: zero or that of the session
    exitStatus        \* exit_status of main

fixedVars == <<kind, handles, own>>
procVars == <<proc, tracked, greeted, watch, signalled>>
envVars == <<imported, sessionEnv>>
loopVars == <<cancelled, quit, cause, ready, timer, sessionStatus>>
vars == <<fixedVars, pc, procVars, envVars, term, loopVars, registered, exitStatus>>

Init ==
    /\ kind \in Kinds
    /\ handles \in BOOLEAN /\ (kind = "x" => handles)
    /\ own \in SUBSET Vars
    /\ pc = "start"
    /\ proc = [p \in Parts |-> "none"]
    /\ tracked = {} /\ greeted = {} /\ watch = {} /\ signalled = {}
    /\ imported = [given |-> FALSE, names |-> {}]
    /\ sessionEnv = [v \in Vars |-> "unset"]
    /\ term = FALSE /\ cancelled = FALSE /\ quit = FALSE /\ cause = "none"
    /\ ready = {} /\ timer = "none"
    /\ registered = <<>> /\ sessionStatus = "zero" /\ exitStatus = "ok"

-----------------------------------------------------------------------------
\* main, as far as the first part: a wrong command line ends it at once,
\* unreadable settings go to "out".
Main ==
    /\ pc = "start"
    /\ \/ pc' = "exited" /\ exitStatus' = "usage"
       \/ pc' = "signal" /\ exitStatus' = "dataerr"
       \/ /\ pc' = IF kind = "x" THEN "spawn_x" ELSE "spawn_bus"
          /\ UNCHANGED exitStatus
    /\ UNCHANGED <<fixedVars, procVars, envVars, term, loopVars, registered>>

\* A step of the start-up succeeds, or fails with an exit status and goes to "out".
Proceed(next) == pc' = next /\ UNCHANGED exitStatus
GiveUp(status) == pc' = "signal" /\ exitStatus' = status

\* The process is started; nothing refers to it until its first line is read.
SpawnPart(p, next) ==
    \/ /\ proc' = [proc EXCEPT ![p] = "running"]
       /\ Proceed(next)
    \/ GiveUp("software") /\ UNCHANGED proc

\* state->..._subprocess = g_object_ref (subprocess); g_subprocess_wait_async
Track(p) ==
    /\ tracked' = tracked \cup {p}
    /\ greeted' = greeted \cup {p}
    /\ watch' = watch \cup {p}
    /\ UNCHANGED <<proc, signalled>>

\* Whether there is an authority file is not looked at: without one the server gets a
\* shorter command line.
SpawnXServer ==
    /\ pc = "spawn_x"
    /\ SpawnPart("x", "read_x")
    /\ UNCHANGED <<fixedVars, tracked, greeted, watch, signalled, envVars, term,
                   loopVars, registered>>

\* The read ends with the display number, with the end of the file or with an error.
ReadDisplay ==
    /\ pc = "read_x"
    /\ \/ Track("x") /\ Proceed("spawn_bus")
       \/ GiveUp("software") /\ UNCHANGED procVars
    /\ UNCHANGED <<fixedVars, envVars, term, loopVars, registered>>

\* A session bus that can be reached is used as it is.
SpawnBus ==
    /\ pc = "spawn_bus"
    /\ \/ Proceed("import") /\ UNCHANGED proc
       \/ SpawnPart("bus", "read_bus")
    /\ UNCHANGED <<fixedVars, tracked, greeted, watch, signalled, envVars, term,
                   loopVars, registered>>

ReadAddress ==
    /\ pc = "read_bus"
    /\ \/ Track("bus") /\ Proceed("connect_bus")
       \/ GiveUp("software") /\ UNCHANGED procVars
    /\ UNCHANGED <<fixedVars, envVars, term, loopVars, registered>>

ConnectBus ==
    /\ pc = "connect_bus"
    /\ Proceed("import") \/ GiveUp("software")
    /\ UNCHANGED <<fixedVars, procVars, envVars, term, loopVars, registered>>

\* What systemd returns is not looked at here; a failure is ignored.
ImportEnvironment ==
    /\ pc = "import"
    /\ \/ \E names \in SUBSET Vars : imported' = [given |-> TRUE, names |-> names]
       \/ UNCHANGED imported
    /\ Proceed(IF kind = "x" THEN "update_env" ELSE "spawn_session")
    /\ UNCHANGED <<fixedVars, procVars, sessionEnv, term, loopVars, registered>>

UpdateBusEnvironment ==
    /\ pc = "update_env"
    /\ Proceed("connect_dm") \/ GiveUp("software")
    /\ UNCHANGED <<fixedVars, procVars, envVars, term, loopVars, registered>>

\* The X program connects before it starts the session, the other one after;
\* a failure leaves the exit status EX_OK.
ConnectToDisplayManager ==
    /\ pc = "connect_dm"
    /\ \/ Proceed(IF kind = "x" THEN "spawn_session"
                  ELSE IF handles THEN "register" ELSE "loop")
       \/ GiveUp("ok")
    /\ UNCHANGED <<fixedVars, procVars, envVars, term, loopVars, registered>>

-----------------------------------------------------------------------------
\* Mutant of MergedEnvironment: imported values are always preferred and kept.
MergedEnvironmentImported ==
    [v \in Vars |->
        IF imported.given /\ v \in imported.names THEN "imported"
        ELSE IF v \in own THEN "own" ELSE "unset"]

\* What spawn_session sets for the parts the launcher has started.
LauncherVars ==
    (IF "x" \in greeted THEN ServerVars ELSE {}) \cup (IF "bus" \in greeted THEN BusVars ELSE {})

\* setenv overwrites the launcher's own value only of the fallback variables; session
\* variables the launcher does not have are unset.
IsImported(v) ==
    /\ imported.given /\ v \in imported.names
    /\ v \in Fallback \/ v \notin own \cup SessionVars

\* The environment the session inherits.
MergedEnvironment ==
    [v \in Vars |->
        IF v \in LauncherVars THEN "launcher"
        ELSE IF IsImported(v) THEN "imported"
        ELSE IF v \in own THEN "own" ELSE "unset"]

\* spawn_session: the command line may be malformed (wayland) or the spawn fail.
SpawnSession ==
    /\ pc = "spawn_session"
    /\ \/ /\ proc' = [proc EXCEPT !["session"] = "running"]
          /\ tracked' = tracked \cup {"session"}
          /\ greeted' = greeted \cup {"session"}
          /\ watch' = watch \cup {"session"}
          /\ sessionEnv' = MergedEnvironment
          /\ Proceed(IF kind = "x" THEN "register" ELSE "connect_dm")
       \/ /\ GiveUp("software")
          /\ UNCHANGED <<proc, tracked, greeted, watch, sessionEnv>>
    /\ UNCHANGED <<fixedVars, signalled, imported, term, loopVars, registered>>

\* The reply may be an error although the call arrived.
RegisterSession ==
    /\ pc = "register"
    /\ \/ /\ registered' = Append(registered, "session")
          /\ \/ Proceed("loop") /\ timer' = "armed"
             \/ GiveUp("software") /\ UNCHANGED timer
       \/ GiveUp("software") /\ UNCHANGED <<timer, registered>>
    /\ UNCHANGED <<fixedVars, procVars, envVars, term, cancelled, quit, cause, ready,
                   sessionStatus>>

-----------------------------------------------------------------------------
Ended(p) == proc[p] \in {"exited", "killed"}

\* Sources that can be found ready: the notice of a child's end comes through
\* GLib's worker thread, so not all of them need to be.
Dispatchable ==
    (IF term THEN {"term"} ELSE {})
    \cup {p \in watch : Ended(p)}
    \cup (IF timer = "armed" THEN {"timer"} ELSE {})

Iterate ==
    /\ pc = "loop" /\ ~quit /\ ready = {}
    /\ \E sources \in SUBSET Dispatchable \ {{}} : ready' = sources
    /\ UNCHANGED <<fixedVars, pc, procVars, envVars, term, cancelled, quit, cause,
                   timer, registered, sessionStatus, exitStatus>>

Quit(source) ==
    /\ quit' = TRUE
    /\ cause' = IF quit THEN cause ELSE source

\* Mutant of OnSigterm: the loop quits without the cancellable being cancelled.
OnSigtermQuits ==
    /\ pc = "loop" /\ "term" \in ready
    /\ ready' = ready \ {"term"}
    /\ term' = FALSE
    /\ Quit("term")
    /\ UNCHANGED <<fixedVars, pc, procVars, envVars, cancelled, timer, registered,
                   sessionStatus, exitStatus>>

\* Mutant of OnSigterm: the cancellable is cancelled but the loop goes on.
OnSigtermCancels ==
    /\ pc = "loop" /\ "term" \in ready
    /\ ready' = ready \ {"term"}
    /\ term' = FALSE
    /\ cancelled' = TRUE
    /\ UNCHANGED <<fixedVars, pc, procVars, envVars, quit, cause, timer, registered,
                   sessionStatus, exitStatus>>

OnSigterm ==
    /\ pc = "loop" /\ "term" \in ready
    /\ ready' = ready \ {"term"}
    /\ term' = FALSE
    /\ cancelled' = TRUE
    /\ Quit("term")
    /\ UNCHANGED <<fixedVars, pc, procVars, envVars, timer, registered, sessionStatus,
                   exitStatus>>

\* A wait ends: with a cancelled cancellable its result is an error, whatever
\* happened, and the part stays tracked.
Finished(p) ==
    /\ pc = "loop" /\ p \in ready
    /\ ready' = ready \ {p}
    /\ watch' = watch \ {p}
    /\ tracked' = IF cancelled THEN tracked ELSE tracked \ {p}
    /\ Quit(p)
    /\ UNCHANGED <<fixedVars, pc, proc, greeted, signalled, envVars, term, cancelled, timer,
                   registered, exitStatus>>

\* How the X server and the bus ended is only logged.
OnXServerFinished == Finished("x") /\ UNCHANGED sessionStatus
OnBusFinished == Finished("bus") /\ UNCHANGED sessionStatus

\* Only a session that has exited has an exit status.
OnSessionFinished ==
    /\ Finished("session")
    /\ sessionStatus' = IF ~cancelled /\ proc["session"] = "exited" THEN "session"
                        ELSE sessionStatus

\* Mutant of RegisterDisplayTimeout: the call is made without the cancellable.
RegisterDisplayUncancelled ==
    /\ pc = "loop" /\ "timer" \in ready
    /\ ready' = ready \ {"timer"}
    /\ timer' = "fired"
    /\ registered' \in {registered, Append(registered, "display")}
    /\ UNCHANGED <<fixedVars, pc, procVars, envVars, term, cancelled, quit, cause,
                   sessionStatus, exitStatus>>

\* register_display_timeout_cb: a cancelled cancellable fails the call before it is
\* sent.  register_display_id is left as it is although the source is gone.
RegisterDisplayTimeout ==
    /\ pc = "loop" /\ "timer" \in ready
    /\ ready' = ready \ {"timer"}
    /\ timer' = "fired"
    /\ \/ ~cancelled /\ registered' = Append(registered, "display")
       \/ UNCHANGED registered
    /\ UNCHANGED <<fixedVars, pc, procVars, envVars, term, cancelled, quit, cause,
                   sessionStatus, exitStatus>>

\* Only use exit status of session if we're here because it exit
LeaveLoop ==
    /\ pc = "loop" /\ quit /\ ready = {}
    /\ pc' = "signal"
    /\ exitStatus' = IF "session" \notin tracked /\ sessionStatus = "session"
                     THEN "session" ELSE exitStatus
    /\ UNCHANGED <<fixedVars, procVars, envVars, term, loopVars, registered>>

-----------------------------------------------------------------------------
\* g_subprocess_send_signal does nothing to a process that has ended.
SignalSubprocesses ==
    /\ pc = "signal"
    /\ signalled' = signalled \cup {p \in tracked : proc[p] = "running"}
    /\ pc' = "wait"
    /\ UNCHANGED <<fixedVars, proc, tracked, greeted, watch, envVars, term, loopVars,
                   registered, exitStatus>>

\* Mutant of WaitOnSubprocesses: the bus is not waited for.
WaitOnXAndSession ==
    /\ pc = "wait"
    /\ \A p \in tracked \ {"bus"} : Ended(p)
    /\ pc' = "clear"
    /\ UNCHANGED <<fixedVars, procVars, envVars, term, loopVars, registered, exitStatus>>

\* The waits for the X server, the bus and the session, one after the other.
WaitOnSubprocesses ==
    /\ pc = "wait"
    /\ \A p \in tracked : Ended(p)
    /\ pc' = "clear"
    /\ UNCHANGED <<fixedVars, procVars, envVars, term, loopVars, registered, exitStatus>>

\* clear_state, and the end of main; bus_subprocess is not cleared.
ClearState ==
    /\ pc = "clear"
    /\ pc' = "exited"
    /\ tracked' = tracked \cap {"bus"}
    /\ timer' = IF timer = "none" THEN "none" ELSE "removed"
    /\ UNCHANGED <<fixedVars, proc, greeted, watch, signalled, envVars, term, cancelled,
                   quit, cause, ready, sessionStatus, registered, exitStatus>>

-----------------------------------------------------------------------------
\* A process ends by itself, is killed, or obeys SIGTERM (external).  How the X server
\* or the bus ended is only logged.
Ends(p) ==
    /\ proc[p] = "running"
    /\ \/ proc' = [proc EXCEPT ![p] = "exited"]
       \/ p = "session" /\ proc' = [proc EXCEPT ![p] = "killed"]
    /\ UNCHANGED <<fixedVars, pc, tracked, greeted, watch, signalled, envVars, term,
                   loopVars, registered, exitStatus>>

\* SIGTERM comes: from the worker, or from GDBus when a bus closes its
\* connection (external).
SigtermArrives ==
    /\ pc \notin {"start", "exited"}
    /\ ~term
    /\ term' = TRUE
    /\ UNCHANGED <<fixedVars, pc, procVars, envVars, loopVars, registered, exitStatus>>

StartUp ==
    \/ Main \/ SpawnXServer \/ ReadDisplay \/ SpawnBus \/ ReadAddress
    \/ ConnectBus
    \/ ImportEnvironment \/ UpdateBusEnvironment \/ ConnectToDisplayManager
    \/ SpawnSession \/ RegisterSession

MainLoop ==
    \/ Iterate \/ OnSigterm \/ RegisterDisplayTimeout \/ LeaveLoop
    \/ OnXServerFinished \/ OnBusFinished \/ OnSessionFinished

Out == SignalSubprocesses \/ WaitOnSubprocesses \/ ClearState

Next ==
    \/ StartUp \/ MainLoop \/ Out
    \/ SigtermArrives
    \/ \E p \in Parts : Ends(p)

\* The synchronous calls of the start-up return, the main loop runs, and a process
\* that was sent SIGTERM ends.
Fairness ==
    /\ WF_vars(StartUp) /\ WF_vars(MainLoop) /\ WF_vars(Out)
    /\ \A p \in Parts : WF_vars(p \in signalled /\ Ends(p))

Spec == Init /\ [][Next]_vars /\ Fairness

-----------------------------------------------------------------------------
\* Every variable has its type.
TypeOK ==
    /\ kind \in Kinds /\ handles \in BOOLEAN /\ own \subseteq Vars
    /\ pc \in {"start", "spawn_x", "read_x", "spawn_bus", "read_bus", "connect_bus", "import",
               "update_env", "connect_dm", "spawn_session", "register", "loop", "signal",
               "wait", "clear", "exited"}
    /\ proc \in [Parts -> {"none", "running", "exited", "killed"}]
    /\ tracked \subseteq Parts /\ greeted \subseteq Parts /\ watch \subseteq Parts
    /\ signalled \subseteq Parts
    /\ imported \in [given : BOOLEAN, names : SUBSET Vars]
    /\ sessionEnv \in [Vars -> {"unset", "own", "imported", "launcher"}]
    /\ term \in BOOLEAN /\ cancelled \in BOOLEAN /\ quit \in BOOLEAN
    /\ cause \in {"none", "term"} \cup Parts
    /\ ready \subseteq Parts \cup {"term", "timer"}
    /\ timer \in {"none", "armed", "fired", "removed"}
    /\ registered \in {<<>>, <<"session">>, <<"session", "display">>}
    /\ sessionStatus \in {"zero", "session"}
    /\ exitStatus \in {"ok", "usage", "dataerr", "software", "session"}

\* When the launcher is gone, so is every part of the session, whichever way it went down:
\* a failed start, SIGTERM, or the end of another part.  All that can be left is an X server
\* or a bus whose first line could not be read: state->..._subprocess is set after the read.
\* Then no session was started, and the exit status is EX_SOFTWARE.
NoOrphans ==
    pc = "exited" => \A p \in Parts : proc[p] = "running" =>
        /\ p \in {"x", "bus"} \ greeted
        /\ "session" \notin greeted /\ exitStatus = "software"

\* The launcher ends with the exit status of the session if the end of the session
\* made it quit, and never if SIGTERM did, even when the session ended at that moment.
StatusFollowsCause ==
    pc = "exited" =>
        /\ cause = "session" /\ proc["session"] = "exited" => exitStatus = "session"
        /\ cause = "term" => exitStatus = "ok"

\* The comment in spawn_session: session variables of earlier sessions do not leak
\* through, the launcher's own values are preferred, except for fallback variables.  The
\* session finds the X server and the bus the launcher has started, not those of an
\* earlier session.
NoStaleVariables ==
    "session" \in greeted =>
        /\ \A v \in SessionVars : sessionEnv[v] # "imported"
        /\ \A v \in own \ Fallback : sessionEnv[v] \in {"own", "launcher"}
        /\ imported.given => \A v \in Fallback \cap imported.names : sessionEnv[v] = "imported"
        /\ \A v \in LauncherVars : sessionEnv[v] = "launcher"

\* The display is registered once, after the session, and not once SIGTERM has been
\* dispatched: the display manager is not told of a display that is being taken down.
DisplayRegisteredInTime ==
    [][registered' # registered =>
         \/ registered' = <<"session">>
         \/ registered = <<"session">> /\ registered' = <<"session", "display">>
            /\ cause # "term"]_vars

\* SIGTERM during start-up or later, or the end of a part, ends the launcher.
LauncherEnds ==
    (term \/ \E p \in tracked : Ended(p)) ~> pc = "exited"
====
