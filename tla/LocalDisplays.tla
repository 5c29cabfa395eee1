---------------------------- MODULE LocalDisplays ----------------------------
(***************************************************************************)
(* The local displays of the daemon: their status (daemon/gdm-display.c),  *)
(* the factory that keeps a login screen on every seat                     *)
(* (daemon/gdm-local-display-factory.c, gdm-display-factory.c), the store  *)
(* (gdm-display-store.c), and what the manager does when the status of a   *)
(* display changes (gdm-manager.c).                                        *)
(*                                                                         *)
(* A change of status is notified synchronously: the manager's handler and *)
(* then the factory's run inside the call that changes it, and may change  *)
(* the status of this and of other displays again.  The variable calls is  *)
(* the stack of the calls that are still to be made before the main loop   *)
(* goes on; while it is not empty nothing else happens.                    *)
(*                                                                         *)
(* A display that leaves the store is disposed; its place is free again.   *)
(***************************************************************************)
EXTENDS Integers, Sequences, FiniteSets, SequencesExt

CONSTANTS
    Seats,                  \* the seats there may be, "seat0" among them
    MaxDisplays,            \* bound: displays in the store
    MaxVt,                  \* bound: virtual terminals
    MAX_DISPLAY_FAILURES,   \* 5 in the code
    AutoLogin,              \* TRUE: automatic login is configured
    InitialSetup,           \* TRUE: the system starts without users
    UidMayFail              \* TRUE: the greeter may get no dynamic user

ASSUME LocalDisplaysAssumptions ==
    /\ "seat0" \in Seats /\ IsFiniteSet(Seats)
    /\ MaxDisplays \in Nat /\ MaxVt \in Nat \ {0}
    /\ MAX_DISPLAY_FAILURES \in Nat
    /\ {AutoLogin, InitialSetup, UidMayFail} \subseteq BOOLEAN

Displays == 1..MaxDisplays
NoDisplay == 0
GDM_INITIAL_VT == 1
VTs == 1..MaxVt
NoVt == 0

VARIABLES
    displays,       \* the display in every place of the store
    calls,          \* the calls to be made before the main loop goes on
    idles,          \* the order of the idle sources: <<i, j>> if i was added no later than j
    numFailures,    \* num_failures (not counted beyond the limit)
    activeVt,       \* active_vt, NoVt before the first event
    vt,             \* the VT the kernel shows
    graphicsTimer,  \* seat0_graphics_check_timeout_id is armed
    uevents,        \* uevent_handler_id is connected
    settled,        \* a primary GPU was found, or waiting for it timed out
    waitTimer,      \* wait_to_finish_timeout_id is armed
    seats,          \* seats[s]: "absent", "text" (not CanGraphical) or "graphical"
    automatic,      \* automatic_login_display
    didAutomatic,   \* did_automatic_login
    setupPending    \* gnome-initial-setup is still wanted

factoryVars == <<numFailures, activeVt, vt, graphicsTimer, uevents, settled, waitTimer, seats>>
managerVars == <<automatic, didAutomatic, setupPending>>
vars == <<displays, calls, idles, factoryVars, managerVars>>

\* An idle source is the purge of the store, or the display whose finish is queued.
Purge == 0
IdleSources == {Purge} \union Displays

Free == [status |-> "free", class |-> "greeter", seat |-> "seat0", vt |-> NoVt,
         session |-> "none", registered |-> 0, setup |-> FALSE]

\* The session of a display: "lookup" and "automatic" while automatic login goes on,
\* "starting" (no logind session yet), "open" (opened, not started), "running",
\* "exiting" (exited, its worker still there), "lost" (it ended before it was started,
\* of which nobody is told), "nouser" (the greeter got no user), "none".
SessionStates == {"none", "lookup", "automatic", "starting", "open", "running", "exiting", "lost",
                  "nouser"}
Statuses == {"free", "unmanaged", "prepared", "managed", "waiting", "finished", "failed"}

DisplayRecords ==
    [status : Statuses, class : {"greeter", "user"}, seat : Seats, vt : {NoVt} \union VTs,
     session : SessionStates, registered : 0..2, setup : BOOLEAN]

Call(fn, d, arg) == [fn |-> fn, d |-> d, arg |-> arg]
Ensure(seat) == Call("ensure_display_for_seat", NoDisplay, seat)
SetStatus(d, status) == Call("set_status", d, status)
Unmanage(d) == Call("unmanage", d, "")
Finish(d) == Call("finish", d, "")
FinishUnlessFailed(d) == Call("finish_unless_failed", d, "")
QueueFinish(d) == Call("queue_finish", d, "")
ToManager(d) == Call("manager", d, "")
ToFactory(d) == Call("factory", d, "")
FinishWaiting == Call("finish_waiting", NoDisplay, "")
SetUpGreeter(d) == Call("set_up_greeter", d, "")

CallNames == {"ensure_display_for_seat", "set_status", "unmanage", "finish", "finish_unless_failed",
              "queue_finish", "manager", "factory", "finish_waiting", "set_up_greeter"}
CallRecords ==
    [fn : CallNames, d : {NoDisplay} \union Displays, arg : Seats \union Statuses \union {""}]

\* gdm_manager_start: the factory synchronizes its seats.
Init ==
    /\ displays = [d \in Displays |-> Free]
    /\ seats \in [Seats -> {"absent", "graphical"}] /\ seats["seat0"] = "graphical"
    /\ calls = SetToSeq({Ensure(s) : s \in {t \in Seats : seats[t] # "absent"}})
    /\ idles = {} /\ numFailures = 0
    /\ activeVt = NoVt /\ vt = GDM_INITIAL_VT
    /\ graphicsTimer = FALSE /\ uevents = TRUE /\ waitTimer = FALSE
    /\ settled \in BOOLEAN
    /\ automatic = NoDisplay /\ didAutomatic = FALSE
    /\ setupPending = InitialSetup

-----------------------------------------------------------------------------
(* The calls.                                                              *)

Calling(fn) == calls # <<>> /\ Head(calls).fn = fn
This == Head(calls).d
Arg == Head(calls).arg

\* The call is done, and the ones in next are made before the rest.
Return(next) == calls' = next \o Tail(calls)

\* g_idle_add, g_source_remove, and the source the main loop dispatches first.
Queued(i) == <<i, i>> \in idles
QueuedIdles == {i \in IdleSources : Queued(i)}
AddIdle(i) == IF Queued(i) THEN idles ELSE idles \union {<<j, i>> : j \in QueuedIdles \union {i}}
RemoveIdles(gone) == {p \in idles : p[1] \notin gone /\ p[2] \notin gone}
FirstIdle(i) == Queued(i) /\ \A j \in QueuedIdles : <<i, j>> \in idles

FreePlaces == {d \in Displays : displays[d].status = "free"}
FirstFree(d) == d \in FreePlaces /\ \A e \in FreePlaces : d <= e

\* Bound: events come from outside while the store has a place for every display that
\* what is queued may add.
Room == Cardinality(FreePlaces) > Cardinality(QueuedIdles)

\* The sessions gdm_get_login_window_session_id may find on the seat.
LoginWindows(seat) ==
    {d \in Displays : /\ displays[d].status # "free" /\ displays[d].class = "greeter"
                      /\ displays[d].seat = seat /\ displays[d].session \in {"open", "running"}}

\* _gdm_display_set_status: both handlers are called if the status changes.
ChangeStatus(d, status) ==
    IF displays[d].status = status
    THEN Return(<<>>) /\ UNCHANGED displays
    ELSE /\ displays' = [displays EXCEPT ![d].status = status]
         /\ Return(<<ToManager(d), ToFactory(d)>>)

\* gdm_display_prepare of a new display, and g_object_set of "status", which notifies
\* (once) even if the value is the same: the property is not G_PARAM_EXPLICIT_NOTIFY.
DoSetStatus ==
    /\ Calling("set_status")
    /\ displays' = [displays EXCEPT ![This].status = Arg]
    /\ Return(<<ToManager(This), ToFactory(This)>>)
    /\ UNCHANGED <<idles, factoryVars, managerVars>>

DoUnmanage ==
    /\ Calling("unmanage")
    /\ ChangeStatus(This, IF displays[This].registered = 2 THEN "unmanaged" ELSE "failed")
    /\ UNCHANGED <<idles, factoryVars, managerVars>>

\* gdm_display_finish
DoFinish ==
    /\ Calling("finish")
    /\ idles' = RemoveIdles({This})
    /\ ChangeStatus(This, "finished")
    /\ UNCHANGED <<factoryVars, managerVars>>

\* The end of remove_user_session.
DoFinishUnlessFailed ==
    /\ Calling("finish_unless_failed")
    /\ Return(IF displays[This].status = "failed" THEN <<>> ELSE <<Finish(This)>>)
    /\ UNCHANGED <<displays, idles, factoryVars, managerVars>>

\* The end of self_destruct.
DoQueueFinish ==
    /\ Calling("queue_finish")
    /\ idles' = IF displays[This].status = "finished" THEN idles ELSE AddIdle(This)
    /\ Return(<<>>)
    /\ UNCHANGED <<displays, factoryVars, managerVars>>

\* finish_waiting_displays_on_seat goes through the store in the order of its table.
DoFinishWaiting ==
    LET waiting == {d \in Displays : displays[d].status = "waiting"}
    IN  /\ Calling("finish_waiting")
        /\ IF waiting = {}
           THEN Return(<<>>) /\ UNCHANGED displays
           ELSE \E d \in waiting :
                  /\ displays' = [displays EXCEPT ![d].session = "none"]
                  /\ Return(<<Unmanage(d), Finish(d), FinishWaiting>>)
        /\ UNCHANGED <<idles, factoryVars, managerVars>>

-----------------------------------------------------------------------------
(* The manager's handler.                                                  *)

AutomaticLoginWanted(d) ==
    /\ AutoLogin /\ displays[d].seat = "seat0"
    /\ ~didAutomatic /\ automatic = NoDisplay

\* set_up_session for a prepared login screen: automatic login (at once, or when the
\* user is known to exist), or a greeter.  A display that is done drops its session.
ManagerHandler ==
    /\ Calling("manager")
    /\ LET d == This
           status == displays[d].status
       IN  \/ /\ status = "prepared" /\ displays[d].class = "greeter"
              /\ \/ /\ AutomaticLoginWanted(d)
                    /\ \E session \in {"lookup", "automatic"} :
                          displays' = [displays EXCEPT ![d].session = session]
                    /\ Return(<<>>)
                 \/ Return(<<SetUpGreeter(d)>>) /\ UNCHANGED displays
              /\ UNCHANGED <<automatic, didAutomatic>>
           \/ /\ status \in {"failed", "unmanaged", "finished"}
              /\ automatic' = IF d = automatic THEN NoDisplay ELSE automatic
              /\ didAutomatic' = (didAutomatic \/ d = automatic)
              /\ Return(<<>>)
              /\ UNCHANGED displays
           \/ /\ \/ status \in {"managed", "waiting"}
                 \/ status = "prepared" /\ displays[d].class # "greeter"
              /\ Return(<<>>)
              /\ UNCHANGED <<displays, automatic, didAutomatic>>
    /\ UNCHANGED <<idles, factoryVars, setupPending>>

\* Bound: a greeter fails while the store has a place for the displays that replace it and
\* for what is queued and called.
RoomForFailure ==
    Cardinality(FreePlaces)
      > Cardinality(QueuedIdles)
        + Cardinality({i \in 1..Len(calls) : calls[i].fn = "ensure_display_for_seat"})

\* Without a user for the greeter the display fails and is finished at once.  A property is
\* not notified within its own notification (G_SIGNAL_NO_RECURSE): that is started anew
\* instead.  So while the manager is being told that the display is prepared, the two
\* changes are told as one, and nobody is told that it failed.
GreeterHasNoUser ==
    /\ UidMayFail /\ RoomForFailure
    /\ IF Tail(calls) = <<>>
       THEN /\ displays' = [displays EXCEPT ![This].session = "nouser"]
            /\ Return(<<Unmanage(This), Finish(This)>>)
            /\ UNCHANGED idles
       ELSE /\ displays' = [displays EXCEPT ![This].session = "nouser", ![This].status = "finished"]
            /\ Return(<<ToManager(This)>>)
            /\ idles' = RemoveIdles({This})

\* set_up_greeter_session: the launch environment is started.
DoSetUpGreeter ==
    /\ Calling("set_up_greeter")
    /\ \/ GreeterHasNoUser
       \/ /\ displays' = [displays EXCEPT ![This].session = "starting"]
          /\ Return(<<>>)
          /\ UNCHANGED idles
    /\ UNCHANGED <<factoryVars, managerVars>>

-----------------------------------------------------------------------------
(* The factory's handler.                                                  *)

\* gdm_display_factory_queue_purge_displays
QueuePurge == AddIdle(Purge)

\* Of d's seat no session is active, or d's own is: for the VT the kernel shows,
\* logind may know a text login, of which the daemon knows nothing.
ActiveSessionAllows(d) ==
    IF displays[d].vt = vt THEN {TRUE}
    ELSE IF \E e \in Displays : displays[e].vt = vt /\ displays[e].session \in {"open", "running"}
    THEN {FALSE} ELSE BOOLEAN

\* Mutant of FactoryFinished: login screens are only replaced on other seats.
FactoryFinishedUser(d) ==
    /\ displays[d].status = "finished"
    /\ idles' = QueuePurge
    /\ \E allowed \in ActiveSessionAllows(d) :
         IF (displays[d].class # "greeter" /\ allowed) \/ displays[d].seat # "seat0"
         THEN numFailures' = 0 /\ Return(<<Ensure(displays[d].seat)>>)
         ELSE Return(<<>>) /\ UNCHANGED numFailures

\* A finished display is purged, and replaced where a login screen is needed.
FactoryFinished(d) ==
    /\ displays[d].status = "finished"
    /\ idles' = QueuePurge
    /\ \E allowed \in ActiveSessionAllows(d) :
         IF \/ displays[d].class # "greeter" /\ allowed
            \/ activeVt = GDM_INITIAL_VT
            \/ displays[d].seat # "seat0"
         THEN numFailures' = 0 /\ Return(<<Ensure(displays[d].seat)>>)
         ELSE Return(<<>>) /\ UNCHANGED numFailures

\* A failed display is purged and replaced, unless too many have failed.
FactoryFailed(d) ==
    /\ displays[d].status = "failed"
    /\ idles' = QueuePurge
    /\ numFailures' = IF numFailures > MAX_DISPLAY_FAILURES THEN numFailures ELSE numFailures + 1
    /\ Return(IF numFailures' > MAX_DISPLAY_FAILURES THEN <<>> ELSE <<Ensure(displays[d].seat)>>)

\* on_display_status_changed of the factory, by the status it finds.
FactoryHandler ==
    /\ Calling("factory")
    /\ \/ FactoryFinished(This)
       \/ FactoryFailed(This)
       \/ /\ displays[This].status \notin {"finished", "failed"}
          /\ Return(IF displays[This].status = "managed" THEN <<FinishWaiting>> ELSE <<>>)
          /\ UNCHANGED <<idles, numFailures>>
    /\ UNCHANGED <<displays, activeVt, vt, graphicsTimer, uevents, settled, waitTimer, seats,
                   managerVars>>

-----------------------------------------------------------------------------
(* ensure_display_for_seat                                                 *)

\* get_display_for_seat: a display that is being prepared on seat0, or one that is
\* managed on another seat.
DisplayForSeat(seat) ==
    {d \in Displays : /\ displays[d].seat = seat
                      /\ displays[d].status = IF seat = "seat0" THEN "prepared" ELSE "managed"}

LoginScreen(seat) ==
    [Free EXCEPT !.status = "unmanaged", !.seat = seat, !.setup = setupPending,
                 !.vt = IF seat = "seat0" THEN GDM_INITIAL_VT ELSE NoVt]

\* A login window that is managed or waiting is (again) managed, and activated.
SwitchToLoginWindow(seat, w) ==
    /\ displays[w].status \in {"managed", "waiting"}
    /\ Return(<<SetStatus(w, "managed")>>)
    /\ vt' \in (IF seat = "seat0" THEN {vt, GDM_INITIAL_VT} ELSE {vt})
    /\ UNCHANGED <<displays, graphicsTimer, uevents>>

\* udev has not settled: seat0 waits for a primary GPU.
WaitForGraphics(seat) ==
    /\ ~settled
    /\ graphicsTimer' = (graphicsTimer \/ seat = "seat0")
    /\ Return(<<>>)
    /\ UNCHANGED <<displays, vt, uevents>>

\* Mutant of AddLoginScreen: a display that is being prepared does not count.
AddLoginScreenAgain(seat) ==
    /\ settled
    /\ graphicsTimer' = FALSE /\ uevents' = FALSE
    /\ IF seats[seat] = "graphical"
       THEN \E d \in Displays :
              /\ FirstFree(d)
              /\ displays' = [displays EXCEPT ![d] = LoginScreen(seat)]
              /\ Return(<<SetStatus(d, "prepared")>>)
       ELSE Return(<<>>) /\ UNCHANGED displays
    /\ UNCHANGED vt

\* A login screen is added if the seat can have one and has none.
AddLoginScreen(seat) ==
    /\ settled
    /\ graphicsTimer' = FALSE /\ uevents' = FALSE
    /\ IF seats[seat] = "graphical" /\ DisplayForSeat(seat) = {}
       THEN \E d \in Displays :
              /\ FirstFree(d)
              /\ displays' = [displays EXCEPT ![d] = LoginScreen(seat)]
              /\ Return(<<SetStatus(d, "prepared")>>)
       ELSE Return(<<>>) /\ UNCHANGED displays
    /\ UNCHANGED vt

\* The login window logind lists first is looked at, the others are not.
EnsureDisplayForSeat ==
    /\ Calling("ensure_display_for_seat")
    /\ \/ \E w \in LoginWindows(Arg) : SwitchToLoginWindow(Arg, w)
       \/ /\ \/ LoginWindows(Arg) = {}
             \/ \E w \in LoginWindows(Arg) : displays[w].status \notin {"managed", "waiting"}
          /\ WaitForGraphics(Arg) \/ AddLoginScreen(Arg)
    /\ UNCHANGED <<idles, numFailures, activeVt, settled, waitTimer, seats, managerVars>>

-----------------------------------------------------------------------------
(* What the main loop dispatches.                                          *)

\* The main loop goes on, and what it dispatches makes the calls in next first.
Dispatch(next) == calls = <<>> /\ calls' = next

\* Idle sources run in the order they were added.  A purge takes what is finished or
\* failed from the store; disposing a display removes the idle that would finish it.
RunPurge ==
    /\ Dispatch(<<>>)
    /\ FirstIdle(Purge)
    /\ LET done == {d \in Displays : displays[d].status \in {"finished", "failed"}}
       IN  /\ displays' = [d \in Displays |-> IF d \in done THEN Free ELSE displays[d]]
           /\ idles' = RemoveIdles(done \union {Purge})
           /\ automatic' = IF automatic \in done THEN NoDisplay ELSE automatic
    /\ UNCHANGED <<factoryVars, didAutomatic, setupPending>>

\* finish_idle
RunFinish ==
    /\ \E d \in Displays :
         /\ FirstIdle(d)
         /\ Dispatch(<<Finish(d)>>)
         /\ idles' = RemoveIdles({d})
    /\ UNCHANGED <<displays, factoryVars, managerVars>>

OnSeat0GraphicsCheckTimeout ==
    /\ Dispatch(<<Ensure("seat0")>>)
    /\ graphicsTimer
    /\ graphicsTimer' = FALSE /\ settled' = TRUE
    /\ UNCHANGED <<displays, idles, numFailures, activeVt, vt, uevents, waitTimer, seats, managerVars>>

\* udev announces a primary GPU.
OnUevent ==
    /\ Room
    /\ Dispatch(<<Ensure("seat0")>>)
    /\ uevents
    /\ settled' = TRUE /\ uevents' = FALSE
    /\ UNCHANGED <<displays, idles, numFailures, activeVt, vt, graphicsTimer, waitTimer, seats,
                   managerVars>>

OnFinishWaitingTimeout ==
    /\ Dispatch(<<FinishWaiting>>)
    /\ waitTimer
    /\ waitTimer' = FALSE
    /\ UNCHANGED <<displays, idles, numFailures, activeVt, vt, graphicsTimer, uevents, settled,
                   seats, managerVars>>

\* The user, a session or a worker switches the VT.
VtSwitch ==
    /\ Room
    /\ Dispatch(<<>>)
    /\ vt' \in VTs \ {vt}
    /\ UNCHANGED <<displays, idles, numFailures, activeVt, graphicsTimer, uevents, settled,
                   waitTimer, seats, managerVars>>

\* maybe_stop_greeter_in_background
MayWait(d) == displays[d].status = "managed" /\ ~displays[d].setup

RegisteredOn(v) ==
    \E d \in Displays : /\ displays[d].vt = v /\ displays[d].registered = 2
                        /\ displays[d].session \in {"open", "running"}

\* Mutant of VtHandler: coming back to the initial VT does nothing.
VtHandlerNoReturn(w) ==
    LET left == w # NoDisplay /\ activeVt = GDM_INITIAL_VT
        elsewhere == vt # (IF w = NoDisplay THEN NoVt ELSE GDM_INITIAL_VT)
    IN  /\ Dispatch(IF left /\ MayWait(w) THEN <<SetStatus(w, "waiting")>> ELSE <<>>)
        /\ graphicsTimer' = (graphicsTimer /\ ~elsewhere)
        /\ waitTimer' = (waitTimer \/ (elsewhere /\ RegisteredOn(vt)))

\* on_vt_changed past its first event, w being the login window logind names: the login
\* screen of the VT that was left waits to be finished, which a timer does once the VT
\* of a registered session is reached; the initial VT gets a login screen.
VtHandler(w) ==
    LET left == w # NoDisplay /\ activeVt = GDM_INITIAL_VT
        elsewhere == vt # (IF w = NoDisplay THEN NoVt ELSE GDM_INITIAL_VT)
    IN  /\ Dispatch((IF left /\ MayWait(w) THEN <<SetStatus(w, "waiting")>> ELSE <<>>)
                    \o (IF vt = GDM_INITIAL_VT THEN <<Ensure("seat0")>> ELSE <<>>))
        /\ graphicsTimer' = (graphicsTimer /\ ~elsewhere)
        /\ waitTimer' = (waitTimer \/ (elsewhere /\ RegisteredOn(vt)))

OnVtChanged ==
    /\ calls = <<>>
    /\ vt # activeVt
    /\ activeVt' = vt
    /\ IF activeVt = NoVt
       THEN UNCHANGED <<calls, graphicsTimer, waitTimer>>
       ELSE \/ \E w \in LoginWindows("seat0") : VtHandler(w)
            \/ LoginWindows("seat0") = {} /\ VtHandler(NoDisplay)
    /\ UNCHANGED <<displays, idles, numFailures, vt, uevents, settled, seats, managerVars>>

\* SeatNew and SecureAttentionKey (on_seat_activate_greeter)
OnSeatActivateGreeter(seat) ==
    /\ Room
    /\ Dispatch(<<Ensure(seat)>>)
    /\ seats' \in {[seats EXCEPT ![seat] = s] :
                      s \in IF seats[seat] = "absent" THEN {"text", "graphical"} ELSE {seats[seat]}}
    /\ UNCHANGED <<displays, idles, numFailures, activeVt, vt, graphicsTimer, uevents, settled,
                   waitTimer, managerVars>>

\* Mutant of Deleted: only displays that are in use are taken.
DeletedIfManaged(seat) ==
    LET gone == {d \in Displays : displays[d].seat = seat /\ displays[d].status = "managed"}
    IN  /\ displays' = [d \in Displays |-> IF d \in gone THEN Free ELSE displays[d]]
        /\ idles' = RemoveIdles(gone)
        /\ automatic' = IF automatic \in gone THEN NoDisplay ELSE automatic

\* delete_display: every display of the seat leaves the store, whatever its status.
Deleted(seat) ==
    LET gone == {d \in Displays : displays[d].seat = seat}
    IN  /\ displays' = [d \in Displays |-> IF d \in gone THEN Free ELSE displays[d]]
        /\ idles' = RemoveIdles(gone)
        /\ automatic' = IF automatic \in gone THEN NoDisplay ELSE automatic

OnSeatRemoved(seat) ==
    /\ Dispatch(<<>>)
    /\ seat # "seat0" /\ seats[seat] # "absent"
    /\ seats' = [seats EXCEPT ![seat] = "absent"]
    /\ Deleted(seat)
    /\ UNCHANGED <<numFailures, activeVt, vt, graphicsTimer, uevents, settled, waitTimer,
                   didAutomatic, setupPending>>

\* on_seat_properties_changed: CanGraphical is now true, or no longer.
OnSeatPropertiesChanged(seat) ==
    /\ Room
    /\ \/ /\ seats[seat] = "text"
          /\ seats' = [seats EXCEPT ![seat] = "graphical"]
          /\ Dispatch(<<Ensure(seat)>>)
          /\ UNCHANGED <<displays, idles, automatic>>
       \/ /\ seats[seat] = "graphical"
          /\ seats' = [seats EXCEPT ![seat] = "text"]
          /\ Dispatch(<<>>)
          /\ Deleted(seat)
    /\ UNCHANGED <<numFailures, activeVt, vt, graphicsTimer, uevents, settled, waitTimer,
                   didAutomatic, setupPending>>

\* CreateTransientDisplay: whatever there is on seat0.
CreateTransientDisplay ==
    /\ Cardinality(FreePlaces) > Cardinality(QueuedIdles) + 1
    /\ \E d \in Displays :
        /\ FirstFree(d)
        /\ Dispatch(<<SetStatus(d, "prepared")>>)
        /\ displays' = [displays EXCEPT ![d] = LoginScreen("seat0")]
        /\ UNCHANGED <<idles, factoryVars, managerVars>>

-----------------------------------------------------------------------------
(* Sessions of the displays.                                               *)

Steps(d, from, to) ==
    /\ displays[d].session = from
    /\ displays' = [displays EXCEPT ![d].session = to]

\* on_user_is_loaded_changed: the user exists, or a greeter is set up after all.
UserIsLoaded(d) ==
    /\ \/ Steps(d, "lookup", "automatic") /\ Dispatch(<<>>)
       \/ Steps(d, "lookup", "none") /\ Dispatch(<<SetUpGreeter(d)>>)
    /\ UNCHANGED <<idles, factoryVars, managerVars>>

\* The greeter's session is opened, and started.
GreeterProceeds(d) ==
    /\ Dispatch(<<>>)
    /\ Steps(d, "starting", "open") \/ Steps(d, "open", "running")
    /\ UNCHANGED <<idles, factoryVars, managerVars>>

\* The conversation of a greeter ends before its program runs, or that of an automatic
\* login before it is opened: on_conversation_stopped tells nobody.
SessionLost(d) ==
    /\ Dispatch(<<>>)
    /\ \E from \in {"starting", "open", "automatic"} : Steps(d, from, "lost")
    /\ UNCHANGED <<idles, factoryVars, managerVars>>

\* RegisterDisplay, then RegisterSession, of the display server of a session.
RegisterDisplay(d) ==
    /\ displays[d].session = "running" /\ displays[d].registered = 0
    /\ displays' = [displays EXCEPT ![d].registered = 1]
    /\ Dispatch(<<SetStatus(d, "managed")>>)
    /\ UNCHANGED <<idles, factoryVars, managerVars>>

RegisterSession(d) ==
    /\ Dispatch(<<>>)
    /\ displays[d].session = "running" /\ displays[d].registered = 1
    /\ displays' = [displays EXCEPT ![d].registered = 2]
    /\ UNCHANGED <<idles, factoryVars, managerVars>>

\* Mutant of GreeterEnds: the display is finished at once.
GreeterEndsAtOnce(d) ==
    /\ Room
    /\ displays[d].class = "greeter"
    /\ Steps(d, "running", "exiting") \/ Steps(d, "exiting", "none")
    /\ Dispatch(<<Unmanage(d), Finish(d)>>)
    /\ UNCHANGED <<idles, factoryVars, managerVars>>

\* The greeter exits or dies, then the worker that ran it: self_destruct each time.
GreeterEnds(d) ==
    /\ Room
    /\ displays[d].class = "greeter"
    /\ Steps(d, "running", "exiting") \/ Steps(d, "exiting", "none")
    /\ Dispatch(<<Unmanage(d), QueueFinish(d)>>)
    /\ UNCHANGED <<idles, factoryVars, managerVars>>

UserDisplay(seat, v) ==
    [Free EXCEPT !.status = "unmanaged", !.class = "user", !.seat = seat, !.vt = v,
                 !.session = "running"]

\* on_start_user_session: the session opened on login screen d goes to a display of its
\* own.  Initial setup is over then.
StartUserSession(d) ==
    /\ Room
    /\ displays[d].class = "greeter" /\ displays[d].session = "running"
    /\ displays[d].registered = 2
    /\ displays[d].status \in {"managed", "waiting"}
    /\ \E u \in Displays, v \in (IF displays[d].seat = "seat0" THEN VTs \ {GDM_INITIAL_VT} ELSE {NoVt}) :
         /\ FirstFree(u)
         /\ \A e \in Displays : v # NoVt => displays[e].vt # v
         /\ displays' = [displays EXCEPT ![u] = UserDisplay(displays[d].seat, v)]
    /\ Dispatch(IF displays[d].setup THEN <<SetStatus(d, "waiting")>> ELSE <<>>)
    /\ setupPending' = (setupPending /\ ~displays[d].setup)
    /\ UNCHANGED <<idles, factoryVars, automatic, didAutomatic>>

\* The same for automatic login: the login screen that was prepared is not needed.
StartAutomaticSession(d) ==
    /\ Room
    /\ Dispatch(<<>>)
    /\ displays[d].session = "automatic"
    /\ \E u \in Displays, v \in VTs \ {GDM_INITIAL_VT} :
         /\ FirstFree(u)
         /\ \A e \in Displays : displays[e].vt # v
         /\ displays' = [displays EXCEPT ![u] = UserDisplay("seat0", v), ![d] = Free]
         /\ automatic' = u
    /\ setupPending' = (setupPending /\ ~displays[d].setup)
    /\ UNCHANGED <<idles, factoryVars, didAutomatic>>

\* remove_user_session: the session exits, dies, or could not be started.
UserSessionEnds(d) ==
    /\ Room
    /\ displays[d].class = "user"
    /\ Steps(d, "running", "none")
    /\ Dispatch(<<Unmanage(d), FinishUnlessFailed(d)>>)
    /\ UNCHANGED <<idles, factoryVars, managerVars>>

-----------------------------------------------------------------------------
MakeCall ==
    \/ DoSetStatus
    \/ DoUnmanage
    \/ DoFinish
    \/ DoFinishUnlessFailed
    \/ DoQueueFinish
    \/ DoFinishWaiting
    \/ ManagerHandler
    \/ DoSetUpGreeter
    \/ FactoryHandler
    \/ EnsureDisplayForSeat

MainLoop ==
    \/ RunPurge
    \/ RunFinish
    \/ OnSeat0GraphicsCheckTimeout
    \/ OnFinishWaitingTimeout
    \/ OnVtChanged

Environment ==
    \/ OnUevent
    \/ VtSwitch
    \/ CreateTransientDisplay
    \/ \E s \in Seats : \/ OnSeatActivateGreeter(s)
                        \/ OnSeatRemoved(s)
                        \/ OnSeatPropertiesChanged(s)

\* The first VT event is ready when the main loop starts, before any process of a
\* session can have got somewhere.
Session(d) ==
    /\ activeVt # NoVt
    /\ \/ UserIsLoaded(d)
       \/ GreeterProceeds(d)
       \/ SessionLost(d)
       \/ RegisterDisplay(d)
       \/ RegisterSession(d)
       \/ GreeterEnds(d)
       \/ StartUserSession(d)
       \/ StartAutomaticSession(d)
       \/ UserSessionEnds(d)

Next == MakeCall \/ MainLoop \/ Environment \/ \E d \in Displays : Session(d)

Spec == Init /\ [][Next]_vars

\* The greeter of a display is on its way.
GreeterComes(d) ==
    /\ displays[d].class = "greeter"
    /\ \/ displays[d].session \in {"lookup", "starting", "open"}
       \/ displays[d].session = "running" /\ displays[d].registered = 0

\* Handlers return, and what stays ready is dispatched, however often other events come
\* first: idles, timers and the VT; a greeter that does not end goes on.  Nothing is
\* assumed of users, seats and the hardware.
FairSpec ==
    /\ Spec
    /\ WF_vars(MakeCall)
    /\ []<>(idles = {}) \/ []<><<RunPurge \/ RunFinish>>_vars
    /\ []<>(~graphicsTimer) \/ []<><<OnSeat0GraphicsCheckTimeout>>_vars
    /\ []<>(~waitTimer) \/ []<><<OnFinishWaitingTimeout>>_vars
    /\ []<>(vt = activeVt) \/ []<><<OnVtChanged>>_vars
    /\ \A d \in Displays :
         \/ []<>(~GreeterComes(d))
         \/ []<><<UserIsLoaded(d) \/ GreeterProceeds(d) \/ RegisterDisplay(d)>>_vars

-----------------------------------------------------------------------------
(* Properties.                                                             *)

InStore(d) == d \in Displays /\ displays[d].status # "free"

\* The type of every variable; no call and no idle source is left for a display that was
\* disposed (its finish_idle would touch freed memory).
TypeOK ==
    /\ displays \in [Displays -> DisplayRecords]
    /\ calls \in Seq(CallRecords)
    /\ \A i \in 1..Len(calls) : calls[i].d = NoDisplay \/ InStore(calls[i].d)
    /\ idles \subseteq IdleSources \X IdleSources
    /\ \A d \in Displays : Queued(d) => InStore(d)
    /\ numFailures \in 0..(MAX_DISPLAY_FAILURES + 1)
    /\ activeVt \in VTs \union {NoVt} /\ vt \in VTs
    /\ {graphicsTimer, uevents, settled, waitTimer, didAutomatic, setupPending} \subseteq BOOLEAN
    /\ seats \in [Seats -> {"absent", "text", "graphical"}]
    /\ automatic = NoDisplay \/ InStore(automatic)

Seat0Greeters ==
    {d \in Displays : /\ displays[d].status # "free"
                      /\ displays[d].class = "greeter" /\ displays[d].seat = "seat0"}

\* A login screen of seat0 that is being prepared, or is shown.
IsLoginScreen(d) ==
    /\ d \in Seat0Greeters
    /\ displays[d].status \in {"prepared", "managed", "waiting"}

\* ensure_display_for_seat ("Ensure we don't create the same display more than once") adds
\* a login screen to seat0 only when there is none, neither in preparation nor shown,
\* although it looks for them in two places, logind and the store.
AddsOnlyIfNone ==
    [][Calling("ensure_display_for_seat") /\ Arg = "seat0"
       => \A d \in FreePlaces : displays'[d].status # "free" => ~\E e \in Displays : IsLoginScreen(e)]_vars

\* num_failures starts anew only for a display that was managed once, or whose greeter got
\* no user (which is finished in the call that fails it, so that its failure does not count):
\* any other display that cannot work would come back forever, and "maximum number of
\* display failures reached.  Giving up." would not be true.  A failed display must not be
\* reported as finished: the finish that self_destruct queues comes after the purge that
\* drops the display, and remove_user_session tests for it.
OnlySuccessOrNoUserResets ==
    [][numFailures' < numFailures
       => displays[This].registered > 0 \/ displays[This].session = "nouser"]_vars

\* The main loop never rests with the initial VT active and the one login screen of seat0
\* waiting to be finished: coming back to the VT makes it managed again before the timer
\* can kill it, unless the factory has given up.  (Initial setup is over when its user's
\* session starts, and its display waits.)  With seat0 alone: num_failures is one for all
\* seats, and another seat's display that finishes takes back that the factory gave up.
ActiveLoginScreenIsKept ==
    calls = <<>> /\ activeVt = GDM_INITIAL_VT /\ numFailures <= MAX_DISPLAY_FAILURES
    => \A d \in Displays : Seat0Greeters = {d} /\ ~displays[d].setup
                           => displays[d].status # "waiting"

\* When the main loop rests, no display is left on a seat that was removed or lost its
\* graphics, however many of its displays had been failed, finished or replaced before:
\* delete_display takes them all, and nothing adds one again.
NoDisplayOnDeadSeat ==
    calls = <<>>
    => \A d \in Displays : displays[d].status # "free" /\ displays[d].seat # "seat0"
                           => seats[displays[d].seat] = "graphical"

Seat0HasLoginScreen ==
    \E d \in Displays : IsLoginScreen(d) /\ displays[d].status = "managed"

\* A session that ended unnoticed: nothing replaces its display (on_conversation_stopped).
Lost == \E d \in Displays : IsLoginScreen(d) /\ displays[d].session = "lost"

AutomaticLogin ==
    automatic # NoDisplay \/ \E d \in Displays : displays[d].session = "automatic"

\* Whoever stays on the initial VT gets a login screen, whatever ended, failed or timed out
\* before, unless an automatic login goes on or the factory has given up.  (If greeters may
\* fail to get a user this is not so: one that fails before the first VT event is finished,
\* and not replaced.)
LoginScreenComes ==
    activeVt = GDM_INITIAL_VT /\ seats["seat0"] = "graphical"
    ~> \/ Seat0HasLoginScreen
       \/ activeVt # GDM_INITIAL_VT \/ seats["seat0"] # "graphical"
       \/ AutomaticLogin \/ Lost
       \/ numFailures > MAX_DISPLAY_FAILURES
====
