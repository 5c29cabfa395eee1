------------------------- MODULE RemoteDisplayFactory -------------------------
(***************************************************************************)
(* The remote display factory (daemon/gdm-remote-display-factory.c) with   *)
(* what it inherits about user displays (daemon/gdm-display-factory.c).    *)
(* While remote displays exist the factory holds a suspend inhibitor, a    *)
(* file descriptor that logind returns from an asynchronous call; displays *)
(* come and go while that call is under way.  logind, polkit and the       *)
(* sessions that displays bring about are external.                        *)
(* Names that LocalDisplays has too begin with Remote: Displays_proofs     *)
(* extends both.                                                           *)
(***************************************************************************)
EXTENDS Integers, FiniteSets

CONSTANTS
    Users,            \* users a headless display may be created for
    Greeter,          \* a remote display with a greeter, no user's
    MaxRemoteDisplays \* bound: displays created over the daemon's life

ASSUME FactoryAssumptions ==
    /\ Greeter \notin Users
    /\ MaxRemoteDisplays \in Nat

RemoteDisplays == 1..MaxRemoteDisplays
NoFd == -1            \* inhibit_suspend_fd == -1

VARIABLES
    created,          \* displays created so far
    store,            \* the display store: display -> whom it is for
    count,            \* remote_displays_count
    creationUsers,    \* keys of display_creation_users (every value is NULL)
    sessions,         \* users with a graphical session, as logind tells
    suspendInhibited, \* suspend_inhibited
    inhibitCalls,     \* Inhibit calls logind has not answered
    fd,               \* inhibit_suspend_fd
    openFds,          \* inhibitor descriptors the process has open
    nextFd            \* descriptors handed out so far

inhibitVars == <<suspendInhibited, inhibitCalls, fd, openFds, nextFd>>
userVars == <<creationUsers, sessions>>
remoteVars == <<created, store, count, userVars, inhibitVars>>

RemoteInit ==
    /\ created = 0 /\ store = [d \in {} |-> Greeter] /\ count = 0
    /\ creationUsers = {} /\ sessions = {}
    /\ suspendInhibited = FALSE /\ inhibitCalls = 0
    /\ fd = NoFd /\ openFds = {} /\ nextFd = 0

-----------------------------------------------------------------------------
\* Mutant of InhibitSuspend: it does not look whether suspend is inhibited already.
InhibitSuspendAgain ==
    /\ suspendInhibited' = TRUE
    /\ inhibitCalls' = inhibitCalls + 1
    /\ UNCHANGED <<fd, openFds, nextFd>>

\* inhibit_suspend: Inhibit is called, unless logind cannot be reached.
InhibitSuspend ==
    \/ /\ ~suspendInhibited
       /\ suspendInhibited' = TRUE
       /\ inhibitCalls' = inhibitCalls + 1
       /\ UNCHANGED <<fd, openFds, nextFd>>
    \/ UNCHANGED inhibitVars

UninhibitSuspend ==
    IF fd = NoFd THEN UNCHANGED inhibitVars
    ELSE /\ openFds' = openFds \ {fd}
         /\ fd' = NoFd
         /\ suspendInhibited' = FALSE
         /\ UNCHANGED <<inhibitCalls, nextFd>>

\* Mutant of InhibitDone: a call that failed leaves suspend_inhibited set.
InhibitDoneUnaware ==
    /\ inhibitCalls > 0
    /\ inhibitCalls' = inhibitCalls - 1
    /\ \/ /\ nextFd' = nextFd + 1
          /\ fd' = nextFd'
          /\ openFds' = openFds \cup {nextFd'}
       \/ UNCHANGED <<fd, openFds, nextFd>>
    /\ UNCHANGED <<created, store, count, userVars, suspendInhibited>>

\* on_inhibit_suspend_done; a reply without a descriptor sets inhibit_suspend_fd to -1.
InhibitDone ==
    /\ inhibitCalls > 0
    /\ inhibitCalls' = inhibitCalls - 1
    /\ \/ /\ nextFd' = nextFd + 1
          /\ fd' = nextFd'
          /\ openFds' = openFds \cup {nextFd'}
          /\ UNCHANGED suspendInhibited
       \/ /\ suspendInhibited' = FALSE
          /\ fd' \in {fd, NoFd}
          /\ UNCHANGED <<openFds, nextFd>>
    /\ UNCHANGED <<created, store, count, userVars>>

-----------------------------------------------------------------------------
\* gdm_remote_display_factory_create_display; on_display_added counts the display.
CreateDisplay(owner) ==
    /\ created < MaxRemoteDisplays
    /\ created' = created + 1
    /\ store' = [d \in DOMAIN store \cup {created'} |->
                    IF d = created' THEN owner ELSE store[d]]
    /\ count' = count + 1
    /\ InhibitSuspend

CreateRemoteDisplay == CreateDisplay(Greeter) /\ UNCHANGED userVars

\* gdm_display_factory_on_user_display_creation: the test of display_creation_users
\* asks for a value that is not NULL, and no such value is ever inserted.
UserDisplayRefused(u) == u \in sessions

CreateUserDisplay(u) ==
    /\ ~UserDisplayRefused(u)
    /\ creationUsers' = creationUsers \cup {u}
    /\ CreateDisplay(u)
    /\ UNCHANGED sessions

\* gdm_display_factory_on_user_display_destruction: the user's sessions are terminated,
\* which ends their displays later.
DestroyUserDisplay(u) ==
    /\ u \in creationUsers
    /\ creationUsers' = creationUsers \ {u}
    /\ sessions' \in {sessions, sessions \ {u}}
    /\ u \notin sessions => sessions' = sessions
    /\ UNCHANGED <<created, store, count, inhibitVars>>

\* Mutant of DisplayRemoved: the count is not looked at.
DisplayRemovedUncounted(d) ==
    /\ d \in DOMAIN store
    /\ store' = [e \in DOMAIN store \ {d} |-> store[e]]
    /\ count' = count - 1
    /\ UninhibitSuspend
    /\ UNCHANGED <<created, userVars>>

\* The display is purged from the store; on_display_removed.
DisplayRemoved(d) ==
    /\ d \in DOMAIN store
    /\ store' = [e \in DOMAIN store \ {d} |-> store[e]]
    /\ count' = count - 1
    /\ IF count' = 0 THEN UninhibitSuspend ELSE UNCHANGED inhibitVars
    /\ UNCHANGED <<created, userVars>>

\* A headless display logs its user in; the session ends by itself (external).
SessionOpens(u) ==
    /\ \E d \in DOMAIN store : store[d] = u
    /\ u \notin sessions
    /\ sessions' = sessions \cup {u}
    /\ UNCHANGED <<created, store, count, creationUsers, inhibitVars>>

SessionEnds(u) ==
    /\ u \in sessions
    /\ sessions' = sessions \ {u}
    /\ UNCHANGED <<created, store, count, creationUsers, inhibitVars>>

RemoteNext ==
    \/ CreateRemoteDisplay
    \/ \E u \in Users : \/ CreateUserDisplay(u) \/ DestroyUserDisplay(u)
                        \/ SessionOpens(u) \/ SessionEnds(u)
    \/ \E d \in RemoteDisplays : DisplayRemoved(d)
    \/ InhibitDone

RemoteSpec == RemoteInit /\ [][RemoteNext]_remoteVars

-----------------------------------------------------------------------------
(* Correctness.                                                            *)

\* Type correctness; remote_displays_count is the number of remote displays in the store,
\* and so never the negative value on_display_removed asserts against.
RemoteTypeOK ==
    /\ created \in 0..MaxRemoteDisplays
    /\ DOMAIN store \subseteq 1..created
    /\ store \in [DOMAIN store -> Users \cup {Greeter}]
    /\ count = Cardinality(DOMAIN store)
    /\ creationUsers \subseteq Users /\ sessions \subseteq Users
    /\ suspendInhibited \in BOOLEAN /\ inhibitCalls \in Nat /\ nextFd \in Nat
    /\ fd \in 1..nextFd \cup {NoFd} /\ openFds \subseteq 1..nextFd

\* The factory never loses track of an inhibitor: the descriptor logind returns never
\* overwrites one that is still open, whatever displays came and went since Inhibit was
\* called, and the one it knows is open.
NoInhibitorLost == openFds = IF fd = NoFd THEN {} ELSE {fd}

\* Suspend is inhibited while there are remote displays, unless Inhibit failed or could
\* not be called: then suspend_inhibited says so, and the next display tries again.
InhibitedWhileRemote ==
    count > 0 /\ suspendInhibited /\ inhibitCalls = 0 => fd # NoFd

\* An inhibitor that is taken while remote displays exist is never released before the
\* last of them has gone.
ReleasedOnlyAfterLast == [][fd # NoFd /\ fd' = NoFd => DOMAIN store' = {}]_remoteVars

\* A second headless display is not created for a user whose first still exists: "A
\* display for user %s has already been created".
OneDisplayPerUser ==
    \A d, e \in DOMAIN store : store[d] \in Users /\ store[d] = store[e] => d = e
====
