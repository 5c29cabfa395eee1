--------------------------- MODULE DynamicUserStore ---------------------------
(***************************************************************************)
(* The users that greeters and initial setup run as are made up while the  *)
(* daemon runs (daemon/gdm-dynamic-user-store.c, built with userdb): the   *)
(* main thread creates one for each launch environment and removes it when *)
(* the environment is stopped; a varlink thread of the same process tells  *)
(* the system about them, under a mutex.  Finding a free UID asks the      *)
(* system's user database, which asks that thread back.  Other programs    *)
(* register accounts too; the lock on the password database is all that    *)
(* keeps them and the daemon from choosing the same UID.                   *)
(***************************************************************************)
EXTENDS Integers, FiniteSets

CONSTANTS
    Envs,             \* launch environments (daemon/gdm-launch-environment.c)
    Preferred,        \* preferred user names ("gdm-greeter", "gnome-initial-setup")
    GREETER_UID_MIN, GREETER_UID_MAX,
    LockWorks         \* lckpwdf succeeds; if not, the daemon goes on without

ASSUME StoreAssumptions ==
    /\ GREETER_UID_MIN \in Nat \ {0} /\ GREETER_UID_MAX \in Nat
    /\ GREETER_UID_MIN <= GREETER_UID_MAX
    /\ LockWorks \in BOOLEAN

Uids == GREETER_UID_MIN..GREETER_UID_MAX
NoUid == 0
GREETER_UID_COUNT == GREETER_UID_MAX - GREETER_UID_MIN + 1

\* <<p, 1>> is the preferred name itself, <<p, i>> the name with suffix -i.
Names == Preferred \X (1..GREETER_UID_COUNT)
NoName == <<>>

VARIABLES
    byName,           \* by_name: name -> the user's uid, or NoUid
    byUid,            \* by_uid: uid -> the user's name, or NoName
    nextAlloc,        \* next_alloc
    homes,            \* names that have a home directory
    pc,               \* where the main thread is
    env, name, uid,   \* the environment it works for, the name and uid it has picked
    start,            \* pick_uid: where the search began
    mutex,            \* "free", "main" or "varlink"
    pwdLock,          \* the password database: "free", "daemon" or "other"
    dynName, dynUid,  \* dyn_user_name and dyn_uid of each launch environment
    accounts,         \* uids of Uids that other programs have registered
    other             \* the uid another program is about to register, or NoUid

indexVars == <<byName, byUid, homes>>
pickVars == <<env, name, uid, start>>
envVars == <<dynName, dynUid>>
otherVars == <<accounts, other>>
vars == <<indexVars, nextAlloc, pc, pickVars, mutex, pwdLock, envVars, otherVars>>

Init ==
    /\ byName = [n \in Names |-> NoUid] /\ byUid = [u \in Uids |-> NoName]
    /\ homes = {}
    /\ nextAlloc = GREETER_UID_MIN
    /\ pc = "idle" /\ env \in Envs /\ name = NoName /\ uid = NoUid /\ start = NoUid
    /\ mutex = "free" /\ pwdLock = "free"
    /\ dynName = [e \in Envs |-> NoName] /\ dynUid = [e \in Envs |-> NoUid]
    /\ accounts \in SUBSET Uids /\ other = NoUid

-----------------------------------------------------------------------------
(* The main thread: gdm_launch_environment_ensure_uid and                  *)
(* gdm_dynamic_user_store_create.                                          *)

FreeNames(p) == {n \in Names : n[1] = p /\ byName[n] = NoUid}

\* pick_username: the preferred name, or the first free suffix; then lock_pwd_db.
\* Without a free name the daemon aborts (g_assert_not_reached).
CreateUser(e, p) ==
    /\ pc = "idle"
    /\ dynUid[e] = NoUid
    /\ env' = e
    /\ IF FreeNames(p) = {}
       THEN pc' = "aborted" /\ UNCHANGED <<name, start, pwdLock>>
       ELSE /\ name' \in FreeNames(p)
            /\ \A n \in FreeNames(p) : name'[2] <= n[2]
            /\ IF LockWorks THEN pwdLock = "free" /\ pwdLock' = "daemon"
                            ELSE UNCHANGED pwdLock
            /\ pc' = "probe"
            /\ start' = nextAlloc
    /\ UNCHANGED <<indexVars, nextAlloc, uid, mutex, envVars, otherVars>>

\* The function returns: unlock_pwd_db.
Unlocked == IF LockWorks THEN "free" ELSE pwdLock

\* One round of the loop of pick_uid, from the point where the answer is known.
Probed(used) ==
    /\ nextAlloc' = IF nextAlloc < GREETER_UID_MAX THEN nextAlloc + 1 ELSE GREETER_UID_MIN
    /\ \/ /\ ~used
          /\ uid' = nextAlloc
          /\ pc' = "picked"
          /\ UNCHANGED pwdLock
       \/ /\ used
          /\ nextAlloc' # start
          /\ pc' = "probe"
          /\ UNCHANGED <<uid, pwdLock>>
       \/ /\ used
          /\ nextAlloc' = start                  \* NO_FREE_UID
          /\ pc' = "idle"
          /\ pwdLock' = Unlocked
          /\ UNCHANGED uid

ProbeOwn ==
    /\ pc = "probe"
    /\ byUid[nextAlloc] # NoName
    /\ Probed(TRUE)
    /\ UNCHANGED <<indexVars, env, name, start, mutex, envVars, otherVars>>

\* Mutants of ProbeSystem: only the store's own users count, or the mutex is held.
ProbeOnlyOwn ==
    /\ pc = "probe"
    /\ byUid[nextAlloc] = NoName
    /\ Probed(FALSE)
    /\ UNCHANGED <<indexVars, env, name, start, mutex, envVars, otherVars>>

ProbeSystemLocked ==
    /\ pc = "probe"
    /\ byUid[nextAlloc] = NoName
    /\ IF nextAlloc \in accounts
       THEN Probed(TRUE) /\ UNCHANGED mutex
       ELSE /\ mutex = "free" /\ mutex' = "main"
            /\ pc' = "asked" /\ UNCHANGED <<nextAlloc, uid, pwdLock>>
    /\ UNCHANGED <<indexVars, env, name, start, envVars, otherVars>>

\* gdm_get_pwent_for_uid: the password file, then the userdb services, this one too.
ProbeSystem ==
    /\ pc = "probe"
    /\ byUid[nextAlloc] = NoName
    /\ IF nextAlloc \in accounts
       THEN Probed(TRUE)
       ELSE pc' = "asked" /\ UNCHANGED <<nextAlloc, uid, pwdLock>>
    /\ UNCHANGED <<indexVars, env, name, start, mutex, envVars, otherVars>>

\* The group is missing or the home directory cannot be made, after the UID was picked.
CreateFails ==
    /\ pc = "picked"
    /\ pc' = "idle"
    /\ pwdLock' = Unlocked
    /\ UNCHANGED <<indexVars, nextAlloc, pickVars, mutex, envVars, otherVars>>

EnsureHome ==
    /\ pc = "picked"
    /\ homes' = homes \cup {name}
    /\ pc' = "insert"
    /\ UNCHANGED <<byName, byUid, nextAlloc, pickVars, mutex, pwdLock, envVars, otherVars>>

\* Mutant of InsertByName: the first index is filled outside the mutex.
InsertByNameUnlocked ==
    /\ pc = "insert"
    /\ byName' = [byName EXCEPT ![name] = uid]
    /\ pc' = "named"
    /\ UNCHANGED <<byUid, homes, nextAlloc, pickVars, mutex, pwdLock, envVars, otherVars>>

InsertByName ==
    /\ pc = "insert"
    /\ mutex = "free" /\ mutex' = "main"
    /\ byName' = [byName EXCEPT ![name] = uid]
    /\ pc' = "named"
    /\ UNCHANGED <<byUid, homes, nextAlloc, pickVars, pwdLock, envVars, otherVars>>

\* Mutant of InsertByUid: the environment does not learn its user.
InsertByUidUntold ==
    /\ pc = "named"
    /\ byUid' = [byUid EXCEPT ![uid] = name]
    /\ mutex' = "free"
    /\ pwdLock' = Unlocked
    /\ pc' = "idle"
    /\ UNCHANGED <<byName, homes, nextAlloc, pickVars, envVars, otherVars>>

InsertByUid ==
    /\ pc = "named"
    /\ byUid' = [byUid EXCEPT ![uid] = name]
    /\ mutex' = "free"
    /\ pwdLock' = Unlocked
    /\ dynName' = [dynName EXCEPT ![env] = name]
    /\ dynUid' = [dynUid EXCEPT ![env] = uid]
    /\ pc' = "idle"
    /\ UNCHANGED <<byName, homes, nextAlloc, pickVars, otherVars>>

-----------------------------------------------------------------------------
(* gdm_launch_environment_stop and gdm_dynamic_user_store_remove.          *)

RemoveByUid(e) ==
    /\ pc = "idle"
    /\ dynUid[e] # NoUid
    /\ env' = e
    /\ IF byUid[dynUid[e]] = NoName
       THEN /\ dynUid' = [dynUid EXCEPT ![e] = NoUid]
            /\ UNCHANGED <<byUid, name, mutex, pc>>
       ELSE /\ mutex = "free" /\ mutex' = "main"
            /\ name' = byUid[dynUid[e]]
            /\ byUid' = [byUid EXCEPT ![dynUid[e]] = NoName]
            /\ pc' = "remove"
            /\ UNCHANGED dynUid
    /\ UNCHANGED <<byName, homes, nextAlloc, uid, start, pwdLock, dynName, otherVars>>

\* dynamic_user_free also deletes the home directory.
RemoveByName ==
    /\ pc = "remove"
    /\ byName' = [byName EXCEPT ![name] = NoUid]
    /\ homes' = homes \ {name}
    /\ mutex' = "free"
    /\ dynUid' = [dynUid EXCEPT ![env] = NoUid]
    /\ pc' = "idle"
    /\ UNCHANGED <<byUid, nextAlloc, pickVars, pwdLock, dynName, otherVars>>

-----------------------------------------------------------------------------
(* The varlink thread.                                                     *)

\* vl_get_user_record and vl_get_memberships take the mutex ...
VarlinkLock ==
    /\ mutex = "free" /\ mutex' = "varlink"
    /\ UNCHANGED <<indexVars, nextAlloc, pc, pickVars, pwdLock, envVars, otherVars>>

\* ... and answer; the answer to pick_uid's own question comes back to the main thread.
VarlinkReply ==
    /\ mutex = "varlink" /\ mutex' = "free"
    /\ UNCHANGED <<indexVars, nextAlloc, pc, pickVars, pwdLock, envVars, otherVars>>

VarlinkReplyToDaemon ==
    /\ mutex = "varlink" /\ mutex' = "free"
    /\ pc = "asked"
    /\ Probed(byUid[nextAlloc] # NoName)
    /\ UNCHANGED <<indexVars, env, name, start, envVars, otherVars>>

-----------------------------------------------------------------------------
(* Another program registers an account, under the lock (external).        *)

OtherPicks(u) ==
    /\ pwdLock = "free" /\ pwdLock' = "other"
    /\ u \notin accounts /\ byUid[u] = NoName
    /\ other' = u
    /\ UNCHANGED <<indexVars, nextAlloc, pc, pickVars, mutex, envVars, accounts>>

OtherRegisters ==
    /\ other # NoUid
    /\ accounts' = accounts \cup {other}
    /\ other' = NoUid
    /\ pwdLock' = "free"
    /\ UNCHANGED <<indexVars, nextAlloc, pc, pickVars, mutex, envVars>>

-----------------------------------------------------------------------------
PickUid == ProbeOwn \/ ProbeSystem \/ VarlinkReplyToDaemon

Create == PickUid \/ CreateFails \/ EnsureHome \/ InsertByName \/ InsertByUid

Next ==
    \/ \E e \in Envs, p \in Preferred : CreateUser(e, p)
    \/ Create
    \/ \E e \in Envs : RemoveByUid(e)
    \/ RemoveByName
    \/ VarlinkLock
    \/ VarlinkReply
    \/ \E u \in Uids : OtherPicks(u)
    \/ OtherRegisters

Spec == Init /\ [][Next]_vars

-----------------------------------------------------------------------------
(* Correctness.                                                            *)

\* Type correctness; in particular next_alloc stays within the configured range.
TypeOK ==
    /\ byName \in [Names -> Uids \cup {NoUid}]
    /\ byUid \in [Uids -> Names \cup {NoName}]
    /\ homes \subseteq Names
    /\ nextAlloc \in Uids /\ uid \in Uids \cup {NoUid} /\ start \in Uids \cup {NoUid}
    /\ pc \in {"idle", "probe", "asked", "picked", "insert", "named", "remove", "aborted"}
    /\ env \in Envs /\ name \in Names \cup {NoName}
    /\ mutex \in {"free", "main", "varlink"} /\ pwdLock \in {"free", "daemon", "other"}
    /\ dynName \in [Envs -> Names \cup {NoName}] /\ dynUid \in [Envs -> Uids \cup {NoUid}]
    /\ accounts \subseteq Uids /\ other \in Uids \cup {NoUid}

\* Whenever the main thread does not hold the mutex the two indexes describe the same
\* users, so that no reader ever finds a user by UID and not by name, or another one;
\* in particular no two users share a name or a UID.
IndexesAgree ==
    mutex # "main" => \A n \in Names, u \in Uids : byName[n] = u <=> byUid[u] = n

\* A launch environment that has a UID has it for itself, under the name it knows, and
\* with a home directory, until it is being stopped.
EnvsOwnUsers ==
    \A e \in Envs :
        dynUid[e] # NoUid /\ ~(pc = "remove" /\ env = e) =>
            /\ byUid[dynUid[e]] = dynName[e]
            /\ dynName[e] \in homes
            /\ \A f \in Envs \ {e} : dynUid[f] # dynUid[e]

\* No dynamic user outlives its launch environment: whatever step of creating one fails,
\* only users that an environment will remove again are registered.
NoUserLeaks ==
    pc = "idle" => \A u \in Uids : byUid[u] # NoName => \E e \in Envs : dynUid[e] = u

\* With the password database locked, no other program gets the UID of a dynamic user
\* between the moment pick_uid finds it free and the moment it is advertised.
UidsAreOurs == LockWorks => \A u \in Uids : byUid[u] # NoName => u \notin accounts

\* pick_username always finds a name: "Reaching this should be impossible, because it
\* means that we've already allocated more than GREETER_UID_COUNT users, which would be
\* caught in pick_uid".
NameIsAlwaysFound == pc # "aborted"

\* The code comes short of that by one case: the daemon aborts only when each of its UIDs
\* belongs to a launch environment that still runs, all of them under one preferred name.
\* No creation that failed, no user of another name and no account of another program
\* takes a name away for good.
AbortsOnlyIfFull ==
    pc = "aborted" =>
        \E p \in Preferred : \A u \in Uids :
            \E e \in Envs : dynUid[e] = u /\ dynName[e][1] = p

\* Both threads run; a request of the daemon is served in its turn, and a thread that
\* waits for the mutex gets it when it is released.
Fairness ==
    /\ WF_vars(ProbeOwn \/ ProbeSystem \/ CreateFails \/ EnsureHome \/ InsertByUid)
    /\ SF_vars(InsertByName)
    /\ WF_vars(VarlinkLock)
    /\ WF_vars(VarlinkReply \/ VarlinkReplyToDaemon)
    /\ SF_vars(VarlinkReplyToDaemon)

FairSpec == Spec /\ Fairness

\* Creating a user ends: the question pick_uid asks the system, and the varlink thread
\* through it, is answered (the mutex is not held meanwhile), and the search is finite.
CreateEnds == pc \in {"probe", "asked", "picked", "insert", "named"} ~> pc = "idle"
====
