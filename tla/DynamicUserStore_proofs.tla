----------------------- MODULE DynamicUserStore_proofs -----------------------
(***************************************************************************)
(* Proofs about the dynamic user store, for every number of launch         *)
(* environments, preferred names and UIDs.  The properties are not         *)
(* inductive: between the two halves of an insertion or a removal the      *)
(* indexes disagree about one user, and what is true of the indexes when   *)
(* they agree again depends on what the main thread knows about the name   *)
(* and UID it has picked.  The invariant states both.                      *)
(***************************************************************************)
EXTENDS DynamicUserStore, FiniteSetTheorems, TLAPS

Creating == pc \in {"probe", "asked", "picked", "insert", "named"}
HasUid == pc \in {"picked", "insert", "named"}
InMutex == pc \in {"named", "remove"}

\* The main thread holds the mutex exactly between two updates of the indexes.
MutexInv == mutex = "main" <=> InMutex

AgreeBut(N) == \A n \in N, u \in Uids : byName[n] = u <=> byUid[u] = n

\* The indexes agree, but for the name that is being inserted or removed: it has an
\* entry in by_name and none in by_uid.
IndexInv ==
    /\ ~InMutex => AgreeBut(Names)
    /\ InMutex =>
        /\ byName[name] = IF pc = "named" THEN uid ELSE dynUid[env]
        /\ \A u \in Uids : byUid[u] # name
        /\ AgreeBut(Names \ {name})

\* What has been checked of the name, the UID and the home while a user is created.
CreateInv ==
    /\ Creating => name \in Names /\ dynUid[env] = NoUid
    /\ Creating /\ pc # "named" => byName[name] = NoUid
    /\ HasUid => uid \in Uids /\ byUid[uid] = NoName
    /\ pc \in {"insert", "named"} => name \in homes

\* What is known of the user that is being removed.
RemoveInv ==
    pc = "remove" =>
        /\ name \in Names
        /\ dynUid[env] \in Uids
        /\ byUid[dynUid[env]] = NoName

\* Every environment with a UID has a registered user of its own, and a home.
EnvsInv ==
    \A e \in Envs : dynUid[e] # NoUid =>
        /\ dynName[e] \in Names
        /\ ~(pc = "remove" /\ env = e) =>
              byUid[dynUid[e]] = dynName[e] /\ dynName[e] \in homes
        /\ \A f \in Envs \ {e} : dynUid[f] # dynUid[e]

\* Every registered user belongs to an environment.
OwnedInv == \A u \in Uids : byUid[u] # NoName => \E e \in Envs : dynUid[e] = u

\* Who holds the password database's lock, and what it protects.
LockInv ==
    LockWorks =>
        /\ Creating => pwdLock = "daemon"
        /\ other # NoUid => pwdLock = "other" /\ byUid[other] = NoName
        /\ pc = "asked" => nextAlloc \notin accounts
        /\ HasUid => uid \notin accounts
        /\ \A u \in Uids : byUid[u] # NoName => u \notin accounts

StoreInv == MutexInv /\ IndexInv /\ CreateInv /\ RemoveInv /\ EnvsInv /\ OwnedInv /\ LockInv

Inv == TypeOK /\ StoreInv

-----------------------------------------------------------------------------
\* Neither marker for "none" is a name or a UID.
LEMMA NoneIsNone == NoName \notin Names /\ NoUid \notin Uids
  <1>1. NoUid \notin Uids
    BY StoreAssumptions DEF NoUid, Uids
  <1>2. NoName \notin Names
    BY DEF NoName, Names
  <1> QED BY <1>1, <1>2

\* next_alloc wraps around within the range.
LEMMA NextAllocInRange ==
    ASSUME nextAlloc \in Uids
    PROVE  (IF nextAlloc < GREETER_UID_MAX THEN nextAlloc + 1 ELSE GREETER_UID_MIN) \in Uids
  BY StoreAssumptions DEF Uids

\* A round of pick_uid keeps the types.
LEMMA ProbedTypes ==
    ASSUME TypeOK, NEW used \in BOOLEAN, Probed(used)
    PROVE  /\ nextAlloc' \in Uids /\ uid' \in Uids \cup {NoUid}
           /\ pc' \in {"picked", "probe", "idle"}
           /\ pwdLock' \in {"free", "daemon", "other"}
  BY NextAllocInRange DEF TypeOK, Probed, Unlocked

-----------------------------------------------------------------------------
\* pick_username.
LEMMA CreateUserKeeps ==
    ASSUME Inv, NEW e \in Envs, NEW p \in Preferred, CreateUser(e, p)
    PROVE  Inv'
  <1>1. UNCHANGED <<indexVars, nextAlloc, uid, mutex, envVars, otherVars>> /\ env' = e
        /\ pc = "idle" /\ dynUid[e] = NoUid
    BY DEF CreateUser
  <1>2. CASE FreeNames(p) = {}
    <2>1. pc' = "aborted" /\ UNCHANGED <<name, start, pwdLock>>
      BY <1>2 DEF CreateUser
    <2>2. TypeOK'
      BY <1>1, <2>1 DEF Inv, TypeOK, indexVars, envVars, otherVars
    <2> QED BY <1>1, <2>1, <2>2 DEF Inv, StoreInv, MutexInv, IndexInv, CreateInv, RemoveInv,
              EnvsInv, OwnedInv, LockInv, AgreeBut, Creating, HasUid, InMutex,
              indexVars, envVars, otherVars
  <1>3. CASE FreeNames(p) # {}
    <2>1. /\ name' \in FreeNames(p)
          /\ IF LockWorks THEN pwdLock = "free" /\ pwdLock' = "daemon"
                          ELSE UNCHANGED pwdLock
          /\ pc' = "probe"
          /\ start' = nextAlloc
      BY <1>3 DEF CreateUser
    <2>3. name' \in Names /\ byName[name'] = NoUid
      BY <2>1 DEF FreeNames
    <2>4. TypeOK'
      BY <1>1, <2>1, <2>3 DEF Inv, TypeOK, indexVars, envVars, otherVars
    <2> QED BY <1>1, <2>1, <2>3, <2>4 DEF Inv, StoreInv, MutexInv, IndexInv, CreateInv,
              RemoveInv, EnvsInv, OwnedInv, LockInv, AgreeBut, Creating, HasUid, InMutex,
              indexVars, envVars, otherVars
  <1> QED BY <1>2, <1>3

\* pick_uid, whoever answers: a round that finds the UID unused leaves it picked.
LEMMA ProbeKeeps ==
    ASSUME Inv, NEW used \in BOOLEAN, Probed(used), pc \in {"probe", "asked"},
           UNCHANGED <<indexVars, env, name, start, envVars, otherVars>>,
           mutex \in {"free", "varlink"}, mutex' \in {"free", "varlink"},
           ~used => byUid[nextAlloc] = NoName /\ (LockWorks => nextAlloc \notin accounts)
    PROVE  Inv'
  <1>1. TypeOK'
    BY ProbedTypes DEF Inv, TypeOK, indexVars, envVars, otherVars
  <1>2. CASE ~used
    <2>1. uid' = nextAlloc /\ pc' = "picked" /\ UNCHANGED pwdLock /\ nextAlloc \in Uids
      BY <1>2 DEF Probed, Inv, TypeOK
    <2> QED BY <1>1, <1>2, <2>1 DEF Inv, StoreInv, MutexInv, IndexInv, CreateInv,
              RemoveInv, EnvsInv, OwnedInv, LockInv, AgreeBut, Creating, HasUid, InMutex,
              indexVars, envVars, otherVars
  <1>3. CASE used
    <2>1. pc' \in {"probe", "idle"} /\ uid' = uid
          /\ (pc' = "probe" => UNCHANGED pwdLock)
          /\ (pc' = "idle" => pwdLock' = Unlocked)
      BY <1>3 DEF Probed
    <2>2. LockInv'
      BY <2>1 DEF Inv, StoreInv, LockInv, Creating, HasUid, Unlocked, indexVars, otherVars
    <2> QED BY <1>1, <2>1, <2>2 DEF Inv, StoreInv, MutexInv, IndexInv, CreateInv,
              RemoveInv, EnvsInv, OwnedInv, AgreeBut, Creating, HasUid, InMutex,
              indexVars, envVars, otherVars
  <1> QED BY <1>2, <1>3

\* Choosing a UID keeps the invariant.
LEMMA PickUidKeeps == ASSUME Inv, PickUid PROVE Inv'
  <1>1. CASE ProbeOwn
    BY <1>1, ProbeKeeps DEF ProbeOwn, Inv, StoreInv, MutexInv, InMutex, TypeOK
  <1>2. CASE ProbeSystem
    <2>1. CASE nextAlloc \in accounts
      BY <1>2, <2>1, ProbeKeeps DEF ProbeSystem, Inv, StoreInv, MutexInv, InMutex, TypeOK
    <2>2. CASE nextAlloc \notin accounts
      <3>1. /\ pc = "probe" /\ pc' = "asked" /\ UNCHANGED <<nextAlloc, uid, pwdLock>>
            /\ UNCHANGED <<indexVars, env, name, start, mutex, envVars, otherVars>>
        BY <1>2, <2>2 DEF ProbeSystem
      <3>2. TypeOK'
        BY <3>1 DEF Inv, TypeOK, indexVars, envVars, otherVars
      <3> QED BY <2>2, <3>1, <3>2 DEF Inv, StoreInv, MutexInv, IndexInv, CreateInv,
                RemoveInv, EnvsInv, OwnedInv, LockInv, AgreeBut, Creating, HasUid, InMutex,
                indexVars, envVars, otherVars
    <2> QED BY <2>1, <2>2
  <1>3. CASE VarlinkReplyToDaemon
    <2>1. LockWorks => nextAlloc \notin accounts
      BY <1>3 DEF VarlinkReplyToDaemon, Inv, StoreInv, LockInv
    <2> DEFINE used == byUid[nextAlloc] # NoName
    <2>2. used \in BOOLEAN /\ Probed(used) /\ (~used => byUid[nextAlloc] = NoName)
      BY <1>3 DEF VarlinkReplyToDaemon
    <2>3. /\ pc = "asked" /\ mutex = "varlink" /\ mutex' = "free"
          /\ UNCHANGED <<indexVars, env, name, start, envVars, otherVars>>
      BY <1>3 DEF VarlinkReplyToDaemon
    <2> HIDE DEF used
    <2> QED BY <2>1, <2>2, <2>3, ProbeKeeps
  <1> QED BY <1>1, <1>2, <1>3 DEF PickUid

-----------------------------------------------------------------------------
\* So does giving up.
LEMMA CreateFailsKeeps == ASSUME Inv, CreateFails PROVE Inv'
  <1>1. TypeOK'
    BY DEF Inv, TypeOK, CreateFails, Unlocked, indexVars, pickVars, envVars, otherVars
  <1>2. LockInv'
    BY DEF Inv, StoreInv, LockInv, CreateFails, Creating, HasUid, Unlocked, indexVars,
           pickVars, otherVars
  <1> QED BY <1>1, <1>2 DEF Inv, StoreInv, MutexInv, IndexInv, CreateInv, RemoveInv, EnvsInv,
            OwnedInv, AgreeBut, Creating, HasUid, InMutex, CreateFails, indexVars, pickVars,
            envVars

\* So does making the home directory.
LEMMA EnsureHomeKeeps == ASSUME Inv, EnsureHome PROVE Inv'
  <1>1. TypeOK' /\ name \in Names
    BY DEF Inv, StoreInv, CreateInv, Creating, TypeOK, EnsureHome, pickVars, envVars, otherVars
  <1> QED BY <1>1 DEF Inv, StoreInv, MutexInv, IndexInv, CreateInv, RemoveInv, EnvsInv,
            OwnedInv, LockInv, AgreeBut, Creating, HasUid, InMutex, EnsureHome, pickVars,
            envVars, otherVars

\* The first half of an insertion.
LEMMA InsertByNameKeeps == ASSUME Inv, InsertByName PROVE Inv'
  <1>1. /\ pc = "insert" /\ pc' = "named" /\ mutex' = "main"
        /\ byName' = [byName EXCEPT ![name] = uid]
        /\ UNCHANGED <<byUid, homes, nextAlloc, pickVars, pwdLock, envVars, otherVars>>
    BY DEF InsertByName
  <1>2. name \in Names /\ uid \in Uids /\ byName[name] = NoUid /\ byUid[uid] = NoName
    BY <1>1 DEF Inv, StoreInv, CreateInv, Creating, HasUid
  <1>3. TypeOK'
    BY <1>1, <1>2 DEF Inv, TypeOK, pickVars, envVars, otherVars
  <1>4. AgreeBut(Names) /\ (\A u \in Uids : byUid[u] # name)
    BY <1>1, <1>2, NoneIsNone DEF Inv, StoreInv, IndexInv, InMutex, AgreeBut
  <1>5. IndexInv'
    <2>1. byName'[name] = uid /\ \A n \in Names \ {name} : byName'[n] = byName[n]
      BY <1>1, <1>2 DEF Inv, TypeOK
    <2> QED BY <1>1, <1>4, <2>1 DEF IndexInv, InMutex, AgreeBut, pickVars, envVars
  <1> QED BY <1>1, <1>2, <1>3, <1>5 DEF Inv, StoreInv, MutexInv, CreateInv, RemoveInv,
            EnvsInv, OwnedInv, LockInv, Creating, HasUid, InMutex, pickVars, envVars, otherVars

\* The second half of an insertion; the environment learns its user.
LEMMA InsertByUidKeeps == ASSUME Inv, InsertByUid PROVE Inv'
  <1>1. /\ pc = "named" /\ pc' = "idle" /\ mutex' = "free" /\ pwdLock' = Unlocked
        /\ byUid' = [byUid EXCEPT ![uid] = name]
        /\ dynName' = [dynName EXCEPT ![env] = name]
        /\ dynUid' = [dynUid EXCEPT ![env] = uid]
        /\ UNCHANGED <<byName, homes, nextAlloc, pickVars, otherVars>>
    BY DEF InsertByUid
  <1>2. /\ name \in Names /\ uid \in Uids /\ name \in homes /\ env \in Envs
        /\ byName[name] = uid /\ byUid[uid] = NoName /\ dynUid[env] = NoUid
    BY <1>1 DEF Inv, TypeOK, StoreInv, IndexInv, CreateInv, Creating, HasUid, InMutex
  <1>3. byUid'[uid] = name /\ (\A u \in Uids \ {uid} : byUid'[u] = byUid[u])
    BY <1>1, <1>2 DEF Inv, TypeOK
  <1>4. /\ dynUid'[env] = uid /\ dynName'[env] = name
        /\ \A e \in Envs \ {env} : dynUid'[e] = dynUid[e] /\ dynName'[e] = dynName[e]
    BY <1>1, <1>2 DEF Inv, TypeOK
  <1>5. TypeOK'
    BY <1>1, <1>2 DEF Inv, TypeOK, Unlocked, pickVars, otherVars
  <1>6. IndexInv'
    <2>1. AgreeBut(Names \ {name}) /\ \A u \in Uids : byUid[u] # name
      BY <1>1 DEF Inv, StoreInv, IndexInv, InMutex
    <2> QED BY <1>1, <1>2, <1>3, <2>1, NoneIsNone DEF IndexInv, InMutex, AgreeBut
  <1>7. EnvsInv'
    <2>1. \A e \in Envs \ {env} : dynUid[e] # uid
      BY <1>1, <1>2, NoneIsNone DEF Inv, StoreInv, EnvsInv
    <2>2. \A e \in Envs \ {env} : dynUid[e] # NoUid => dynUid[e] \in Uids
      BY DEF Inv, TypeOK
    <2> QED BY <1>1, <1>2, <1>3, <1>4, <2>1, <2>2 DEF Inv, StoreInv, EnvsInv
  <1>8. OwnedInv'
    <2> SUFFICES ASSUME NEW u \in Uids, byUid'[u] # NoName
                 PROVE  \E e \in Envs : dynUid'[e] = u
      BY DEF OwnedInv
    <2>1. CASE u = uid
      BY <1>2, <1>4, <2>1
    <2>2. CASE u # uid
      <3>1. PICK e \in Envs : dynUid[e] = u
        BY <1>3, <2>2 DEF Inv, StoreInv, OwnedInv
      <3>2. e # env
        BY <1>2, <3>1, NoneIsNone
      <3> QED BY <1>4, <3>1, <3>2
    <2> QED BY <2>1, <2>2
  <1>9. LockInv'
    BY <1>1, <1>2, <1>3, NoneIsNone
       DEF Inv, TypeOK, StoreInv, LockInv, Creating, HasUid, Unlocked, otherVars
  <1> QED BY <1>1, <1>5, <1>6, <1>7, <1>8, <1>9
          DEF Inv, StoreInv, MutexInv, CreateInv, RemoveInv, Creating, HasUid, InMutex

\* The first half of a removal.
LEMMA RemoveByUidKeeps == ASSUME Inv, NEW e \in Envs, RemoveByUid(e) PROVE Inv'
  <1>1. /\ pc = "idle" /\ dynUid[e] # NoUid /\ env' = e
        /\ UNCHANGED <<byName, homes, nextAlloc, uid, start, pwdLock, dynName, otherVars>>
    BY DEF RemoveByUid
  <1>2. /\ dynUid[e] \in Uids /\ dynName[e] \in Names /\ byUid[dynUid[e]] = dynName[e]
        /\ byName[dynName[e]] = dynUid[e]
    BY <1>1 DEF Inv, TypeOK, StoreInv, EnvsInv, IndexInv, InMutex, AgreeBut
  <1>3. /\ mutex' = "main" /\ pc' = "remove" /\ UNCHANGED dynUid
        /\ name' = dynName[e]
        /\ byUid' = [byUid EXCEPT ![dynUid[e]] = NoName]
    BY <1>2, NoneIsNone DEF RemoveByUid
  <1>4. /\ byUid'[dynUid[e]] = NoName
        /\ \A u \in Uids \ {dynUid[e]} : byUid'[u] = byUid[u]
    BY <1>2, <1>3 DEF Inv, TypeOK
  <1>5. TypeOK'
    BY <1>1, <1>2, <1>3 DEF Inv, TypeOK, otherVars
  <1>6. IndexInv'
    <2>1. AgreeBut(Names)
      BY <1>1 DEF Inv, StoreInv, IndexInv, InMutex
    <2> QED BY <1>1, <1>2, <1>3, <1>4, <2>1, NoneIsNone DEF IndexInv, InMutex, AgreeBut
  <1>7. EnvsInv'
    <2>1. \A f \in Envs : dynUid[f] # NoUid => dynUid[f] \in Uids
      BY DEF Inv, TypeOK
    <2> QED BY <1>1, <1>3, <1>4, <2>1 DEF Inv, StoreInv, EnvsInv
  <1>8. OwnedInv'
    BY <1>3, <1>4 DEF Inv, StoreInv, OwnedInv
  <1>9. LockInv'
    BY <1>1, <1>3, <1>4
       DEF Inv, TypeOK, StoreInv, LockInv, Creating, HasUid, otherVars
  <1> QED BY <1>1, <1>2, <1>3, <1>4, <1>5, <1>6, <1>7, <1>8, <1>9
          DEF Inv, StoreInv, MutexInv, CreateInv, RemoveInv, Creating, HasUid, InMutex

\* The second half of a removal; the environment forgets its user.
LEMMA RemoveByNameKeeps == ASSUME Inv, RemoveByName PROVE Inv'
  <1>1. /\ pc = "remove" /\ pc' = "idle" /\ mutex' = "free"
        /\ byName' = [byName EXCEPT ![name] = NoUid]
        /\ homes' = homes \ {name}
        /\ dynUid' = [dynUid EXCEPT ![env] = NoUid]
        /\ UNCHANGED <<byUid, nextAlloc, pickVars, pwdLock, dynName, otherVars>>
    BY DEF RemoveByName
  <1>2. /\ name \in Names /\ env \in Envs
        /\ dynUid[env] \in Uids /\ byUid[dynUid[env]] = NoName
        /\ \A u \in Uids : byUid[u] # name
    BY <1>1 DEF Inv, TypeOK, StoreInv, RemoveInv, IndexInv, InMutex
  <1>3. byName'[name] = NoUid /\ (\A n \in Names \ {name} : byName'[n] = byName[n])
    BY <1>1, <1>2 DEF Inv, TypeOK
  <1>4. dynUid'[env] = NoUid /\ (\A e \in Envs \ {env} : dynUid'[e] = dynUid[e])
    BY <1>1, <1>2 DEF Inv, TypeOK
  <1>5. TypeOK'
    BY <1>1, <1>2 DEF Inv, TypeOK, pickVars, otherVars
  <1>6. IndexInv'
    <2>1. AgreeBut(Names \ {name})
      BY <1>1 DEF Inv, StoreInv, IndexInv, InMutex
    <2> QED BY <1>1, <1>2, <1>3, <2>1, NoneIsNone DEF IndexInv, InMutex, AgreeBut
  <1>7. EnvsInv'
    <2>1. \A e \in Envs : dynUid[e] # NoUid => dynUid[e] \in Uids
      BY DEF Inv, TypeOK
    <2> QED BY <1>1, <1>2, <1>4, <2>1 DEF Inv, StoreInv, EnvsInv
  <1>8. OwnedInv'
    BY <1>1, <1>2, <1>4 DEF Inv, StoreInv, OwnedInv
  <1>9. LockInv'
    BY <1>1 DEF Inv, StoreInv, LockInv, Creating, HasUid, otherVars
  <1> QED BY <1>1, <1>5, <1>6, <1>7, <1>8, <1>9
          DEF Inv, StoreInv, MutexInv, CreateInv, RemoveInv, Creating, HasUid, InMutex

-----------------------------------------------------------------------------
\* So do the readers.
LEMMA VarlinkKeeps == ASSUME Inv, VarlinkLock \/ VarlinkReply PROVE Inv'
  <1>1. /\ mutex # "main" /\ mutex' \in {"free", "varlink"}
        /\ UNCHANGED <<indexVars, nextAlloc, pc, pickVars, pwdLock, envVars, otherVars>>
    BY DEF VarlinkLock, VarlinkReply
  <1>2. TypeOK'
    BY <1>1 DEF Inv, TypeOK, indexVars, pickVars, envVars, otherVars
  <1> QED BY <1>1, <1>2 DEF Inv, StoreInv, MutexInv, IndexInv, CreateInv, RemoveInv, EnvsInv,
            OwnedInv, LockInv, AgreeBut, Creating, HasUid, InMutex, indexVars, pickVars,
            envVars, otherVars

\* So do other programs that take UIDs.
LEMMA OtherKeeps ==
    ASSUME Inv, OtherRegisters \/ \E u \in Uids : OtherPicks(u)
    PROVE  Inv'
  <1>1. /\ UNCHANGED <<indexVars, nextAlloc, pc, pickVars, mutex, envVars>>
        /\ pwdLock' \in {"free", "other"} /\ other' \in Uids \cup {NoUid}
        /\ accounts' \subseteq Uids
    BY DEF OtherRegisters, OtherPicks, Inv, TypeOK
  <1>2. TypeOK'
    BY <1>1 DEF Inv, TypeOK, indexVars, pickVars, envVars
  <1>3. LockInv'
    <2>1. CASE OtherRegisters
      BY <1>1, <2>1 DEF OtherRegisters, Inv, TypeOK, StoreInv, LockInv, Creating, HasUid,
                        indexVars, pickVars
    <2>2. ASSUME NEW u \in Uids, OtherPicks(u) PROVE LockInv'
      BY <1>1, <2>2 DEF OtherPicks, Inv, TypeOK, StoreInv, LockInv, Creating, HasUid,
                        indexVars, pickVars
    <2> QED BY <2>1, <2>2
  <1> QED BY <1>1, <1>2, <1>3 DEF Inv, StoreInv, MutexInv, IndexInv, CreateInv, RemoveInv,
            EnvsInv, OwnedInv, AgreeBut, Creating, HasUid, InMutex, indexVars, pickVars, envVars

\* The invariant holds at first.
LEMMA InvInitially == Init => Inv
  <1> SUFFICES ASSUME Init PROVE Inv
    OBVIOUS
  <1>1. TypeOK
    BY StoreAssumptions DEF Init, TypeOK, Uids
  <1>2. IndexInv
    BY NoneIsNone DEF Init, IndexInv, AgreeBut, InMutex
  <1> QED BY <1>1, <1>2 DEF Init, Inv, StoreInv, MutexInv, CreateInv, RemoveInv, EnvsInv,
            OwnedInv, LockInv, Creating, HasUid, InMutex

\* Every step keeps the invariant.
LEMMA InvInductive == Inv /\ [Next]_vars => Inv'
  <1> SUFFICES ASSUME Inv, [Next]_vars PROVE Inv'
    OBVIOUS
  <1>1. CASE \E e \in Envs, p \in Preferred : CreateUser(e, p)
    BY <1>1, CreateUserKeeps
  <1>2. CASE Create
    BY <1>2, PickUidKeeps, CreateFailsKeeps, EnsureHomeKeeps, InsertByNameKeeps,
       InsertByUidKeeps DEF Create
  <1>3. CASE (\E e \in Envs : RemoveByUid(e)) \/ RemoveByName
    BY <1>3, RemoveByUidKeeps, RemoveByNameKeeps
  <1>4. CASE VarlinkLock \/ VarlinkReply
    BY <1>4, VarlinkKeeps
  <1>5. CASE OtherRegisters \/ \E u \in Uids : OtherPicks(u)
    BY <1>5, OtherKeeps
  <1>6. CASE UNCHANGED vars
    <2>1. TypeOK'
      BY <1>6 DEF Inv, TypeOK, vars, indexVars, pickVars, envVars, otherVars
    <2> QED BY <1>6, <2>1 DEF Inv, StoreInv, MutexInv, IndexInv, CreateInv, RemoveInv,
              EnvsInv, OwnedInv, LockInv, AgreeBut, Creating, HasUid, InMutex, vars,
              indexVars, pickVars, envVars, otherVars
  <1> QED BY <1>1, <1>2, <1>3, <1>4, <1>5, <1>6 DEF Next

-----------------------------------------------------------------------------
\* The store's variables keep their types; next_alloc never leaves the configured range.
THEOREM StoreTypeCorrect == Spec => []TypeOK
  <1>1. Inv => TypeOK
    BY DEF Inv
  <1> QED BY <1>1, InvInitially, InvInductive, PTL DEF Spec

\* Whoever takes the mutex finds by_name and by_uid describing the same users.
THEOREM ReadersSeeOneIndex == Spec => []IndexesAgree
  <1>1. Inv => IndexesAgree
    BY DEF Inv, StoreInv, MutexInv, IndexInv, AgreeBut, IndexesAgree
  <1> QED BY <1>1, InvInitially, InvInductive, PTL DEF Spec

\* No two launch environments ever share a UID, and each keeps its user and its home
\* until it is stopped itself.
THEOREM UsersAreExclusive == Spec => []EnvsOwnUsers
  <1>1. Inv => EnvsOwnUsers
    BY DEF Inv, StoreInv, EnvsInv, EnvsOwnUsers
  <1> QED BY <1>1, InvInitially, InvInductive, PTL DEF Spec

\* A failed creation, at whatever step, leaves no user behind.
THEOREM NothingLeaks == Spec => []NoUserLeaks
  <1>1. Inv => NoUserLeaks
    BY DEF Inv, StoreInv, OwnedInv, NoUserLeaks
  <1> QED BY <1>1, InvInitially, InvInductive, PTL DEF Spec

\* There are as many names to a preferred name as there are UIDs: when all are taken,
\* all UIDs are.
LEMMA NamesUseUpUids ==
    ASSUME Inv, pc = "idle", NEW p \in Preferred, FreeNames(p) = {}, NEW u \in Uids
    PROVE  \E i \in 1..GREETER_UID_COUNT : byName[<<p, i>>] = u
  <1> DEFINE I == 1..GREETER_UID_COUNT
             f == [i \in I |-> byName[<<p, i>>]]
  <1>1. \A i \in I : <<p, i>> \in Names /\ <<p, i>>[1] = p
    BY DEF Names
  <1>2. \A i \in I : byName[<<p, i>>] \in Uids
    BY <1>1 DEF FreeNames, Inv, TypeOK
  <1>3. \A n, m \in Names, v \in Uids : byName[n] = v /\ byName[m] = v => n = m
    BY DEF Inv, StoreInv, IndexInv, InMutex, AgreeBut
  <1>4. f \in Injection(I, Uids)
    <2>1. f \in [I -> Uids]
      BY <1>2
    <2>2. \A i, j \in I : f[i] = f[j] => i = j
      BY <1>1, <1>2, <1>3
    <2> QED BY <2>1, <2>2 DEF Injection, IsInjective
  <1>5. IsFiniteSet(Uids) /\ IsFiniteSet(I) /\ Cardinality(I) = Cardinality(Uids)
    BY FS_Interval, StoreAssumptions DEF Uids, GREETER_UID_COUNT
  <1> HIDE DEF f, I
  <1>6. f \in Surjection(I, Uids)
    BY <1>4, <1>5, FS_Injection
  <1>7. PICK i \in I : f[i] = u
    BY <1>6 DEF Surjection
  <1> QED BY <1>7 DEF f, I

\* The daemon aborts only when running environments hold all of its UIDs under one
\* preferred name.
LEMMA AbortsInitially == Init => AbortsOnlyIfFull
  BY DEF Init, AbortsOnlyIfFull

LEMMA AbortsWhenFull == Inv /\ AbortsOnlyIfFull /\ [Next]_vars => AbortsOnlyIfFull'
  <1> SUFFICES ASSUME Inv, AbortsOnlyIfFull, [Next]_vars, pc' = "aborted"
               PROVE  AbortsOnlyIfFull'
    BY DEF AbortsOnlyIfFull
  <1>1. ASSUME NEW e \in Envs, NEW p \in Preferred, CreateUser(e, p)
        PROVE  AbortsOnlyIfFull'
    <2>1. pc = "idle" /\ FreeNames(p) = {} /\ UNCHANGED envVars
      BY <1>1 DEF CreateUser
    <2>2. ASSUME NEW u \in Uids
          PROVE  \E d \in Envs : dynUid[d] = u /\ dynName[d][1] = p
      <3>1. PICK i \in 1..GREETER_UID_COUNT : byName[<<p, i>>] = u
        BY <2>1, NamesUseUpUids
      <3>2. byUid[u] = <<p, i>> /\ byUid[u] # NoName
        BY <2>1, <3>1, NoneIsNone
           DEF Inv, StoreInv, IndexInv, InMutex, AgreeBut, Names
      <3>3. PICK d \in Envs : dynUid[d] = u
        BY <3>2 DEF Inv, StoreInv, OwnedInv
      <3>4. byUid[u] = dynName[d]
        BY <2>1, <3>3, NoneIsNone DEF Inv, StoreInv, EnvsInv
      <3> QED BY <3>2, <3>3, <3>4
    <2> QED BY <2>1, <2>2 DEF AbortsOnlyIfFull, envVars
  <1>2. CASE ~\E e \in Envs, p \in Preferred : CreateUser(e, p)
    <2>1. pc = "aborted" /\ UNCHANGED envVars
      BY <1>2 DEF Next, Create, PickUid, ProbeOwn, ProbeSystem, VarlinkReplyToDaemon, Probed,
         CreateFails, EnsureHome, InsertByName, InsertByUid, RemoveByUid, RemoveByName,
         VarlinkLock, VarlinkReply, OtherPicks, OtherRegisters, vars, envVars
    <2> QED BY <2>1 DEF AbortsOnlyIfFull, envVars
  <1> QED BY <1>1, <1>2

\* A name is missing only when the range is full of greeters of one kind that still run.
THEOREM AbortIsFull == Spec => []AbortsOnlyIfFull
  <1> QED BY AbortsInitially, AbortsWhenFull, InvInitially, InvInductive, PTL DEF Spec

\* lckpwdf closes the window between choosing a UID and advertising it.
THEOREM LockProtectsUids == Spec => []UidsAreOurs
  <1>1. Inv => UidsAreOurs
    BY DEF Inv, StoreInv, LockInv, UidsAreOurs
  <1> QED BY <1>1, InvInitially, InvInductive, PTL DEF Spec
====
