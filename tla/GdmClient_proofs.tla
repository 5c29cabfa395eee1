-------------------------- MODULE GdmClient_proofs --------------------------
(***************************************************************************)
(* Proofs about the client library's GdmClient, for every number of        *)
(* requests, connections and extensions.  Each property is about requests  *)
(* that overlap: what makes it hold is what every request knows of the     *)
(* proxy it brings, of the extension proxies still to come, and of the     *)
(* proxy that some other request has had tracked in the meantime.          *)
(***************************************************************************)
EXTENDS GdmClient, TLAPS

\* The task of r has returned.
Done(r) == phase[r] \in {"returned", "finished"}

\* q made a proxy of kind k.
IsProxy(q, k) ==
    /\ q \in Requests /\ kind[q] = k /\ Done(q)
    /\ conn[q] \in Connections /\ conns[conn[q]] # "unused"

\* A request has answered when it is done, and not before; it holds a
\* UserVerifierData while it waits for extensions; it waits exactly for the
\* extensions that have no proxy yet, and is not done before they have.
RequestInv ==
    \A r \in Requests :
        /\ phase[r] # "none" => kind[r] \in Kinds
        /\ answers[r] = IF Done(r) THEN 1 ELSE 0
        /\ phase[r] \in {"enabling", "extending"} => data[r] = "live"
        /\ \A e \in Supported : e \in creating[r] <=> table[r][e] = "null"
        /\ creating[r] # {} => phase[r] = "extending"
        /\ phase[r] \in {"connected", "proxy", "enabling", "extending"} =>
              conn[r] \in Connections /\ conns[conn[r]] # "unused"

\* What is handed out or tracked is a proxy that is complete.
ProxyInv ==
    /\ \A r \in Requests : got[r] # None => Done(r) /\ IsProxy(got[r], kind[r])
    /\ \A k \in Kinds : slot[k] # None => IsProxy(slot[k], k)

\* There is a handler for the connection of every proxy that is tracked, and no other.
TrackInv ==
    \A c \in Connections, k \in Kinds :
        <<c, k>> \in handlers <=> slot[k] # None /\ conn[slot[k]] = c

\* What a caller was given is tracked for as long as its connection is not closed; the
\* client is disposed of only after the last request.
AgreeInv ==
    /\ alive => \A r \in Requests :
          /\ phase[r] = "finished" /\ kind[r] # "reauth" /\ got[r] # None
          /\ conns[conn[got[r]]] \in {"open", "closing"}
          => slot[kind[r]] = got[r]
    /\ ~alive =>
          /\ \A k \in Kinds : slot[k] = None
          /\ \A r \in Requests : phase[r] \in {"none", "finished"} /\ creating[r] = {}
          /\ AgreeOnProxy

ClientInv == RequestInv /\ ProxyInv /\ TrackInv /\ AgreeInv /\ ~corrupt

-----------------------------------------------------------------------------
(* Every step of a request is one of these, each with all that it changes.   *)

\* The connection of a request: one that is open, or a new one.
Connected(c) ==
    \/ conns[c] = "open" /\ UNCHANGED conns
    \/ conns[c] = "unused" /\ conns' = [conns EXCEPT ![c] = "open"]

\* A synchronous request finds the proxy that is tracked.
SyncShared(r, k) ==
    /\ Unused(r) /\ slot[k] # None /\ k # "reauth"
    /\ kind' = [kind EXCEPT ![r] = k]
    /\ phase' = [phase EXCEPT ![r] = "finished"]
    /\ answers' = [answers EXCEPT ![r] = @ + 1]
    /\ got' = [got EXCEPT ![r] = slot[k]]
    /\ UNCHANGED <<alive, enabled, slot, handlers, conns, conn, table, creating, data,
                   corrupt>>

\* It gets no connection.
SyncFailed(r, k) ==
    /\ Unused(r)
    /\ kind' = [kind EXCEPT ![r] = k]
    /\ phase' = [phase EXCEPT ![r] = "finished"]
    /\ answers' = [answers EXCEPT ![r] = @ + 1]
    /\ UNCHANGED <<alive, enabled, slot, handlers, conns, conn, table, creating, data,
                   got, corrupt>>

\* It gets a connection and no proxy.
SyncNoProxy(r, k, c) ==
    /\ Unused(r)
    /\ k # "reauth" => slot[k] = None
    /\ kind' = [kind EXCEPT ![r] = k]
    /\ phase' = [phase EXCEPT ![r] = "finished"]
    /\ answers' = [answers EXCEPT ![r] = @ + 1]
    /\ Connected(c)
    /\ Track(k, None, c)
    /\ UNCHANGED <<alive, enabled, conn, table, creating, data, got, corrupt>>

\* It makes a proxy.
SyncMade(r, k, c, t) ==
    /\ Unused(r)
    /\ k # "reauth" => slot[k] = None
    /\ t \in [Supported -> {"absent", "proxy"}]
    /\ kind' = [kind EXCEPT ![r] = k]
    /\ phase' = [phase EXCEPT ![r] = "finished"]
    /\ answers' = [answers EXCEPT ![r] = @ + 1]
    /\ got' = [got EXCEPT ![r] = r]
    /\ conn' = [conn EXCEPT ![r] = c]
    /\ table' = [table EXCEPT ![r] = t]
    /\ Connected(c)
    /\ Track(k, r, c)
    /\ UNCHANGED <<alive, enabled, creating, data, corrupt>>

\* An asynchronous request finds the proxy that is tracked.
AsyncShared(r, k) ==
    /\ Unused(r) /\ slot[k] # None /\ k # "reauth"
    /\ kind' = [kind EXCEPT ![r] = k]
    /\ phase' = [phase EXCEPT ![r] = "returned"]
    /\ answers' = [answers EXCEPT ![r] = @ + 1]
    /\ got' = [got EXCEPT ![r] = slot[k]]
    /\ UNCHANGED <<alive, enabled, slot, handlers, conns, conn, table, creating, data,
                   corrupt>>

\* It begins without a connection.
Begins(r, k, p) ==
    /\ Unused(r) /\ p \in {"unconnected", "manager"}
    /\ kind' = [kind EXCEPT ![r] = k]
    /\ phase' = [phase EXCEPT ![r] = p]
    /\ UNCHANGED <<alive, enabled, slot, handlers, conns, conn, table, creating, data,
                   answers, got, corrupt>>

\* It begins with one.
BeginsConnected(r, k, c) ==
    /\ Unused(r)
    /\ kind' = [kind EXCEPT ![r] = k]
    /\ phase' = [phase EXCEPT ![r] = "connected"]
    /\ conn' = [conn EXCEPT ![r] = c]
    /\ Connected(c)
    /\ UNCHANGED <<alive, enabled, slot, handlers, table, creating, data, answers,
                   got, corrupt>>

\* Its task returns an error.
Fails(r) ==
    /\ phase[r] \in {"unconnected", "manager", "channel", "proxy"}
    /\ phase' = [phase EXCEPT ![r] = "returned"]
    /\ answers' = [answers EXCEPT ![r] = @ + 1]
    /\ got' = [got EXCEPT ![r] = None]
    /\ UNCHANGED <<alive, enabled, slot, handlers, conns, kind, conn, table, creating,
                   data, corrupt>>

\* It goes on to its next call.
Moves(r, p) ==
    /\ \/ phase[r] = "connected" /\ p = "proxy"
       \/ phase[r] = "manager" /\ p = "channel"
    /\ phase' = [phase EXCEPT ![r] = p]
    /\ UNCHANGED <<alive, enabled, slot, handlers, conns, kind, conn, table, creating,
                   data, answers, got, corrupt>>

\* The channel for reauthentication is connected.
ChannelConnects(r, c) ==
    /\ phase[r] = "channel"
    /\ phase' = [phase EXCEPT ![r] = "proxy"]
    /\ conn' = [conn EXCEPT ![r] = c]
    /\ Connected(c)
    /\ UNCHANGED <<alive, enabled, slot, handlers, kind, table, creating, data,
                   answers, got, corrupt>>

\* Its task returns the proxy it made.
ReturnsProxy(r) ==
    /\ phase[r] = "proxy"
    /\ phase' = [phase EXCEPT ![r] = "returned"]
    /\ answers' = [answers EXCEPT ![r] = @ + 1]
    /\ got' = [got EXCEPT ![r] = r]
    /\ UNCHANGED <<alive, enabled, slot, handlers, conns, kind, conn, table, creating,
                   data, corrupt>>

\* EnableExtensions is called on that proxy first.
Enables(r) ==
    /\ phase[r] = "proxy" /\ enabled # None
    /\ phase' = [phase EXCEPT ![r] = "enabling"]
    /\ data' = [data EXCEPT ![r] = "live"]
    /\ UNCHANGED <<alive, enabled, slot, handlers, conns, kind, conn, table, creating,
                   answers, got, corrupt>>

\* The extensions cannot be enabled.
NotEnabled(r) ==
    /\ phase[r] = "enabling"
    /\ Touch(r)
    /\ phase' = [phase EXCEPT ![r] = "returned"]
    /\ answers' = [answers EXCEPT ![r] = @ + 1]
    /\ got' = [got EXCEPT ![r] = r]
    /\ data' = [data EXCEPT ![r] = "freed"]
    /\ UNCHANGED <<alive, enabled, slot, handlers, conns, kind, conn, table,
                   creating>>

\* None of the enabled extensions is supported.
NothingToExtend(r) ==
    /\ phase[r] = "enabling"
    /\ Touch(r)
    /\ phase' = [phase EXCEPT ![r] = "returned"]
    /\ answers' = [answers EXCEPT ![r] = @ + 1]
    /\ got' = [got EXCEPT ![r] = r]
    /\ data' = [data EXCEPT ![r] = "freed"]
    /\ table' = [table EXCEPT ![r] = NoTable]
    /\ creating' = [creating EXCEPT ![r] = {}]
    /\ UNCHANGED <<alive, enabled, slot, handlers, conns, kind, conn>>

\* Proxies of the extensions es are to be made.
Extends(r, es) ==
    /\ phase[r] = "enabling" /\ es \in SUBSET Supported /\ es # {}
    /\ Touch(r)
    /\ phase' = [phase EXCEPT ![r] = "extending"]
    /\ creating' = [creating EXCEPT ![r] = es]
    /\ table' = [table EXCEPT ![r] = [e \in Supported |-> IF e \in es THEN "null" ELSE "absent"]]
    /\ UNCHANGED <<alive, enabled, slot, handlers, conns, kind, conn, data, answers,
                   got>>

\* One of them is there, or has failed; others are still to come.
ExtensionMade(r, e, m) ==
    /\ e \in creating[r] /\ m \in {"proxy", "absent"}
    /\ \E x \in Supported \ {e} : table[r][x] = "null"
    /\ Touch(r)
    /\ creating' = [creating EXCEPT ![r] = @ \ {e}]
    /\ table' = [table EXCEPT ![r][e] = m]
    /\ UNCHANGED <<alive, enabled, slot, handlers, conns, kind, phase, conn, data,
                   answers, got>>

\* The last of them is there, or has failed.
LastExtensionMade(r, e, m) ==
    /\ e \in creating[r] /\ m \in {"proxy", "absent"}
    /\ \A x \in Supported \ {e} : table[r][x] # "null"
    /\ Touch(r)
    /\ creating' = [creating EXCEPT ![r] = @ \ {e}]
    /\ table' = [table EXCEPT ![r][e] = m]
    /\ phase' = [phase EXCEPT ![r] = "returned"]
    /\ answers' = [answers EXCEPT ![r] = @ + 1]
    /\ got' = [got EXCEPT ![r] = r]
    /\ data' = [data EXCEPT ![r] = "freed"]
    /\ UNCHANGED <<alive, enabled, slot, handlers, conns, kind, conn>>

\* A request finishes with the proxy that is tracked by now.
FinishShared(r) ==
    /\ phase[r] = "returned" /\ kind[r] # "reauth" /\ slot[kind[r]] # None
    /\ phase' = [phase EXCEPT ![r] = "finished"]
    /\ got' = [got EXCEPT ![r] = slot[kind[r]]]
    /\ UNCHANGED <<alive, enabled, slot, handlers, conns, kind, conn, table, creating,
                   data, answers, corrupt>>

\* It finishes with its own proxy, which is tracked from now on.
FinishTracks(r) ==
    /\ phase[r] = "returned" /\ got[r] # None
    /\ kind[r] # "reauth" => slot[kind[r]] = None
    /\ phase' = [phase EXCEPT ![r] = "finished"]
    /\ Track(kind[r], got[r], conn[got[r]])
    /\ UNCHANGED <<alive, enabled, conns, kind, conn, table, creating, data, answers,
                   got, corrupt>>

\* It finishes with an error.
FinishWithout(r) ==
    /\ phase[r] = "returned" /\ got[r] = None
    /\ kind[r] # "reauth" /\ slot[kind[r]] = None
    /\ phase' = [phase EXCEPT ![r] = "finished"]
    /\ UNCHANGED <<alive, enabled, slot, handlers, conns, kind, conn, table, creating,
                   data, answers, got, corrupt>>

\* An error drops the channel for reauthentication.
FinishUntracks(r) ==
    /\ phase[r] = "returned" /\ got[r] = None /\ kind[r] = "reauth"
    /\ phase' = [phase EXCEPT ![r] = "finished"]
    /\ Track("reauth", None, None)
    /\ UNCHANGED <<alive, enabled, conns, kind, conn, table, creating, data, answers,
                   got, corrupt>>

\* The ways a request r can go on.
RequestStep(r) ==
    \/ \E k \in Kinds : SyncShared(r, k)
    \/ \E k \in Kinds : SyncFailed(r, k)
    \/ \E k \in Kinds, c \in Connections : SyncNoProxy(r, k, c)
    \/ \E k \in Kinds, c \in Connections, t \in [Supported -> {"absent", "proxy"}] : SyncMade(r, k, c, t)
    \/ \E k \in Kinds : AsyncShared(r, k)
    \/ \E k \in Kinds, p \in {"unconnected", "manager", "proxy", "channel"} : Begins(r, k, p)
    \/ \E k \in Kinds, c \in Connections : BeginsConnected(r, k, c)
    \/ Fails(r)
    \/ \E p \in {"unconnected", "manager", "proxy", "channel"} : Moves(r, p)
    \/ \E c \in Connections : ChannelConnects(r, c)
    \/ ReturnsProxy(r)
    \/ Enables(r)
    \/ NotEnabled(r)
    \/ NothingToExtend(r)
    \/ \E es \in SUBSET Supported : Extends(r, es)
    \/ \E e \in Supported, m \in {"proxy", "absent"} : ExtensionMade(r, e, m)
    \/ \E e \in Supported, m \in {"proxy", "absent"} : LastExtensionMade(r, e, m)
    \/ FinishShared(r)
    \/ FinishTracks(r)
    \/ FinishWithout(r)
    \/ FinishUntracks(r)

\* What the client gets as a connection is open, or new.
LEMMA ConnectionIsOpen ==
    ASSUME TypeOK, ProxyInv, NEW c \in Connections, GetConnection(c) PROVE Connected(c)
BY DEF GetConnection, OpenConnection, Connected, TypeOK, Kinds

\* Synchronous requests.
LEMMA SyncCases ==
    ASSUME TypeOK, ClientInv, NEW r \in Requests,
           GetUserVerifierSync(r) \/ GetGreeterSync(r) \/ OpenReauthSync(r)
    PROVE  RequestStep(r)
<1>1. ASSUME NEW k \in {"verifier", "greeter"}, GetSync(r, k) PROVE RequestStep(r)
  <2>0. k \in Kinds /\ k # "reauth"
    BY DEF Kinds
  <2>1. CASE slot[k] # None
    <3>1. SyncShared(r, k)
      BY <1>1, <2>0, <2>1 DEF GetSync, SyncShared, SyncDone, trackVars
    <3> QED BY <2>0, <3>1, Zenon DEF RequestStep
  <2>2. CASE SyncFailed(r, k)
    BY <2>0, <2>2, Zenon DEF RequestStep
  <2>3. ASSUME NEW c \in Connections, GetConnection(c), slot[k] = None, Track(k, None, c),
               UNCHANGED <<conn, table, got>>
        PROVE  RequestStep(r)
    <3>1. SyncNoProxy(r, k, c)
      BY <1>1, <2>0, <2>3, ConnectionIsOpen DEF GetSync, SyncNoProxy, SyncDone, ClientInv
    <3> QED BY <2>0, <3>1, Zenon DEF RequestStep
  <2>4. ASSUME NEW c \in Connections, GetConnection(c), slot[k] = None, Track(k, r, c),
               conn' = [conn EXCEPT ![r] = c], got' = [got EXCEPT ![r] = r],
               NEW t \in IF k = "verifier" THEN SyncTables ELSE {NoTable},
               table' = [table EXCEPT ![r] = t]
        PROVE  RequestStep(r)
    <3>1. t \in [Supported -> {"absent", "proxy"}]
      BY <2>4 DEF SyncTables, NoTable
    <3>2. SyncMade(r, k, c, t)
      BY <1>1, <2>0, <2>4, <3>1, ConnectionIsOpen DEF GetSync, SyncMade, SyncDone, ClientInv
    <3> QED BY <2>0, <3>1, <3>2, Zenon DEF RequestStep
  <2>5. CASE slot[k] = None /\ UNCHANGED <<trackVars, conns, conn, table, got>>
    <3>1. SyncFailed(r, k)
      BY <1>1, <2>5 DEF GetSync, SyncFailed, SyncDone, trackVars
    <3> QED BY <2>2, <3>1
  <2> QED BY <1>1, <2>1, <2>3, <2>4, <2>5, Zenon DEF GetSync
<1>2. ASSUME OpenReauthSync(r) PROVE RequestStep(r)
  <2>0. "reauth" \in Kinds /\ NoTable \in [Supported -> {"absent", "proxy"}]
    BY DEF Kinds, NoTable
  <2>1. CASE UNCHANGED <<trackVars, conns, conn, got>>
    <3>1. SyncFailed(r, "reauth")
      BY <1>2, <2>1 DEF OpenReauthSync, SyncFailed, SyncDone, trackVars
    <3> QED BY <2>0, <3>1, Zenon DEF RequestStep
  <2>2. ASSUME NEW c \in Connections, conns[c] = "unused", conns' = [conns EXCEPT ![c] = "open"],
               Track("reauth", None, c), UNCHANGED <<conn, got>>
        PROVE  RequestStep(r)
    <3>1. SyncNoProxy(r, "reauth", c)
      BY <1>2, <2>2 DEF OpenReauthSync, SyncNoProxy, SyncDone, Connected
    <3> QED BY <2>0, <3>1, Zenon DEF RequestStep
  <2>3. ASSUME NEW c \in Connections, conns[c] = "unused", conns' = [conns EXCEPT ![c] = "open"],
               Track("reauth", r, c), conn' = [conn EXCEPT ![r] = c], got' = [got EXCEPT ![r] = r]
        PROVE  RequestStep(r)
    <3>1. table' = table /\ table \in [Requests -> [Supported -> {"absent", "null", "proxy"}]]
      BY <1>2 DEF OpenReauthSync, TypeOK
    <3>2. \A e \in Supported : table[r][e] # "null"
      BY <1>2 DEF OpenReauthSync, Unused, ClientInv, RequestInv
    <3>3. table[r] \in [Supported -> {"absent", "proxy"}] /\ table' = [table EXCEPT ![r] = table[r]]
      BY <3>1, <3>2
    <3>4. SyncMade(r, "reauth", c, table[r])
      BY <1>2, <2>3, <3>3 DEF OpenReauthSync, SyncMade, SyncDone, Connected
    <3> QED BY <2>0, <3>3, <3>4, Zenon DEF RequestStep
  <2> QED BY <1>2, <2>1, <2>2, <2>3, Zenon DEF OpenReauthSync
<1> QED BY <1>1, <1>2 DEF GetUserVerifierSync, GetGreeterSync

\* Asynchronous requests, up to the proxy.
LEMMA AsyncCases ==
    ASSUME TypeOK, ClientInv, NEW r \in Requests,
           \/ GetUserVerifier(r) \/ GetGreeter(r) \/ OpenReauth(r)
           \/ OnConnectionForUserVerifier(r) \/ OnConnectionForGreeter(r)
           \/ OnGotManager(r) \/ OnReauthenticationChannel(r)
           \/ OnGreeterProxyCreated(r) \/ OnUserVerifierProxyCreated(r)
    PROVE  RequestStep(r)
<1>1. ASSUME NEW k \in {"verifier", "greeter"}, GetAsync(r, k) PROVE RequestStep(r)
  <2>0. k \in Kinds /\ k # "reauth"
    BY DEF Kinds
  <2>1. CASE slot[k] # None
    <3>1. AsyncShared(r, k)
      BY <1>1, <2>0, <2>1 DEF GetAsync, AsyncShared, Return, trackVars
    <3> QED BY <2>0, <3>1, Zenon DEF RequestStep
  <2>2. CASE Advance(r, "unconnected") /\ UNCHANGED <<conns, conn>>
    <3>1. Begins(r, k, "unconnected")
      BY <1>1, <2>2 DEF GetAsync, Begins, Advance, trackVars
    <3> QED BY <2>0, <3>1 DEF RequestStep
  <2>3. ASSUME NEW c \in Connections, GetConnection(c), conn' = [conn EXCEPT ![r] = c],
               Advance(r, "connected")
        PROVE  RequestStep(r)
    <3>1. BeginsConnected(r, k, c)
      BY <1>1, <2>3, ConnectionIsOpen DEF GetAsync, BeginsConnected, Advance, trackVars, ClientInv
    <3> QED BY <2>0, <3>1, Zenon DEF RequestStep
  <2> QED BY <1>1, <2>1, <2>2, <2>3, Zenon DEF GetAsync
<1>2. ASSUME OpenReauth(r) PROVE RequestStep(r)
  <2>1. Begins(r, "reauth", "manager")
    BY <1>2 DEF OpenReauth, Begins, Advance, trackVars
  <2> QED BY <2>1 DEF RequestStep, Kinds
<1>3. ASSUME NEW k, OnConnection(r, k) PROVE RequestStep(r)
  <2>1. Fails(r) \/ Moves(r, "proxy")
    BY <1>3 DEF OnConnection, Fails, Moves, Return, Advance, trackVars
  <2> QED BY <2>1 DEF RequestStep
<1>4. ASSUME OnGotManager(r) PROVE RequestStep(r)
  <2>1. Fails(r) \/ Moves(r, "channel")
    BY <1>4 DEF OnGotManager, Fails, Moves, Return, Advance, trackVars
  <2> QED BY <2>1 DEF RequestStep
<1>5. ASSUME OnReauthenticationChannel(r) PROVE RequestStep(r)
  <2>1. CASE Return(r, None) /\ UNCHANGED <<conns, conn>>
    <3>1. Fails(r)
      BY <1>5, <2>1 DEF OnReauthenticationChannel, Fails, Return, trackVars
    <3> QED BY <3>1 DEF RequestStep
  <2>2. ASSUME NEW c \in Connections, conns[c] = "unused", conns' = [conns EXCEPT ![c] = "open"],
               conn' = [conn EXCEPT ![r] = c], Advance(r, "proxy")
        PROVE  RequestStep(r)
    <3>1. ChannelConnects(r, c)
      BY <1>5, <2>2 DEF OnReauthenticationChannel, ChannelConnects, Connected, Advance, trackVars
    <3> QED BY <3>1, Zenon DEF RequestStep
  <2> QED BY <1>5, <2>1, <2>2, Zenon DEF OnReauthenticationChannel
<1>6. ASSUME OnGreeterProxyCreated(r) PROVE RequestStep(r)
  <2>1. Fails(r) \/ ReturnsProxy(r)
    BY <1>6 DEF OnGreeterProxyCreated, Fails, ReturnsProxy, Return, trackVars
  <2> QED BY <2>1 DEF RequestStep
<1>7. ASSUME OnUserVerifierProxyCreated(r) PROVE RequestStep(r)
  <2>1. Fails(r) \/ ReturnsProxy(r) \/ Enables(r)
    BY <1>7 DEF OnUserVerifierProxyCreated, Fails, ReturnsProxy, Enables, Return, Advance, trackVars
  <2> QED BY <2>1 DEF RequestStep
<1> QED BY <1>1, <1>2, <1>3, <1>4, <1>5, <1>6, <1>7, Zenon DEF GetUserVerifier, GetGreeter,
       OnConnectionForUserVerifier, OnConnectionForGreeter

\* The extensions of a proxy.
LEMMA ExtensionCases ==
    ASSUME TypeOK, ClientInv, NEW r \in Requests,
           OnExtensionsEnabled(r) \/ \E e \in Supported : OnExtensionProxyCreated(r, e)
    PROVE  RequestStep(r)
<1>1. ASSUME OnExtensionsEnabled(r) PROVE RequestStep(r)
  <2> DEFINE es == enabled \cap Supported
             tb == [e \in Supported |-> IF e \in es THEN "null" ELSE "absent"]
  <2>1. CASE Complete(r) /\ UNCHANGED <<table, creating>>
    <3>1. NotEnabled(r)
      BY <1>1, <2>1 DEF OnExtensionsEnabled, NotEnabled, Complete, Return, trackVars
    <3> QED BY <3>1 DEF RequestStep
  <2>2. CASE /\ table' = [table EXCEPT ![r] = tb] /\ creating' = [creating EXCEPT ![r] = es]
             /\ es = {} /\ Complete(r)
    <3>1. tb = NoTable
      BY <2>2 DEF NoTable
    <3>2. NothingToExtend(r)
      BY <1>1, <2>2, <3>1 DEF OnExtensionsEnabled, NothingToExtend, Complete, Return, trackVars
    <3> QED BY <3>2 DEF RequestStep
  <2>3. CASE /\ table' = [table EXCEPT ![r] = tb] /\ creating' = [creating EXCEPT ![r] = es]
             /\ es # {} /\ Advance(r, "extending") /\ UNCHANGED data
    <3>1. es \in SUBSET Supported
      OBVIOUS
    <3> HIDE DEF es
    <3>2. Extends(r, es)
      BY <1>1, <2>3, <3>1 DEF OnExtensionsEnabled, Extends, Advance, trackVars
    <3> QED BY <3>1, <3>2, Zenon DEF RequestStep
  <2> QED BY <1>1, <2>1, <2>2, <2>3 DEF OnExtensionsEnabled
<1>2. ASSUME NEW e \in Supported, NEW m \in {"proxy", "absent"}, OnExtensionProxyCreated(r, e),
             table' = [table EXCEPT ![r][e] = m]
      PROVE  RequestStep(r)
  <2>1. \A x \in Supported : table'[r][x] = IF x = e THEN m ELSE table[r][x]
    BY <1>2 DEF TypeOK
  <2>2. CASE \E x \in Supported : table'[r][x] = "null"
    <3>1. \E x \in Supported \ {e} : table[r][x] = "null"
      BY <2>1, <2>2
    <3>2. ExtensionMade(r, e, m)
      BY <1>2, <2>2, <3>1 DEF OnExtensionProxyCreated, ExtensionMade, MaybeComplete, trackVars
    <3> QED BY <3>2, Zenon DEF RequestStep
  <2>3. CASE ~ \E x \in Supported : table'[r][x] = "null"
    <3>1. \A x \in Supported \ {e} : table[r][x] # "null"
      BY <2>1, <2>3
    <3>2. LastExtensionMade(r, e, m)
      BY <1>2, <2>3, <3>1 DEF OnExtensionProxyCreated, LastExtensionMade, MaybeComplete, Complete,
         Return, trackVars
    <3> QED BY <3>2, Zenon DEF RequestStep
  <2> QED BY <2>2, <2>3
<1> QED BY <1>1, <1>2, Zenon DEF OnExtensionProxyCreated

\* The finish functions.
LEMMA FinishCases ==
    ASSUME TypeOK, ClientInv, NEW r \in Requests, Finish(r) PROVE RequestStep(r)
<1>1. CASE kind[r] = "reauth" /\ got[r] = None
  <2>1. FinishUntracks(r)
    BY <1>1 DEF Finish, FinishReauth, FinishUntracks
  <2> QED BY <2>1 DEF RequestStep
<1>2. CASE kind[r] = "reauth" /\ got[r] # None
  <2>1. FinishTracks(r)
    BY <1>2 DEF Finish, FinishReauth, FinishTracks
  <2> QED BY <2>1 DEF RequestStep
<1>3. CASE kind[r] # "reauth" /\ slot[kind[r]] # None
  <2>1. FinishShared(r)
    BY <1>3 DEF Finish, FinishGet, FinishShared, trackVars
  <2> QED BY <2>1 DEF RequestStep
<1>4. CASE kind[r] # "reauth" /\ slot[kind[r]] = None
  <2>1. FinishTracks(r) \/ FinishWithout(r)
    BY <1>4 DEF Finish, FinishGet, FinishTracks, FinishWithout, trackVars
  <2> QED BY <2>1 DEF RequestStep
<1> QED BY <1>1, <1>2, <1>3, <1>4

\* Every step is one of the cases, or none of a request's.
LEMMA StepCases ==
    ASSUME TypeOK, ClientInv, [Next]_vars
    PROVE  \/ \E r \in Requests : RequestStep(r)
           \/ \E names \in Lists : SetEnabledExtensions(names)
           \/ Dispose
           \/ \E c \in Connections : ConnectionCloses(c)
           \/ \E c \in Connections : ClosedSignal(c)
           \/ UNCHANGED vars
BY SyncCases, AsyncCases, ExtensionCases, FinishCases, Zenon DEF Next, AsyncStep

-----------------------------------------------------------------------------
\* Every step keeps the types.
LEMMA NextTypeOK ==
    ASSUME TypeOK, ClientInv, [Next]_vars PROVE TypeOK'
<1> USE ClientAssumptions DEF TypeOK
<1>0. \A ks : Untracked(ks) \subseteq handlers
  BY DEF Untracked
<1> USE <1>0
<1>1. ASSUME NEW r \in Requests, NEW k \in Kinds, SyncShared(r, k) PROVE TypeOK'
  BY <1>1 DEF SyncShared, Unused
<1>2. ASSUME NEW r \in Requests, NEW k \in Kinds, SyncFailed(r, k) PROVE TypeOK'
  BY <1>2 DEF SyncFailed, Unused
<1>3. ASSUME NEW r \in Requests, NEW k \in Kinds, NEW c \in Connections, SyncNoProxy(r, k,
          c) PROVE TypeOK'
  BY <1>3 DEF SyncNoProxy, Unused, Connected, Track
<1>4. ASSUME NEW r \in Requests, NEW k \in Kinds, NEW c \in Connections, NEW t \in
          [Supported -> {"absent", "proxy"}], SyncMade(r, k, c, t) PROVE TypeOK'
  BY <1>4 DEF SyncMade, Unused, Connected, Track
<1>5. ASSUME NEW r \in Requests, NEW k \in Kinds, AsyncShared(r, k) PROVE TypeOK'
  BY <1>5 DEF AsyncShared, Unused
<1>6. ASSUME NEW r \in Requests, NEW k \in Kinds, NEW p \in {"unconnected", "manager",
          "proxy", "channel"}, Begins(r, k, p) PROVE TypeOK'
  BY <1>6 DEF Begins, Unused
<1>7. ASSUME NEW r \in Requests, NEW k \in Kinds, NEW c \in Connections, BeginsConnected(r,
          k, c) PROVE TypeOK'
  BY <1>7 DEF BeginsConnected, Unused, Connected
<1>8. ASSUME NEW r \in Requests, Fails(r) PROVE TypeOK'
  BY <1>8 DEF Fails
<1>9. ASSUME NEW r \in Requests, NEW p \in {"unconnected", "manager", "proxy", "channel"},
          Moves(r, p) PROVE TypeOK'
  BY <1>9 DEF Moves
<1>10. ASSUME NEW r \in Requests, NEW c \in Connections, ChannelConnects(r, c) PROVE TypeOK'
  BY <1>10 DEF ChannelConnects, Connected
<1>11. ASSUME NEW r \in Requests, ReturnsProxy(r) PROVE TypeOK'
  BY <1>11 DEF ReturnsProxy
<1>12. ASSUME NEW r \in Requests, Enables(r) PROVE TypeOK'
  BY <1>12 DEF Enables
<1>13. ASSUME NEW r \in Requests, NotEnabled(r) PROVE TypeOK'
  BY <1>13 DEF NotEnabled, Touch
<1>14. ASSUME NEW r \in Requests, NothingToExtend(r) PROVE TypeOK'
  BY <1>14 DEF NothingToExtend, Touch, NoTable
<1>15. ASSUME NEW r \in Requests, NEW es \in SUBSET Supported, Extends(r, es) PROVE TypeOK'
  BY <1>15 DEF Extends, Touch
<1>16. ASSUME NEW r \in Requests, NEW e \in Supported, NEW m \in {"proxy", "absent"},
          ExtensionMade(r, e, m) PROVE TypeOK'
  BY <1>16 DEF ExtensionMade, Touch
<1>17. ASSUME NEW r \in Requests, NEW e \in Supported, NEW m \in {"proxy", "absent"},
          LastExtensionMade(r, e, m) PROVE TypeOK'
  BY <1>17 DEF LastExtensionMade, Touch
<1>18. ASSUME NEW r \in Requests, FinishShared(r) PROVE TypeOK'
  BY <1>18 DEF FinishShared, ClientInv, RequestInv
<1>19. ASSUME NEW r \in Requests, FinishTracks(r) PROVE TypeOK'
  BY <1>19 DEF FinishTracks, Track, ClientInv, ProxyInv, RequestInv, IsProxy
<1>20. ASSUME NEW r \in Requests, FinishWithout(r) PROVE TypeOK'
  BY <1>20 DEF FinishWithout
<1>21. ASSUME NEW r \in Requests, FinishUntracks(r) PROVE TypeOK'
  BY <1>21 DEF FinishUntracks, Track
<1>22. ASSUME NEW names \in Lists, SetEnabledExtensions(names) PROVE TypeOK'
  BY <1>22 DEF SetEnabledExtensions, trackVars, requestVars
<1>23. CASE Dispose
  BY <1>23 DEF Dispose, trackVars, requestVars
<1>24. ASSUME NEW c \in Connections, ConnectionCloses(c) PROVE TypeOK'
  BY <1>24 DEF ConnectionCloses, trackVars, requestVars
<1>25. ASSUME NEW c \in Connections, ClosedSignal(c) PROVE TypeOK'
  BY <1>25 DEF ClosedSignal, trackVars, requestVars
<1>26. CASE UNCHANGED vars
  BY <1>26 DEF vars, trackVars, requestVars
<1> HIDE <1>0 DEF TypeOK
<1>27. ASSUME NEW r \in Requests, RequestStep(r) PROVE TypeOK'
  BY <1>27, <1>1, <1>2, <1>3, <1>4, <1>5, <1>6, <1>7, <1>8, <1>9, <1>10, <1>11, <1>12, <1>13,
     <1>14, <1>15, <1>16, <1>17, <1>18, <1>19, <1>20, <1>21, Zenon DEF RequestStep
<1> QED BY <1>22, <1>23, <1>24, <1>25, <1>26, <1>27, StepCases, Zenon

\* Every step keeps what each request knows of its task, its data and its extensions.
LEMMA NextRequestInv ==
    ASSUME TypeOK, ClientInv, [Next]_vars PROVE RequestInv'
<1> USE DEF TypeOK, RequestInv, Done
<1>0. RequestInv
  BY DEF ClientInv
<1> USE <1>0
<1>1. ASSUME NEW r \in Requests, NEW k \in Kinds, SyncShared(r, k) PROVE RequestInv'
  BY <1>1 DEF SyncShared, Unused
<1>2. ASSUME NEW r \in Requests, NEW k \in Kinds, SyncFailed(r, k) PROVE RequestInv'
  BY <1>2 DEF SyncFailed, Unused
<1>3. ASSUME NEW r \in Requests, NEW k \in Kinds, NEW c \in Connections, SyncNoProxy(r, k,
          c) PROVE RequestInv'
  BY <1>3 DEF SyncNoProxy, Unused, Connected, Track
<1>4. ASSUME NEW r \in Requests, NEW k \in Kinds, NEW c \in Connections, NEW t \in
          [Supported -> {"absent", "proxy"}], SyncMade(r, k, c, t) PROVE RequestInv'
  BY <1>4 DEF SyncMade, Unused, Connected, Track
<1>5. ASSUME NEW r \in Requests, NEW k \in Kinds, AsyncShared(r, k) PROVE RequestInv'
  BY <1>5 DEF AsyncShared, Unused
<1>6. ASSUME NEW r \in Requests, NEW k \in Kinds, NEW p \in {"unconnected", "manager",
          "proxy", "channel"}, Begins(r, k, p) PROVE RequestInv'
  BY <1>6 DEF Begins, Unused
<1>7. ASSUME NEW r \in Requests, NEW k \in Kinds, NEW c \in Connections, BeginsConnected(r,
          k, c) PROVE RequestInv'
  BY <1>7 DEF BeginsConnected, Unused, Connected
<1>8. ASSUME NEW r \in Requests, Fails(r) PROVE RequestInv'
  BY <1>8 DEF Fails
<1>9. ASSUME NEW r \in Requests, NEW p \in {"unconnected", "manager", "proxy", "channel"},
          Moves(r, p) PROVE RequestInv'
  BY <1>9 DEF Moves
<1>10. ASSUME NEW r \in Requests, NEW c \in Connections, ChannelConnects(r, c) PROVE
          RequestInv'
  BY <1>10 DEF ChannelConnects, Connected
<1>11. ASSUME NEW r \in Requests, ReturnsProxy(r) PROVE RequestInv'
  BY <1>11 DEF ReturnsProxy
<1>12. ASSUME NEW r \in Requests, Enables(r) PROVE RequestInv'
  BY <1>12 DEF Enables
<1>13. ASSUME NEW r \in Requests, NotEnabled(r) PROVE RequestInv'
  BY <1>13 DEF NotEnabled, Touch
<1>14. ASSUME NEW r \in Requests, NothingToExtend(r) PROVE RequestInv'
  BY <1>14 DEF NothingToExtend, Touch, NoTable
<1>15. ASSUME NEW r \in Requests, NEW es \in SUBSET Supported, Extends(r, es) PROVE
          RequestInv'
  BY <1>15 DEF Extends, Touch
<1>16. ASSUME NEW r \in Requests, NEW e \in Supported, NEW m \in {"proxy", "absent"},
          ExtensionMade(r, e, m) PROVE RequestInv'
  BY <1>16 DEF ExtensionMade, Touch
<1>17. ASSUME NEW r \in Requests, NEW e \in Supported, NEW m \in {"proxy", "absent"},
          LastExtensionMade(r, e, m) PROVE RequestInv'
  BY <1>17 DEF LastExtensionMade, Touch
<1>18. ASSUME NEW r \in Requests, FinishShared(r) PROVE RequestInv'
  BY <1>18 DEF FinishShared
<1>19. ASSUME NEW r \in Requests, FinishTracks(r) PROVE RequestInv'
  BY <1>19 DEF FinishTracks, Track
<1>20. ASSUME NEW r \in Requests, FinishWithout(r) PROVE RequestInv'
  BY <1>20 DEF FinishWithout
<1>21. ASSUME NEW r \in Requests, FinishUntracks(r) PROVE RequestInv'
  BY <1>21 DEF FinishUntracks, Track
<1>22. ASSUME NEW names \in Lists, SetEnabledExtensions(names) PROVE RequestInv'
  BY <1>22 DEF SetEnabledExtensions, trackVars, requestVars
<1>23. CASE Dispose
  BY <1>23 DEF Dispose, trackVars, requestVars
<1>24. ASSUME NEW c \in Connections, ConnectionCloses(c) PROVE RequestInv'
  BY <1>24 DEF ConnectionCloses, trackVars, requestVars
<1>25. ASSUME NEW c \in Connections, ClosedSignal(c) PROVE RequestInv'
  BY <1>25 DEF ClosedSignal, trackVars, requestVars
<1>26. CASE UNCHANGED vars
  BY <1>26 DEF vars, trackVars, requestVars
<1> HIDE DEF TypeOK, RequestInv, Done
<1>27. ASSUME NEW r \in Requests, RequestStep(r) PROVE RequestInv'
  BY <1>27, <1>1, <1>2, <1>3, <1>4, <1>5, <1>6, <1>7, <1>8, <1>9, <1>10, <1>11, <1>12, <1>13,
     <1>14, <1>15, <1>16, <1>17, <1>18, <1>19, <1>20, <1>21, Zenon DEF RequestStep
<1> QED BY <1>22, <1>23, <1>24, <1>25, <1>26, <1>27, StepCases, Zenon

\* What is handed out or tracked stays a complete proxy.
LEMMA NextProxyInv ==
    ASSUME TypeOK, ClientInv, [Next]_vars PROVE ProxyInv'
<1> USE ClientAssumptions DEF TypeOK, ProxyInv, IsProxy, Done, Kinds
<1>0. RequestInv /\ ProxyInv
  BY DEF ClientInv
<1> USE <1>0 DEF RequestInv
<1>1. ASSUME NEW r \in Requests, NEW k \in Kinds, SyncShared(r, k) PROVE ProxyInv'
  BY <1>1 DEF SyncShared, Unused
<1>2. ASSUME NEW r \in Requests, NEW k \in Kinds, SyncFailed(r, k) PROVE ProxyInv'
  BY <1>2 DEF SyncFailed, Unused
<1>3. ASSUME NEW r \in Requests, NEW k \in Kinds, NEW c \in Connections, SyncNoProxy(r, k,
          c) PROVE ProxyInv'
  BY <1>3 DEF SyncNoProxy, Unused, Connected, Track
<1>4. ASSUME NEW r \in Requests, NEW k \in Kinds, NEW c \in Connections, NEW t \in
          [Supported -> {"absent", "proxy"}], SyncMade(r, k, c, t) PROVE ProxyInv'
  BY <1>4 DEF SyncMade, Unused, Connected, Track
<1>5. ASSUME NEW r \in Requests, NEW k \in Kinds, AsyncShared(r, k) PROVE ProxyInv'
  BY <1>5 DEF AsyncShared, Unused
<1>6. ASSUME NEW r \in Requests, NEW k \in Kinds, NEW p \in {"unconnected", "manager",
          "proxy", "channel"}, Begins(r, k, p) PROVE ProxyInv'
  BY <1>6 DEF Begins, Unused
<1>7. ASSUME NEW r \in Requests, NEW k \in Kinds, NEW c \in Connections, BeginsConnected(r,
          k, c) PROVE ProxyInv'
  BY <1>7 DEF BeginsConnected, Unused, Connected
<1>8. ASSUME NEW r \in Requests, Fails(r) PROVE ProxyInv'
  BY <1>8 DEF Fails
<1>9. ASSUME NEW r \in Requests, NEW p \in {"unconnected", "manager", "proxy", "channel"},
          Moves(r, p) PROVE ProxyInv'
  BY <1>9 DEF Moves
<1>10. ASSUME NEW r \in Requests, NEW c \in Connections, ChannelConnects(r, c) PROVE
          ProxyInv'
  BY <1>10 DEF ChannelConnects, Connected
<1>11. ASSUME NEW r \in Requests, ReturnsProxy(r) PROVE ProxyInv'
  BY <1>11 DEF ReturnsProxy
<1>12. ASSUME NEW r \in Requests, Enables(r) PROVE ProxyInv'
  BY <1>12 DEF Enables
<1>13. ASSUME NEW r \in Requests, NotEnabled(r) PROVE ProxyInv'
  BY <1>13 DEF NotEnabled, Touch
<1>14. ASSUME NEW r \in Requests, NothingToExtend(r) PROVE ProxyInv'
  BY <1>14 DEF NothingToExtend, Touch, NoTable
<1>15. ASSUME NEW r \in Requests, NEW es \in SUBSET Supported, Extends(r, es) PROVE
          ProxyInv'
  BY <1>15 DEF Extends, Touch
<1>16. ASSUME NEW r \in Requests, NEW e \in Supported, NEW m \in {"proxy", "absent"},
          ExtensionMade(r, e, m) PROVE ProxyInv'
  BY <1>16 DEF ExtensionMade, Touch
<1>17. ASSUME NEW r \in Requests, NEW e \in Supported, NEW m \in {"proxy", "absent"},
          LastExtensionMade(r, e, m) PROVE ProxyInv'
  BY <1>17 DEF LastExtensionMade, Touch
<1>18. ASSUME NEW r \in Requests, FinishShared(r) PROVE ProxyInv'
  BY <1>18 DEF FinishShared
<1>19. ASSUME NEW r \in Requests, FinishTracks(r) PROVE ProxyInv'
  BY <1>19 DEF FinishTracks, Track
<1>20. ASSUME NEW r \in Requests, FinishWithout(r) PROVE ProxyInv'
  BY <1>20 DEF FinishWithout
<1>21. ASSUME NEW r \in Requests, FinishUntracks(r) PROVE ProxyInv'
  BY <1>21 DEF FinishUntracks, Track
<1>22. ASSUME NEW names \in Lists, SetEnabledExtensions(names) PROVE ProxyInv'
  BY <1>22 DEF SetEnabledExtensions, trackVars, requestVars
<1>23. CASE Dispose
  BY <1>23 DEF Dispose, trackVars, requestVars
<1>24. ASSUME NEW c \in Connections, ConnectionCloses(c) PROVE ProxyInv'
  BY <1>24 DEF ConnectionCloses, trackVars, requestVars
<1>25. ASSUME NEW c \in Connections, ClosedSignal(c) PROVE ProxyInv'
  BY <1>25 DEF ClosedSignal, trackVars, requestVars
<1>26. CASE UNCHANGED vars
  BY <1>26 DEF vars, trackVars, requestVars
<1> HIDE <1>0 DEF TypeOK, ProxyInv, IsProxy, Done, Kinds, RequestInv
<1>27. ASSUME NEW r \in Requests, RequestStep(r) PROVE ProxyInv'
  BY <1>27, <1>1, <1>2, <1>3, <1>4, <1>5, <1>6, <1>7, <1>8, <1>9, <1>10, <1>11, <1>12, <1>13,
     <1>14, <1>15, <1>16, <1>17, <1>18, <1>19, <1>20, <1>21, Zenon DEF RequestStep
<1> QED BY <1>22, <1>23, <1>24, <1>25, <1>26, <1>27, StepCases, Zenon

\* The handlers of kinds that are untracked go, and no other.
LEMMA UntrackedHandlers ==
    ASSUME TypeOK, ProxyInv, TrackInv, NEW ks \in SUBSET Kinds,
           NEW d \in Connections, NEW l \in Kinds
    PROVE  <<d, l>> \in Untracked(ks) <=> <<d, l>> \in handlers /\ l \notin ks
<1>1. ASSUME <<d, l>> \in handlers, l \in ks PROVE <<d, l>> \notin Untracked(ks)
  <2>1. slot[l] # None /\ conn[slot[l]] = d
    BY <1>1 DEF TrackInv
  <2> QED BY <1>1, <2>1 DEF Untracked
<1>2. ASSUME <<d, l>> \in handlers, l \notin ks PROVE <<d, l>> \in Untracked(ks)
  BY <1>2 DEF Untracked
<1>3. ASSUME <<d, l>> \in Untracked(ks) PROVE <<d, l>> \in handlers
  BY <1>3 DEF Untracked
<1> QED BY <1>1, <1>2, <1>3

\* A kind that is tracked anew has the handler on its new connection, the others keep theirs.
LEMMA TrackHandlers ==
    ASSUME TypeOK, ProxyInv, TrackInv, NEW k \in Kinds, NEW r, NEW c, Track(k, r, c),
           NEW d \in Connections, NEW l \in Kinds
    PROVE  /\ l = k => (<<d, l>> \in handlers' <=> r # None /\ c = d)
           /\ l # k => (<<d, l>> \in handlers' <=> <<d, l>> \in handlers)
           /\ l = k => slot'[l] = r
           /\ l # k => slot'[l] = slot[l]
<1>1. {k} \in SUBSET Kinds
  OBVIOUS
<1>2. <<d, l>> \in Untracked({k}) <=> <<d, l>> \in handlers /\ l \notin {k}
  BY <1>1, UntrackedHandlers
<1>3. slot' = [slot EXCEPT ![k] = r]
  BY DEF Track
<1>4. handlers' = Untracked({k}) \cup (IF r = None THEN {} ELSE {<<c, k>>})
  BY DEF Track
<1> QED BY <1>2, <1>3, <1>4 DEF TypeOK

\* The handlers follow the proxies.
LEMMA NextTrackInv ==
    ASSUME TypeOK, ClientInv, [Next]_vars PROVE TrackInv'
<1> USE ClientAssumptions DEF TrackInv
<1>0. TrackInv /\ ProxyInv
  BY DEF ClientInv
<1> USE <1>0
<1>1. ASSUME NEW r \in Requests, NEW k \in Kinds, SyncShared(r, k) PROVE TrackInv'
  BY <1>1 DEF SyncShared, Unused
<1>2. ASSUME NEW r \in Requests, NEW k \in Kinds, SyncFailed(r, k) PROVE TrackInv'
  BY <1>2 DEF SyncFailed, Unused
<1>3. ASSUME NEW r \in Requests, NEW k \in Kinds, NEW c \in Connections, SyncNoProxy(r, k,
          c) PROVE TrackInv'
  <2> SUFFICES ASSUME NEW d \in Connections, NEW l \in Kinds
               PROVE  (<<d, l>> \in handlers <=> slot[l] # None /\ conn[slot[l]] = d)'
    OBVIOUS
  <2>2. <<d, l>> \in handlers <=> slot[l] # None /\ conn[slot[l]] = d
    OBVIOUS
  <2>3. CASE l = k
    BY <1>3, <2>3, TrackHandlers DEF SyncNoProxy, ClientInv
  <2>4. CASE l # k
    BY <1>3, <2>2, <2>4, TrackHandlers DEF SyncNoProxy, ClientInv
  <2> QED BY <2>3, <2>4
<1>4. ASSUME NEW r \in Requests, NEW k \in Kinds, NEW c \in Connections, NEW t \in
          [Supported -> {"absent", "proxy"}], SyncMade(r, k, c, t) PROVE TrackInv'
  <2>1. \A q \in Kinds : slot[q] # None => conn'[slot[q]] = conn[slot[q]]
    BY <1>4 DEF SyncMade, Unused, TypeOK, ProxyInv, IsProxy, Done
  <2> SUFFICES ASSUME NEW d \in Connections, NEW l \in Kinds
               PROVE  (<<d, l>> \in handlers <=> slot[l] # None /\ conn[slot[l]] = d)'
    OBVIOUS
  <2>2. <<d, l>> \in handlers <=> slot[l] # None /\ conn[slot[l]] = d
    OBVIOUS
  <2>3. CASE l = k
    BY <1>4, <2>1, <2>3, TrackHandlers DEF SyncMade, TypeOK
  <2>4. CASE l # k
    BY <1>4, <2>1, <2>2, <2>4, TrackHandlers DEF SyncMade, TypeOK
  <2> QED BY <2>3, <2>4
<1>5. ASSUME NEW r \in Requests, NEW k \in Kinds, AsyncShared(r, k) PROVE TrackInv'
  BY <1>5 DEF AsyncShared, Unused
<1>6. ASSUME NEW r \in Requests, NEW k \in Kinds, NEW p \in {"unconnected", "manager",
          "proxy", "channel"}, Begins(r, k, p) PROVE TrackInv'
  BY <1>6 DEF Begins, Unused
<1>7. ASSUME NEW r \in Requests, NEW k \in Kinds, NEW c \in Connections, BeginsConnected(r,
          k, c) PROVE TrackInv'
  <2>1. \A q \in Kinds : slot[q] # None => conn'[slot[q]] = conn[slot[q]]
    BY <1>7 DEF BeginsConnected, Unused, Connected, TypeOK, ProxyInv, IsProxy, Done
  <2>2. UNCHANGED <<slot, handlers>>
    BY <1>7 DEF BeginsConnected, Unused, Connected
  <2> QED BY <2>1, <2>2
<1>8. ASSUME NEW r \in Requests, Fails(r) PROVE TrackInv'
  BY <1>8 DEF Fails
<1>9. ASSUME NEW r \in Requests, NEW p \in {"unconnected", "manager", "proxy", "channel"},
          Moves(r, p) PROVE TrackInv'
  BY <1>9 DEF Moves
<1>10. ASSUME NEW r \in Requests, NEW c \in Connections, ChannelConnects(r, c) PROVE
          TrackInv'
  <2>1. \A q \in Kinds : slot[q] # None => conn'[slot[q]] = conn[slot[q]]
    BY <1>10 DEF ChannelConnects, Connected, TypeOK, ProxyInv, IsProxy, Done
  <2>2. UNCHANGED <<slot, handlers>>
    BY <1>10 DEF ChannelConnects, Connected
  <2> QED BY <2>1, <2>2
<1>11. ASSUME NEW r \in Requests, ReturnsProxy(r) PROVE TrackInv'
  BY <1>11 DEF ReturnsProxy
<1>12. ASSUME NEW r \in Requests, Enables(r) PROVE TrackInv'
  BY <1>12 DEF Enables
<1>13. ASSUME NEW r \in Requests, NotEnabled(r) PROVE TrackInv'
  BY <1>13 DEF NotEnabled, Touch
<1>14. ASSUME NEW r \in Requests, NothingToExtend(r) PROVE TrackInv'
  BY <1>14 DEF NothingToExtend, Touch, NoTable
<1>15. ASSUME NEW r \in Requests, NEW es \in SUBSET Supported, Extends(r, es) PROVE
          TrackInv'
  BY <1>15 DEF Extends, Touch
<1>16. ASSUME NEW r \in Requests, NEW e \in Supported, NEW m \in {"proxy", "absent"},
          ExtensionMade(r, e, m) PROVE TrackInv'
  BY <1>16 DEF ExtensionMade, Touch
<1>17. ASSUME NEW r \in Requests, NEW e \in Supported, NEW m \in {"proxy", "absent"},
          LastExtensionMade(r, e, m) PROVE TrackInv'
  BY <1>17 DEF LastExtensionMade, Touch
<1>18. ASSUME NEW r \in Requests, FinishShared(r) PROVE TrackInv'
  BY <1>18 DEF FinishShared
<1>19. ASSUME NEW r \in Requests, FinishTracks(r) PROVE TrackInv'
  <2>1. kind[r] \in Kinds
    BY <1>19 DEF FinishTracks, ClientInv, RequestInv
  <2> SUFFICES ASSUME NEW d \in Connections, NEW l \in Kinds
               PROVE  (<<d, l>> \in handlers <=> slot[l] # None /\ conn[slot[l]] = d)'
    OBVIOUS
  <2>2. <<d, l>> \in handlers <=> slot[l] # None /\ conn[slot[l]] = d
    OBVIOUS
  <2>3. CASE l = kind[r]
    BY <1>19, <2>1, <2>3, TrackHandlers DEF FinishTracks
  <2>4. CASE l # kind[r]
    BY <1>19, <2>1, <2>2, <2>4, TrackHandlers DEF FinishTracks
  <2> QED BY <2>3, <2>4
<1>20. ASSUME NEW r \in Requests, FinishWithout(r) PROVE TrackInv'
  BY <1>20 DEF FinishWithout
<1>21. ASSUME NEW r \in Requests, FinishUntracks(r) PROVE TrackInv'
  <2> SUFFICES ASSUME NEW d \in Connections, NEW l \in Kinds
               PROVE  (<<d, l>> \in handlers <=> slot[l] # None /\ conn[slot[l]] = d)'
    OBVIOUS
  <2>2. <<d, l>> \in handlers <=> slot[l] # None /\ conn[slot[l]] = d
    OBVIOUS
  <2>1. "reauth" \in Kinds
    BY DEF Kinds
  <2>3. CASE l = "reauth"
    BY <1>21, <2>1, <2>3, TrackHandlers DEF FinishUntracks
  <2>4. CASE l # "reauth"
    BY <1>21, <2>1, <2>2, <2>4, TrackHandlers DEF FinishUntracks
  <2> QED BY <2>3, <2>4
<1>22. ASSUME NEW names \in Lists, SetEnabledExtensions(names) PROVE TrackInv'
  BY <1>22 DEF SetEnabledExtensions, trackVars, requestVars
<1>23. CASE Dispose
  <2> SUFFICES ASSUME NEW d \in Connections, NEW l \in Kinds
               PROVE  (<<d, l>> \in handlers <=> slot[l] # None /\ conn[slot[l]] = d)'
    OBVIOUS
  <2>1. <<d, l>> \notin handlers'
    BY <1>23, UntrackedHandlers DEF Dispose
  <2> QED BY <1>23, <2>1 DEF Dispose
<1>24. ASSUME NEW c \in Connections, ConnectionCloses(c) PROVE TrackInv'
  BY <1>24 DEF ConnectionCloses, trackVars, requestVars
<1>25. ASSUME NEW c \in Connections, ClosedSignal(c) PROVE TrackInv'
  <2> DEFINE ks == {k \in Kinds : <<c, k>> \in handlers}
  <2> SUFFICES ASSUME NEW d \in Connections, NEW l \in Kinds
               PROVE  (<<d, l>> \in handlers <=> slot[l] # None /\ conn[slot[l]] = d)'
    OBVIOUS
  <2>1. handlers' = Untracked(ks) /\ slot'[l] = (IF l \in ks THEN None ELSE slot[l])
    BY <1>25 DEF ClosedSignal
  <2>2. <<d, l>> \in handlers' <=> <<d, l>> \in handlers /\ l \notin ks
    BY <2>1, UntrackedHandlers
  <2>3. conn' = conn
    BY <1>25 DEF ClosedSignal, requestVars
  <2> HIDE DEF ks
  <2> QED BY <2>1, <2>2, <2>3
<1>26. CASE UNCHANGED vars
  BY <1>26 DEF vars, trackVars, requestVars
<1> HIDE DEF TrackInv
<1>27. ASSUME NEW r \in Requests, RequestStep(r) PROVE TrackInv'
  BY <1>27, <1>1, <1>2, <1>3, <1>4, <1>5, <1>6, <1>7, <1>8, <1>9, <1>10, <1>11, <1>12, <1>13,
     <1>14, <1>15, <1>16, <1>17, <1>18, <1>19, <1>20, <1>21, Zenon DEF RequestStep
<1> QED BY <1>22, <1>23, <1>24, <1>25, <1>26, <1>27, StepCases, Zenon

\* What callers were given stays tracked.
LEMMA NextAgreeInv ==
    ASSUME TypeOK, ClientInv, [Next]_vars PROVE AgreeInv'
<1> USE ClientAssumptions DEF TypeOK, AgreeInv, AgreeOnProxy, ProxyInv, IsProxy, Done, Kinds
<1>0. RequestInv /\ ProxyInv /\ AgreeInv
  BY DEF ClientInv
<1> USE <1>0 DEF RequestInv
<1>1. ASSUME NEW r \in Requests, NEW k \in Kinds, SyncShared(r, k) PROVE AgreeInv'
  BY <1>1 DEF SyncShared, Unused
<1>2. ASSUME NEW r \in Requests, NEW k \in Kinds, SyncFailed(r, k) PROVE AgreeInv'
  BY <1>2 DEF SyncFailed, Unused
<1>3. ASSUME NEW r \in Requests, NEW k \in Kinds, NEW c \in Connections, SyncNoProxy(r, k,
          c) PROVE AgreeInv'
  BY <1>3 DEF SyncNoProxy, Unused, Connected, Track
<1>4. ASSUME NEW r \in Requests, NEW k \in Kinds, NEW c \in Connections, NEW t \in
          [Supported -> {"absent", "proxy"}], SyncMade(r, k, c, t) PROVE AgreeInv'
  BY <1>4 DEF SyncMade, Unused, Connected, Track
<1>5. ASSUME NEW r \in Requests, NEW k \in Kinds, AsyncShared(r, k) PROVE AgreeInv'
  BY <1>5 DEF AsyncShared, Unused
<1>6. ASSUME NEW r \in Requests, NEW k \in Kinds, NEW p \in {"unconnected", "manager",
          "proxy", "channel"}, Begins(r, k, p) PROVE AgreeInv'
  BY <1>6 DEF Begins, Unused
<1>7. ASSUME NEW r \in Requests, NEW k \in Kinds, NEW c \in Connections, BeginsConnected(r,
          k, c) PROVE AgreeInv'
  BY <1>7 DEF BeginsConnected, Unused, Connected
<1>8. ASSUME NEW r \in Requests, Fails(r) PROVE AgreeInv'
  BY <1>8 DEF Fails
<1>9. ASSUME NEW r \in Requests, NEW p \in {"unconnected", "manager", "proxy", "channel"},
          Moves(r, p) PROVE AgreeInv'
  BY <1>9 DEF Moves
<1>10. ASSUME NEW r \in Requests, NEW c \in Connections, ChannelConnects(r, c) PROVE
          AgreeInv'
  <2>1. alive /\ alive'
    BY <1>10 DEF ChannelConnects, Connected
  <2>2. ASSUME NEW q \in Requests, phase'[q] = "finished", got[q] # None
        PROVE  /\ phase[q] = "finished"
               /\ conn'[got[q]] = conn[got[q]] /\ conns'[conn[got[q]]] = conns[conn[got[q]]]
    BY <1>10, <2>2 DEF ChannelConnects, Connected
  <2>3. UNCHANGED <<slot, got, kind>>
    BY <1>10 DEF ChannelConnects, Connected
  <2> QED BY <2>1, <2>2, <2>3
<1>11. ASSUME NEW r \in Requests, ReturnsProxy(r) PROVE AgreeInv'
  BY <1>11 DEF ReturnsProxy
<1>12. ASSUME NEW r \in Requests, Enables(r) PROVE AgreeInv'
  BY <1>12 DEF Enables
<1>13. ASSUME NEW r \in Requests, NotEnabled(r) PROVE AgreeInv'
  BY <1>13 DEF NotEnabled, Touch
<1>14. ASSUME NEW r \in Requests, NothingToExtend(r) PROVE AgreeInv'
  BY <1>14 DEF NothingToExtend, Touch, NoTable
<1>15. ASSUME NEW r \in Requests, NEW es \in SUBSET Supported, Extends(r, es) PROVE
          AgreeInv'
  BY <1>15 DEF Extends, Touch
<1>16. ASSUME NEW r \in Requests, NEW e \in Supported, NEW m \in {"proxy", "absent"},
          ExtensionMade(r, e, m) PROVE AgreeInv'
  BY <1>16 DEF ExtensionMade, Touch
<1>17. ASSUME NEW r \in Requests, NEW e \in Supported, NEW m \in {"proxy", "absent"},
          LastExtensionMade(r, e, m) PROVE AgreeInv'
  BY <1>17 DEF LastExtensionMade, Touch
<1>18. ASSUME NEW r \in Requests, FinishShared(r) PROVE AgreeInv'
  BY <1>18 DEF FinishShared
<1>19. ASSUME NEW r \in Requests, FinishTracks(r) PROVE AgreeInv'
  BY <1>19 DEF FinishTracks, Track
<1>20. ASSUME NEW r \in Requests, FinishWithout(r) PROVE AgreeInv'
  BY <1>20 DEF FinishWithout
<1>21. ASSUME NEW r \in Requests, FinishUntracks(r) PROVE AgreeInv'
  BY <1>21 DEF FinishUntracks, Track
<1>22. ASSUME NEW names \in Lists, SetEnabledExtensions(names) PROVE AgreeInv'
  BY <1>22 DEF SetEnabledExtensions, trackVars, requestVars
<1>23. CASE Dispose
  BY <1>23 DEF Dispose, trackVars, requestVars
<1>24. ASSUME NEW c \in Connections, ConnectionCloses(c) PROVE AgreeInv'
  BY <1>24 DEF ConnectionCloses, trackVars, requestVars
<1>25. ASSUME NEW c \in Connections, ClosedSignal(c) PROVE AgreeInv'
  <2>1. ASSUME NEW d \in Connections, conns'[d] \in {"open", "closing"}
        PROVE  d # c /\ conns'[d] = conns[d]
    BY <1>25, <2>1 DEF ClosedSignal, trackVars, requestVars
  <2>2. UNCHANGED <<alive, phase, kind, got, conn, creating>>
    BY <1>25 DEF ClosedSignal, trackVars, requestVars
  <2>3. ASSUME NEW k \in Kinds, slot[k] # None, conn[slot[k]] # c PROVE slot'[k] = slot[k]
    BY <1>25, <2>3 DEF ClosedSignal, trackVars, requestVars, ClientInv, TrackInv
  <2>4. \A q \in Requests : got[q] # None => kind[q] \in Kinds /\ conn[got[q]] \in Connections
    OBVIOUS
  <2> HIDE DEF Kinds
  <2>5. ASSUME alive PROVE AgreeInv'
    <3> SUFFICES ASSUME NEW q \in Requests, phase[q] = "finished", kind[q] # "reauth", got[q] # None,
                        conns'[conn[got[q]]] \in {"open", "closing"}
                 PROVE  slot'[kind[q]] = got[q]
      BY <2>2, <2>5
    <3>1. conn[got[q]] # c /\ conns[conn[got[q]]] \in {"open", "closing"}
      BY <2>1, <2>4
    <3>2. slot[kind[q]] = got[q]
      BY <2>5, <3>1
    <3> QED BY <2>3, <2>4, <3>1, <3>2
  <2>6. ASSUME ~alive PROVE AgreeInv'
    <3>1. \A d \in Connections : conns'[d] = "open" => conns[d] = "open"
      BY <2>1
    <3>2. \A k \in Kinds : slot'[k] = None
      BY <1>25, <2>6 DEF ClosedSignal
    <3> QED BY <2>2, <2>4, <2>6, <3>1, <3>2
  <2> QED BY <2>5, <2>6
<1>26. CASE UNCHANGED vars
  BY <1>26 DEF vars, trackVars, requestVars
<1> HIDE <1>0 DEF TypeOK, AgreeInv, AgreeOnProxy, ProxyInv, IsProxy, Done, Kinds, RequestInv
<1>27. ASSUME NEW r \in Requests, RequestStep(r) PROVE AgreeInv'
  BY <1>27, <1>1, <1>2, <1>3, <1>4, <1>5, <1>6, <1>7, <1>8, <1>9, <1>10, <1>11, <1>12, <1>13,
     <1>14, <1>15, <1>16, <1>17, <1>18, <1>19, <1>20, <1>21, Zenon DEF RequestStep
<1> QED BY <1>22, <1>23, <1>24, <1>25, <1>26, <1>27, StepCases, Zenon

\* No callback gets data that was freed.
LEMMA NextNotCorrupt ==
    ASSUME TypeOK, ClientInv, [Next]_vars PROVE ~corrupt'
<1> USE DEF TypeOK
<1>0. RequestInv /\ ~corrupt
  BY DEF ClientInv
<1> USE <1>0 DEF RequestInv
<1>1. ASSUME NEW r \in Requests, NEW k \in Kinds, SyncShared(r, k) PROVE ~corrupt'
  BY <1>1 DEF SyncShared, Unused
<1>2. ASSUME NEW r \in Requests, NEW k \in Kinds, SyncFailed(r, k) PROVE ~corrupt'
  BY <1>2 DEF SyncFailed, Unused
<1>3. ASSUME NEW r \in Requests, NEW k \in Kinds, NEW c \in Connections, SyncNoProxy(r, k,
          c) PROVE ~corrupt'
  BY <1>3 DEF SyncNoProxy, Unused, Connected, Track
<1>4. ASSUME NEW r \in Requests, NEW k \in Kinds, NEW c \in Connections, NEW t \in
          [Supported -> {"absent", "proxy"}], SyncMade(r, k, c, t) PROVE ~corrupt'
  BY <1>4 DEF SyncMade, Unused, Connected, Track
<1>5. ASSUME NEW r \in Requests, NEW k \in Kinds, AsyncShared(r, k) PROVE ~corrupt'
  BY <1>5 DEF AsyncShared, Unused
<1>6. ASSUME NEW r \in Requests, NEW k \in Kinds, NEW p \in {"unconnected", "manager",
          "proxy", "channel"}, Begins(r, k, p) PROVE ~corrupt'
  BY <1>6 DEF Begins, Unused
<1>7. ASSUME NEW r \in Requests, NEW k \in Kinds, NEW c \in Connections, BeginsConnected(r,
          k, c) PROVE ~corrupt'
  BY <1>7 DEF BeginsConnected, Unused, Connected
<1>8. ASSUME NEW r \in Requests, Fails(r) PROVE ~corrupt'
  BY <1>8 DEF Fails
<1>9. ASSUME NEW r \in Requests, NEW p \in {"unconnected", "manager", "proxy", "channel"},
          Moves(r, p) PROVE ~corrupt'
  BY <1>9 DEF Moves
<1>10. ASSUME NEW r \in Requests, NEW c \in Connections, ChannelConnects(r, c) PROVE
          ~corrupt'
  BY <1>10 DEF ChannelConnects, Connected
<1>11. ASSUME NEW r \in Requests, ReturnsProxy(r) PROVE ~corrupt'
  BY <1>11 DEF ReturnsProxy
<1>12. ASSUME NEW r \in Requests, Enables(r) PROVE ~corrupt'
  BY <1>12 DEF Enables
<1>13. ASSUME NEW r \in Requests, NotEnabled(r) PROVE ~corrupt'
  BY <1>13 DEF NotEnabled, Touch
<1>14. ASSUME NEW r \in Requests, NothingToExtend(r) PROVE ~corrupt'
  BY <1>14 DEF NothingToExtend, Touch, NoTable
<1>15. ASSUME NEW r \in Requests, NEW es \in SUBSET Supported, Extends(r, es) PROVE
          ~corrupt'
  BY <1>15 DEF Extends, Touch
<1>16. ASSUME NEW r \in Requests, NEW e \in Supported, NEW m \in {"proxy", "absent"},
          ExtensionMade(r, e, m) PROVE ~corrupt'
  BY <1>16 DEF ExtensionMade, Touch
<1>17. ASSUME NEW r \in Requests, NEW e \in Supported, NEW m \in {"proxy", "absent"},
          LastExtensionMade(r, e, m) PROVE ~corrupt'
  BY <1>17 DEF LastExtensionMade, Touch
<1>18. ASSUME NEW r \in Requests, FinishShared(r) PROVE ~corrupt'
  BY <1>18 DEF FinishShared
<1>19. ASSUME NEW r \in Requests, FinishTracks(r) PROVE ~corrupt'
  BY <1>19 DEF FinishTracks, Track
<1>20. ASSUME NEW r \in Requests, FinishWithout(r) PROVE ~corrupt'
  BY <1>20 DEF FinishWithout
<1>21. ASSUME NEW r \in Requests, FinishUntracks(r) PROVE ~corrupt'
  BY <1>21 DEF FinishUntracks, Track
<1>22. ASSUME NEW names \in Lists, SetEnabledExtensions(names) PROVE ~corrupt'
  BY <1>22 DEF SetEnabledExtensions, trackVars, requestVars
<1>23. CASE Dispose
  BY <1>23 DEF Dispose, trackVars, requestVars
<1>24. ASSUME NEW c \in Connections, ConnectionCloses(c) PROVE ~corrupt'
  BY <1>24 DEF ConnectionCloses, trackVars, requestVars
<1>25. ASSUME NEW c \in Connections, ClosedSignal(c) PROVE ~corrupt'
  BY <1>25 DEF ClosedSignal, trackVars, requestVars
<1>26. CASE UNCHANGED vars
  BY <1>26 DEF vars, trackVars, requestVars
<1> HIDE <1>0 DEF TypeOK, RequestInv
<1>27. ASSUME NEW r \in Requests, RequestStep(r) PROVE ~corrupt'
  BY <1>27, <1>1, <1>2, <1>3, <1>4, <1>5, <1>6, <1>7, <1>8, <1>9, <1>10, <1>11, <1>12, <1>13,
     <1>14, <1>15, <1>16, <1>17, <1>18, <1>19, <1>20, <1>21, Zenon DEF RequestStep
<1> QED BY <1>22, <1>23, <1>24, <1>25, <1>26, <1>27, StepCases, Zenon

\* Every step keeps the proxies that it should.
LEMMA NextFollows ==
    ASSUME TypeOK, ClientInv, [Next]_vars PROVE alive' => ProxiesKept
<1> USE ClientAssumptions DEF TypeOK, ProxyInv, IsProxy, Done, Kinds, ProxiesKept, FinishedLate
<1>0. RequestInv /\ ProxyInv /\ TrackInv
  BY DEF ClientInv
<1> USE <1>0 DEF RequestInv
<1>1. ASSUME NEW r \in Requests, NEW k \in Kinds, SyncShared(r, k) PROVE alive' => ProxiesKept
  BY <1>1 DEF SyncShared, Unused
<1>2. ASSUME NEW r \in Requests, NEW k \in Kinds, SyncFailed(r, k) PROVE alive' => ProxiesKept
  BY <1>2 DEF SyncFailed, Unused
<1>3. ASSUME NEW r \in Requests, NEW k \in Kinds, NEW c \in Connections, SyncNoProxy(r, k,
          c) PROVE alive' => ProxiesKept
  BY <1>3 DEF SyncNoProxy, Unused, Connected, Track
<1>4. ASSUME NEW r \in Requests, NEW k \in Kinds, NEW c \in Connections, NEW t \in
          [Supported -> {"absent", "proxy"}], SyncMade(r, k, c, t) PROVE alive' => ProxiesKept
  BY <1>4 DEF SyncMade, Unused, Connected, Track
<1>5. ASSUME NEW r \in Requests, NEW k \in Kinds, AsyncShared(r, k) PROVE alive' => ProxiesKept
  BY <1>5 DEF AsyncShared, Unused
<1>6. ASSUME NEW r \in Requests, NEW k \in Kinds, NEW p \in {"unconnected", "manager",
          "proxy", "channel"}, Begins(r, k, p) PROVE alive' => ProxiesKept
  BY <1>6 DEF Begins, Unused
<1>7. ASSUME NEW r \in Requests, NEW k \in Kinds, NEW c \in Connections, BeginsConnected(r,
          k, c) PROVE alive' => ProxiesKept
  BY <1>7 DEF BeginsConnected, Unused, Connected
<1>8. ASSUME NEW r \in Requests, Fails(r) PROVE alive' => ProxiesKept
  BY <1>8 DEF Fails
<1>9. ASSUME NEW r \in Requests, NEW p \in {"unconnected", "manager", "proxy", "channel"},
          Moves(r, p) PROVE alive' => ProxiesKept
  BY <1>9 DEF Moves
<1>10. ASSUME NEW r \in Requests, NEW c \in Connections, ChannelConnects(r, c) PROVE
          alive' => ProxiesKept
  BY <1>10 DEF ChannelConnects, Connected
<1>11. ASSUME NEW r \in Requests, ReturnsProxy(r) PROVE alive' => ProxiesKept
  BY <1>11 DEF ReturnsProxy
<1>12. ASSUME NEW r \in Requests, Enables(r) PROVE alive' => ProxiesKept
  BY <1>12 DEF Enables
<1>13. ASSUME NEW r \in Requests, NotEnabled(r) PROVE alive' => ProxiesKept
  BY <1>13 DEF NotEnabled, Touch
<1>14. ASSUME NEW r \in Requests, NothingToExtend(r) PROVE alive' => ProxiesKept
  BY <1>14 DEF NothingToExtend, Touch, NoTable
<1>15. ASSUME NEW r \in Requests, NEW es \in SUBSET Supported, Extends(r, es) PROVE
          alive' => ProxiesKept
  BY <1>15 DEF Extends, Touch
<1>16. ASSUME NEW r \in Requests, NEW e \in Supported, NEW m \in {"proxy", "absent"},
          ExtensionMade(r, e, m) PROVE alive' => ProxiesKept
  BY <1>16 DEF ExtensionMade, Touch
<1>17. ASSUME NEW r \in Requests, NEW e \in Supported, NEW m \in {"proxy", "absent"},
          LastExtensionMade(r, e, m) PROVE alive' => ProxiesKept
  BY <1>17 DEF LastExtensionMade, Touch
<1>18. ASSUME NEW r \in Requests, FinishShared(r) PROVE alive' => ProxiesKept
  BY <1>18 DEF FinishShared
<1>19. ASSUME NEW r \in Requests, FinishTracks(r) PROVE alive' => ProxiesKept
  BY <1>19 DEF FinishTracks, Track
<1>20. ASSUME NEW r \in Requests, FinishWithout(r) PROVE alive' => ProxiesKept
  BY <1>20 DEF FinishWithout
<1>21. ASSUME NEW r \in Requests, FinishUntracks(r) PROVE alive' => ProxiesKept
  BY <1>21 DEF FinishUntracks, Track
<1>22. ASSUME NEW names \in Lists, SetEnabledExtensions(names) PROVE alive' => ProxiesKept
  BY <1>22 DEF SetEnabledExtensions, trackVars, requestVars
<1>23. CASE Dispose
  BY <1>23 DEF Dispose, trackVars, requestVars
<1>24. ASSUME NEW c \in Connections, ConnectionCloses(c) PROVE alive' => ProxiesKept
  BY <1>24 DEF ConnectionCloses, trackVars, requestVars
<1>25. ASSUME NEW c \in Connections, ClosedSignal(c) PROVE alive' => ProxiesKept
  BY <1>25 DEF ClosedSignal, trackVars, requestVars, TrackInv
<1>26. CASE UNCHANGED vars
  BY <1>26 DEF vars, trackVars, requestVars
<1> HIDE <1>0 DEF TypeOK, ProxyInv, IsProxy, Done, Kinds, RequestInv, ProxiesKept, FinishedLate
<1>27. ASSUME NEW r \in Requests, RequestStep(r) PROVE alive' => ProxiesKept
  BY <1>27, <1>1, <1>2, <1>3, <1>4, <1>5, <1>6, <1>7, <1>8, <1>9, <1>10, <1>11, <1>12, <1>13,
     <1>14, <1>15, <1>16, <1>17, <1>18, <1>19, <1>20, <1>21, Zenon DEF RequestStep
<1> QED BY <1>22, <1>23, <1>24, <1>25, <1>26, <1>27, StepCases, Zenon

-----------------------------------------------------------------------------
\* A new client has made nothing yet.
LEMMA InitClientInv == ASSUME Init PROVE TypeOK /\ ClientInv
<1>1. TypeOK
  BY DEF Init, TypeOK, NoTable, Kinds
<1>2. RequestInv
  BY DEF Init, RequestInv, NoTable, Done
<1>3. ProxyInv /\ TrackInv /\ AgreeInv /\ ~corrupt
  BY DEF Init, ProxyInv, TrackInv, AgreeInv
<1> QED BY <1>1, <1>2, <1>3 DEF ClientInv

\* The inductive invariant.
LEMMA ClientInvariant == Spec => [](TypeOK /\ ClientInv)
<1>1. TypeOK /\ ClientInv /\ [Next]_vars => (TypeOK /\ ClientInv)'
  BY NextTypeOK, NextRequestInv, NextProxyInv, NextTrackInv, NextAgreeInv,
     NextNotCorrupt DEF ClientInv
<1> QED BY <1>1, InitClientInv, PTL DEF Spec

\* Every variable keeps its type, whatever requests overlap.
THEOREM ClientTypeCorrect == Spec => []TypeOK
BY ClientInvariant, PTL

\* The UserVerifierData that the callbacks of a request's extension proxies share is freed
\* by the last of them (maybe_complete_user_verifier_proxy_operation), however they
\* interleave, and the verifier that comes out of the request is complete.
THEOREM RequestsCompleteOnce == Spec => []CompletedOnce
<1>1. TypeOK /\ ClientInv => CompletedOnce
  <2> SUFFICES ASSUME TypeOK, ClientInv PROVE CompletedOnce
    OBVIOUS
  <2>0. \A r \in Requests : answers[r] = IF Done(r) THEN 1 ELSE 0
    BY DEF ClientInv, RequestInv
  <2>1. ASSUME NEW r \in Requests PROVE answers[r] <= 1
    <3>1. CASE Done(r)
      BY <2>0, <3>1
    <3>2. CASE ~ Done(r)
      BY <2>0, <3>2
    <3> QED BY <3>1, <3>2
  <2>2. \A q \in Requests : Done(q) => \A e \in Supported : table[q][e] # "null"
    BY DEF ClientInv, RequestInv, Done
  <2>3. \A r \in Requests : got[r] # None => got[r] \in Requests /\ Done(got[r])
    BY DEF ClientInv, ProxyInv, IsProxy
  <2> QED BY <2>1, <2>2, <2>3 DEF CompletedOnce, ClientInv
<1> QED BY <1>1, ClientInvariant, PTL

\* track_proxy and untrack_proxy keep one "closed" handler for every proxy that is
\* tracked, on its connection, and leave none behind: a proxy goes with its own connection
\* and no other, and only a finish function that comes too late takes up a dead one.
THEOREM HandlersFollowProxies == Spec => ProxiesFollowConnections
<1>1. TypeOK /\ ClientInv => (~alive => handlers = {})
  <2> SUFFICES ASSUME TypeOK, ClientInv, ~alive PROVE handlers = {}
    OBVIOUS
  <2>1. \A k \in Kinds : slot[k] = None
    BY DEF ClientInv, AgreeInv
  <2>2. ASSUME NEW h \in handlers PROVE FALSE
    <3>1. PICK c \in Connections, k \in Kinds : h = <<c, k>>
      BY <2>2 DEF TypeOK
    <3> QED BY <2>1, <2>2, <3>1 DEF ClientInv, TrackInv
  <2> QED BY <2>2
<1>2. TypeOK /\ ClientInv /\ (~alive => handlers = {})' /\ [Next]_vars =>
          [IF alive' THEN ProxiesKept ELSE handlers' = {}]_vars
  BY NextFollows
<1> QED BY <1>1, <1>2, ClientInvariant, PTL DEF Spec, ProxiesFollowConnections

\* Requests that overlap end with one user verifier and one greeter: a finish function
\* that finds a proxy tracked drops its own.
THEOREM CallersAgree == Spec => []AgreeOnProxy
<1>1. TypeOK /\ ClientInv => AgreeOnProxy
  BY DEF ClientInv, AgreeInv, AgreeOnProxy
<1> QED BY <1>1, ClientInvariant, PTL
====
