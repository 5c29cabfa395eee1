------------------------------ MODULE GdmClient ------------------------------
(***************************************************************************)
(* The client library's GdmClient (libgdm/gdm-client.c): the object with   *)
(* which a greeter or a lock screen reaches its session.  It keeps one     *)
(* proxy of each kind and hands out references to it; the proxies live on  *)
(* peer-to-peer connections that the display manager may close at any      *)
(* time.  Requests are synchronous or asynchronous; asynchronous ones      *)
(* overlap, and a proxy is tracked only when its request is finished.      *)
(* The display manager, GDBus and the caller are external.                 *)
(***************************************************************************)
EXTENDS Naturals

CONSTANTS
    Requests,         \* bound: requests made of the client
    Connections,      \* bound: connections the client opens
    Supported,        \* extensions the library has a proxy for
    Unsupported,      \* other names the caller may enable
    Lists,            \* the lists of extensions the caller sets, without repetition
    None

ASSUME ClientAssumptions ==
    /\ None \notin Requests \cup Connections \cup Lists
    /\ Supported \cap Unsupported = {}
    /\ Lists \subseteq SUBSET (Supported \cup Unsupported)

Kinds == {"verifier", "greeter", "reauth"}

VARIABLES
    alive,            \* the client is not disposed
    enabled,          \* enabled_extensions: a set of names, or None (NULL)
    slot,             \* user_verifier, greeter, user_verifier_for_reauth: the
                      \* request that made the proxy, or None
    handlers,         \* "closed" handlers: <<connection, kind>>
    conns,            \* what has become of each connection
    kind,             \* what each request asks for (None: not made)
    phase,            \* how far it is
    conn,             \* connection its proxy is on
    table,            \* the extensions of its proxy: absent, null, proxy
    creating,         \* extension proxies that are being created for it
    data,             \* its UserVerifierData: none, live, freed
    answers,          \* times its task has returned
    got,              \* the proxy its task returned; once finished, the one its
                      \* caller was given
    corrupt           \* a callback got a UserVerifierData that was freed

requestVars == <<kind, phase, conn, table, creating, data, answers, got, corrupt>>
trackVars == <<slot, handlers>>
vars == <<alive, enabled, trackVars, conns, requestVars>>

NoTable == [e \in Supported |-> "absent"]

Init ==
    /\ alive = TRUE /\ enabled = None
    /\ slot = [k \in Kinds |-> None] /\ handlers = {}
    /\ conns = [c \in Connections |-> "unused"]
    /\ kind = [r \in Requests |-> None]
    /\ phase = [r \in Requests |-> "none"]
    /\ conn = [r \in Requests |-> None]
    /\ table = [r \in Requests |-> NoTable]
    /\ creating = [r \in Requests |-> {}]
    /\ data = [r \in Requests |-> "none"]
    /\ answers = [r \in Requests |-> 0]
    /\ got = [r \in Requests |-> None]
    /\ corrupt = FALSE

-----------------------------------------------------------------------------
(* Tracking.  untrack_proxy disconnects the handler and drops the proxy;   *)
(* track_proxy untracks the old proxy first and then follows the new one,  *)
(* if there is one.                                                        *)

\* Mutant of Track: the handler on the old proxy's connection is left behind.
TrackOver(k, r, c) ==
    /\ slot' = [slot EXCEPT ![k] = r]
    /\ handlers' = IF r = None THEN handlers ELSE handlers \cup {<<c, k>>}

\* What is left of the handlers: a kind without a proxy has none disconnected, the
\* others have theirs on the connection that their proxy is on.
Untracked(ks) == handlers \ {<<conn[slot[k]], k>> : k \in {l \in ks : slot[l] # None}}

Track(k, r, c) ==
    /\ slot' = [slot EXCEPT ![k] = r]
    /\ handlers' = Untracked({k}) \cup (IF r = None THEN {} ELSE {<<c, k>>})

\* gdm_client_get_open_connection: None when nothing is tracked, and when the
\* connection is closed and its "closed" signal not dispatched yet.
OpenConnection ==
    LET r == IF slot["verifier"] # None THEN slot["verifier"] ELSE slot["greeter"]
    IN IF r # None /\ conns[conn[r]] = "open" THEN conn[r] ELSE None

\* gdm_client_get_connection_sync with connection c: the open one, or a new one
\* to the address that OpenSession returns.
GetConnection(c) ==
    IF OpenConnection # None
    THEN c = OpenConnection /\ UNCHANGED conns
    ELSE conns[c] = "unused" /\ conns' = [conns EXCEPT ![c] = "open"]

Unused(r) == alive /\ phase[r] = "none"

-----------------------------------------------------------------------------
(* Synchronous requests: nothing is dispatched while they run.             *)

\* enable_extensions_sync may fail; then each supported extension may.
SyncTables ==
    IF enabled = None THEN {NoTable}
    ELSE {[e \in Supported |-> IF e \in made THEN "proxy" ELSE "absent"] :
              made \in SUBSET (enabled \cap Supported)}

SyncDone(r, k) ==
    /\ kind' = [kind EXCEPT ![r] = k]
    /\ phase' = [phase EXCEPT ![r] = "finished"]
    /\ answers' = [answers EXCEPT ![r] = @ + 1]

\* What gdm_client_get_user_verifier_sync and gdm_client_get_greeter_sync share.
GetSync(r, k) ==
    /\ Unused(r)
    /\ SyncDone(r, k)
    /\ \/ /\ slot[k] # None
          /\ got' = [got EXCEPT ![r] = slot[k]]
          /\ UNCHANGED <<trackVars, conns, conn, table>>
       \/ /\ slot[k] = None
          /\ \/ \* no connection
                UNCHANGED <<trackVars, conns, conn, table, got>>
             \/ \E c \in Connections :
                  /\ GetConnection(c)
                  /\ \/ /\ Track(k, r, c)
                        /\ conn' = [conn EXCEPT ![r] = c]
                        /\ \E t \in IF k = "verifier" THEN SyncTables ELSE {NoTable} :
                              table' = [table EXCEPT ![r] = t]
                        /\ got' = [got EXCEPT ![r] = r]
                     \/ \* no proxy
                        Track(k, None, c) /\ UNCHANGED <<conn, table, got>>
    /\ UNCHANGED <<alive, enabled, creating, data, corrupt>>

GetUserVerifierSync(r) == GetSync(r, "verifier")
GetGreeterSync(r) == GetSync(r, "greeter")

\* gdm_client_open_reauthentication_channel_sync: always a new connection.
OpenReauthSync(r) ==
    /\ Unused(r)
    /\ SyncDone(r, "reauth")
    /\ \/ UNCHANGED <<trackVars, conns, conn, got>>
       \/ \E c \in Connections :
            /\ conns[c] = "unused"
            /\ conns' = [conns EXCEPT ![c] = "open"]
            /\ \/ /\ Track("reauth", r, c)
                  /\ conn' = [conn EXCEPT ![r] = c]
                  /\ got' = [got EXCEPT ![r] = r]
               \/ Track("reauth", None, c) /\ UNCHANGED <<conn, got>>
    /\ UNCHANGED <<alive, enabled, table, creating, data, corrupt>>

-----------------------------------------------------------------------------
(* Asynchronous requests.  A task returns once its operation is over; its  *)
(* callback then calls the finish function.                                *)

\* The task of r returns a proxy, or an error (None).
Return(r, proxy) ==
    /\ phase' = [phase EXCEPT ![r] = "returned"]
    /\ answers' = [answers EXCEPT ![r] = @ + 1]
    /\ got' = [got EXCEPT ![r] = proxy]

Advance(r, to) == phase' = [phase EXCEPT ![r] = to] /\ UNCHANGED <<answers, got>>

\* gdm_client_get_user_verifier, gdm_client_get_greeter: the connection is got
\* synchronously, its callback comes later.
GetAsync(r, k) ==
    /\ Unused(r)
    /\ kind' = [kind EXCEPT ![r] = k]
    /\ \/ slot[k] # None /\ Return(r, slot[k]) /\ UNCHANGED <<conns, conn>>
       \/ /\ slot[k] = None
          /\ \/ Advance(r, "unconnected") /\ UNCHANGED <<conns, conn>>
             \/ \E c \in Connections :
                  /\ GetConnection(c)
                  /\ conn' = [conn EXCEPT ![r] = c]
                  /\ Advance(r, "connected")
    /\ UNCHANGED <<alive, enabled, trackVars, table, creating, data, corrupt>>

GetUserVerifier(r) == GetAsync(r, "verifier")
GetGreeter(r) == GetAsync(r, "greeter")

\* The connection is there, or the task ends with its error.
OnConnection(r, k) ==
    /\ kind[r] = k
    /\ \/ phase[r] = "unconnected" /\ Return(r, None)
       \/ phase[r] = "connected" /\ Advance(r, "proxy")
    /\ UNCHANGED <<alive, enabled, trackVars, conns, kind, conn, table, creating, data,
                   corrupt>>

OnConnectionForUserVerifier(r) == OnConnection(r, "verifier")
OnConnectionForGreeter(r) == OnConnection(r, "greeter")

\* gdm_client_open_reauthentication_channel, get_manager
OpenReauth(r) ==
    /\ Unused(r)
    /\ kind' = [kind EXCEPT ![r] = "reauth"]
    /\ Advance(r, "manager")
    /\ UNCHANGED <<alive, enabled, trackVars, conns, conn, table, creating, data,
                   corrupt>>

\* on_got_manager, on_got_manager_for_reauthentication
OnGotManager(r) ==
    /\ phase[r] = "manager"
    /\ Advance(r, "channel") \/ Return(r, None)
    /\ UNCHANGED <<alive, enabled, trackVars, conns, kind, conn, table, creating, data,
                   corrupt>>

\* on_reauthentication_channel_opened, on_reauthentication_channel_connected
OnReauthenticationChannel(r) ==
    /\ phase[r] = "channel"
    /\ \/ Return(r, None) /\ UNCHANGED <<conns, conn>>
       \/ \E c \in Connections :
            /\ conns[c] = "unused"
            /\ conns' = [conns EXCEPT ![c] = "open"]
            /\ conn' = [conn EXCEPT ![r] = c]
            /\ Advance(r, "proxy")
    /\ UNCHANGED <<alive, enabled, trackVars, kind, table, creating, data, corrupt>>

OnGreeterProxyCreated(r) ==
    /\ phase[r] = "proxy" /\ kind[r] = "greeter"
    /\ Return(r, None) \/ Return(r, r)
    /\ UNCHANGED <<alive, enabled, trackVars, conns, kind, conn, table, creating, data,
                   corrupt>>

\* With extensions enabled a verifier is not returned yet: EnableExtensions is called
\* first.
OnUserVerifierProxyCreated(r) ==
    /\ phase[r] = "proxy" /\ kind[r] # "greeter"
    /\ \/ Return(r, None) /\ UNCHANGED data
       \/ enabled = None /\ Return(r, r) /\ UNCHANGED data
       \/ /\ enabled # None
          /\ Advance(r, "enabling")
          /\ data' = [data EXCEPT ![r] = "live"]
    /\ UNCHANGED <<alive, enabled, trackVars, conns, kind, conn, table, creating,
                   corrupt>>

\* complete_user_verifier_proxy_operation
Complete(r) ==
    /\ Return(r, r)
    /\ data' = [data EXCEPT ![r] = "freed"]

Touch(r) == corrupt' = (corrupt \/ data[r] = "freed")

\* Mutant of OnExtensionsEnabled: a list in which nothing is supported is forgotten.
OnExtensionsEnabledForgets(r) ==
    /\ phase[r] = "enabling"
    /\ Touch(r)
    /\ \/ Complete(r) /\ UNCHANGED <<table, creating>>
       \/ LET wanted == enabled \cap Supported
          IN /\ table' = [table EXCEPT ![r] =
                             [e \in Supported |-> IF e \in wanted THEN "null" ELSE "absent"]]
             /\ creating' = [creating EXCEPT ![r] = wanted]
             /\ Advance(r, "extending") /\ UNCHANGED data
    /\ UNCHANGED <<alive, enabled, trackVars, conns, kind, conn>>

\* on_user_verifier_extensions_enabled: a failure completes the request without
\* extensions; so does a list in which nothing is supported.  The list is the one
\* that is set now, which need not be the one EnableExtensions was called with.
OnExtensionsEnabled(r) ==
    /\ phase[r] = "enabling"
    /\ Touch(r)
    /\ \/ Complete(r) /\ UNCHANGED <<table, creating>>
       \/ LET wanted == enabled \cap Supported
          IN /\ table' = [table EXCEPT ![r] =
                             [e \in Supported |-> IF e \in wanted THEN "null" ELSE "absent"]]
             /\ creating' = [creating EXCEPT ![r] = wanted]
             /\ IF wanted = {} THEN Complete(r)
                ELSE Advance(r, "extending") /\ UNCHANGED data
    /\ UNCHANGED <<alive, enabled, trackVars, conns, kind, conn>>

\* Mutant of MaybeComplete: it completes as soon as one extension is there.
CompleteAtFirst(r) == Complete(r)

\* maybe_complete_user_verifier_proxy_operation, after the table was changed
MaybeComplete(r) ==
    IF \E e \in Supported : table'[r][e] = "null"
    THEN UNCHANGED <<phase, answers, got, data>>
    ELSE Complete(r)

\* on_user_verifier_choice_list_proxy_created, ..._custom_json_proxy_created
OnExtensionProxyCreated(r, e) ==
    /\ e \in creating[r]
    /\ creating' = [creating EXCEPT ![r] = @ \ {e}]
    /\ Touch(r)
    /\ \E made \in {"proxy", "absent"} : table' = [table EXCEPT ![r][e] = made]
    /\ MaybeComplete(r)
    /\ UNCHANGED <<alive, enabled, trackVars, conns, kind, conn>>

-----------------------------------------------------------------------------
\* Mutant of FinishGet: a proxy that was tracked in the meantime is replaced.
FinishGetReplacing(r) ==
    IF got[r] # None THEN Track(kind[r], got[r], conn[got[r]]) /\ UNCHANGED got
    ELSE UNCHANGED <<trackVars, got>>

\* gdm_client_get_user_verifier_finish, gdm_client_get_greeter_finish: a proxy that is
\* tracked by now is returned, and what the request brought, an error too, dropped.
FinishGet(r) ==
    IF slot[kind[r]] # None
    THEN got' = [got EXCEPT ![r] = slot[kind[r]]] /\ UNCHANGED trackVars
    ELSE IF got[r] # None THEN Track(kind[r], got[r], conn[got[r]]) /\ UNCHANGED got
    ELSE UNCHANGED <<trackVars, got>>

\* gdm_client_open_reauthentication_channel_finish: an error untracks the old channel.
FinishReauth(r) ==
    /\ Track("reauth", got[r], IF got[r] = None THEN None ELSE conn[got[r]])
    /\ UNCHANGED got

\* The caller's callback, which calls the finish function.
Finish(r) ==
    /\ phase[r] = "returned"
    /\ phase' = [phase EXCEPT ![r] = "finished"]
    /\ IF kind[r] = "reauth" THEN FinishReauth(r) ELSE FinishGet(r)
    /\ UNCHANGED <<alive, enabled, conns, kind, conn, table, creating, data, answers, corrupt>>

-----------------------------------------------------------------------------
\* gdm_client_set_enabled_extensions
SetEnabledExtensions(names) ==
    /\ alive
    /\ enabled' = names
    /\ UNCHANGED <<alive, trackVars, conns, requestVars>>

\* The last reference goes; a request that is under way holds one.
Dispose ==
    /\ alive
    /\ \A r \in Requests : phase[r] \in {"none", "finished"} /\ creating[r] = {}
    /\ alive' = FALSE
    /\ slot' = [k \in Kinds |-> None]
    /\ handlers' = Untracked(Kinds)
    /\ UNCHANGED <<enabled, conns, requestVars>>

\* The display manager closes a connection (external).
ConnectionCloses(c) ==
    /\ conns[c] = "open"
    /\ conns' = [conns EXCEPT ![c] = "closing"]
    /\ UNCHANGED <<alive, enabled, trackVars, requestVars>>

\* The "closed" signal is dispatched: _untrack_proxy for every handler.
ClosedSignal(c) ==
    /\ conns[c] = "closing"
    /\ conns' = [conns EXCEPT ![c] = "closed"]
    /\ LET ks == {k \in Kinds : <<c, k>> \in handlers}
       IN /\ slot' = [k \in Kinds |-> IF k \in ks THEN None ELSE slot[k]]
          /\ handlers' = Untracked(ks)
    /\ UNCHANGED <<alive, enabled, requestVars>>

AsyncStep(r) ==
    \/ OnConnectionForUserVerifier(r) \/ OnConnectionForGreeter(r)
    \/ OnGotManager(r) \/ OnReauthenticationChannel(r)
    \/ OnGreeterProxyCreated(r) \/ OnUserVerifierProxyCreated(r) \/ OnExtensionsEnabled(r)
    \/ Finish(r)
    \/ \E e \in Supported : OnExtensionProxyCreated(r, e)

Next ==
    \/ \E r \in Requests :
          \/ AsyncStep(r)
          \/ GetUserVerifierSync(r) \/ GetGreeterSync(r) \/ GetUserVerifier(r) \/ GetGreeter(r)
          \/ OpenReauthSync(r) \/ OpenReauth(r)
    \/ \E c \in Connections : ConnectionCloses(c) \/ ClosedSignal(c)
    \/ \E names \in Lists : SetEnabledExtensions(names)
    \/ Dispose

\* The calls of a request return, with or without success; signals are dispatched.
Fairness ==
    /\ \A r \in Requests : WF_vars(AsyncStep(r))
    /\ \A c \in Connections : WF_vars(ClosedSignal(c))

Spec == Init /\ [][Next]_vars /\ Fairness

-----------------------------------------------------------------------------
\* Every variable has its type.
TypeOK ==
    /\ alive \in BOOLEAN
    /\ enabled \in Lists \cup {None}
    /\ slot \in [Kinds -> Requests \cup {None}]
    /\ handlers \subseteq Connections \X Kinds
    /\ conns \in [Connections -> {"unused", "open", "closing", "closed"}]
    /\ kind \in [Requests -> Kinds \cup {None}]
    /\ phase \in [Requests -> {"none", "unconnected", "connected", "manager", "channel", "proxy",
                               "enabling", "extending", "returned", "finished"}]
    /\ conn \in [Requests -> Connections \cup {None}]
    /\ table \in [Requests -> [Supported -> {"absent", "null", "proxy"}]]
    /\ creating \in [Requests -> SUBSET Supported]
    /\ data \in [Requests -> {"none", "live", "freed"}]
    /\ answers \in [Requests -> Nat]
    /\ got \in [Requests -> Requests \cup {None}]
    /\ corrupt \in BOOLEAN

\* A request's UserVerifierData, shared by the callbacks of its extension proxies, is
\* freed by the last of them and by no other: its task returns once, and the verifier
\* it hands out has no extension that is still being created.
CompletedOnce ==
    /\ ~corrupt
    /\ \A r \in Requests : answers[r] <= 1
    /\ \A r \in Requests :
          phase[r] = "finished" /\ got[r] # None =>
              \A e \in Supported : table[got[r]][e] # "null"

\* A finish function was called in this step, for an asynchronous request of kind k.
FinishedLate(k) ==
    \E r \in Requests : phase[r] = "returned" /\ phase'[r] = "finished" /\ kind[r] = k

\* What a step may do to the proxies that are tracked before or after it.
ProxiesKept ==
    \A k \in Kinds :
        /\ slot[k] # None /\ slot'[k] # slot[k] =>
              \/ conns[conn[slot[k]]] = "closing" /\ conns'[conn[slot[k]]] = "closed"
              \/ k = "reauth" /\ FinishedLate(k)
              \/ k = "reauth" /\ \E r \in Requests : phase[r] = "none" /\ phase'[r] = "finished"
        /\ slot'[k] # None /\ conns'[conn'[slot'[k]]] = "closed" =>
              \/ slot'[k] = slot[k] /\ conns[conn[slot[k]]] = "closed"
              \/ FinishedLate(k)

\* A proxy the client keeps goes when the end of its connection is dispatched, and not
\* for the end of any other; only a newer channel takes the place of a reauthentication
\* channel.  The one way to take up a proxy whose connection is closed already is to
\* finish an asynchronous request after the closing was dispatched: until the finish
\* function connects the "closed" handler nobody listens.  A client that is gone has
\* left no handler that would write into it.
ProxiesFollowConnections ==
    [][IF alive' THEN ProxiesKept ELSE handlers' = {}]_vars

\* Callers that overlap share one user verifier and one greeter: two proxies of a
\* kind are never in use on connections that are both open.
AgreeOnProxy ==
    \A r, q \in Requests :
        /\ phase[r] = "finished" /\ phase[q] = "finished"
        /\ kind[r] = kind[q] /\ kind[r] # "reauth"
        /\ got[r] # None /\ got[q] # None
        /\ conns[conn[got[r]]] = "open" /\ conns[conn[got[q]]] = "open"
        => got[r] = got[q]

\* An asynchronous request comes to its end.
RequestsComplete ==
    \A r \in Requests : phase[r] # "none" ~> phase[r] = "finished"
====
