----------------------- MODULE Reauthentication_proofs -----------------------
(***************************************************************************)
(* What holds of reauthentication for every number of sessions, login      *)
(* screens and requests: every channel has one place where it is looked    *)
(* for, a request that was alone is given its own channel, a temporary     *)
(* channel ends with its client, and nothing is unlocked without a         *)
(* verification.                                                           *)
(***************************************************************************)
EXTENDS Reauthentication, FiniteSetTheorems, SequenceTheorems, TLAPS

(***************************************************************************)
(* The inductive invariant.                                                *)
(***************************************************************************)

RequestSet == [caller : Callers \cup {None}, of : Sessions \cup {None},
               state : {"none", "denied", "sent", "answered"},
               address : Channels \cup {None}, alone : BOOLEAN]
ReplySet == [what : {"started", "refused", "reauthenticated"}, channel : Channels \cup {None}]
ChannelSet == [owner : {"none", "worker", "manager"}, of : Sessions \cup {None},
               caller : Callers \cup {None}, server : BOOLEAN,
               client : {"none", "connected", "gone"}, conv : BOOLEAN, verified : BOOLEAN]

\* The calls that no worker has handled yet: none of them lacks a channel to open,
\* because each came with a request.
Unhandled == {x \in Sessions \X Nat : x[2] \in DOMAIN calls[x[1]]}

CountInv ==
    /\ IsFiniteSet(Unhandled)
    /\ opened + Cardinality(Unhandled) <= asked

\* A channel has a server while anyone talks or a conversation runs on it; one that is
\* not opened yet is nothing; a temporary one goes with its client.
GoodChannel(r) ==
    /\ r.owner = "none" => ~r.server
    /\ r.client = "connected" \/ r.conv => r.server
    /\ r.owner = "worker" => r.of \in Sessions
    /\ r.owner # "none" => r.caller \in Callers
    /\ r.owner = "manager" /\ r.of = None => r.caller \in Sessions \cup Unmanaged

EndsWithClient(r) == r.owner = "manager" /\ r.client = "gone" => ~r.server

ChannelInv ==
    \A c \in Channels : /\ opened < c <=> chan[c].owner = "none"
                       /\ GoodChannel(chan[c]) /\ EndsWithClient(chan[c])

\* A channel is held by its own caller, in the worker's table or in the manager's.
TableInv ==
    /\ \A s \in Sessions, p \in Callers :
          table[s][p] # None => /\ chan[table[s][p]].owner = "worker"
                                /\ chan[table[s][p]].of = s /\ chan[table[s][p]].caller = p
    /\ \A p \in Callers :
          transient[p] # None => /\ chan[transient[p]].owner = "manager"
                                 /\ chan[transient[p]].caller = p

\* What a worker has sent names a channel of its session.
GoodReply(ch, s, m) ==
    m.what # "refused" =>
        /\ m.channel # None /\ ch[m.channel].owner # "none" /\ ch[m.channel].of = s
        /\ m.what = "reauthenticated" => ch[m.channel].verified

ReplyInv == \A s \in Sessions : \A k \in DOMAIN replies[s] : GoodReply(chan, s, replies[s][k])

\* A request that is answered has a channel.
AnswerInv ==
    \A i \in Requests :
        /\ asked < i <=> request[i].state = "none"
        /\ request[i].state = "answered" =>
              request[i].address # None /\ chan[request[i].address].owner # "none"
        /\ request[i].state = "sent" => request[i].of \in Sessions /\ request[i].caller \in Callers

WaitingInv ==
    \A p \in Callers :
        waiting[p] # None => request[waiting[p]].state = "sent" /\ request[waiting[p]].caller = p

\* The call of a request that is alone, or the reply to it, is the only one under way
\* at its session; the reply will find the caller, and the caller this request.
IsReply(s, k) == replies[s][k].what # "reauthenticated"

Alone(i, s, p) ==
    /\ waiting[p] = i
    /\ \A t \in Sessions \ {s} : reauthPid[t] # p
    /\ \A k \in DOMAIN calls[s] : k = 1 /\ calls[s][k] = p /\ reauthPid[s] = p
    /\ \A k \in DOMAIN replies[s] :
          IsReply(s, k) =>
              /\ calls[s] = <<>> /\ reauthPid[s] = p
              /\ \A l \in DOMAIN replies[s] : IsReply(s, l) => l = k
              /\ replies[s][k].what = "started" => chan[replies[s][k].channel].caller = p

AloneInv ==
    \A i \in Requests :
        request[i].state = "sent" /\ request[i].alone => Alone(i, request[i].of, request[i].caller)

\* What is unlocked or redirected was verified on a channel of its own.
Earned(c, s) == chan[c].owner # "none" /\ chan[c].verified /\ s \in {chan[c].of, chan[c].caller}

EarnedInv ==
    /\ \A s \in unlocked : \E c \in Channels : Earned(c, s)
    /\ \A s \in Sessions :
          redirected[s] # None =>
              \E c \in Channels : /\ chan[c].owner # "none" /\ chan[c].verified
                                 /\ chan[c].of = s /\ chan[c].caller = redirected[s]

Types ==
    /\ session \in [Sessions -> {"running", "frozen", "over", "ended"}]
    /\ request \in [Requests -> RequestSet]
    /\ asked \in 0..MaxRequests
    /\ waiting \in [Callers -> Requests \cup {None}]
    /\ reauthPid \in [Sessions -> Callers \cup {None}]
    /\ calls \in [Sessions -> Seq(Callers)]
    /\ replies \in [Sessions -> Seq(ReplySet)]
    /\ chan \in [Channels -> ChannelSet]
    /\ opened \in 0..MaxRequests
    /\ table \in [Sessions -> [Callers -> Channels \cup {None}]]
    /\ transient \in [Callers -> Channels \cup {None}]
    /\ unlocked \subseteq Sessions \cup Unmanaged
    /\ redirected \in [Sessions -> LoginScreens \cup {None}]

ReauthInv ==
    /\ Types /\ CountInv /\ ChannelInv /\ TableInv /\ ReplyInv
    /\ AnswerInv /\ WaitingInv /\ AloneInv /\ OwnChannel /\ EarnedInv

-----------------------------------------------------------------------------
(***************************************************************************)
(* The life of a channel.                                                  *)
(***************************************************************************)

\* A channel keeps its owner, its session and its caller, and stays verified.
SameChannel(old, new) ==
    /\ new.owner = old.owner /\ new.of = old.of /\ new.caller = old.caller
    /\ old.verified => new.verified

\* What is left of a channel that is disposed of.
LEMMA DisposedChannel ==
    ASSUME NEW r \in ChannelSet
    PROVE  /\ Disposed(r) \in ChannelSet /\ SameChannel(r, Disposed(r))
           /\ ~Disposed(r).server /\ ~Disposed(r).conv /\ Disposed(r).client # "connected"
BY DEF Disposed, ChannelSet, SameChannel

\* A new channel belongs to its caller.
LEMMA NewChannelFields ==
    ASSUME NEW o \in {"worker", "manager"}, NEW s \in Sessions \cup {None}, NEW p \in Callers
    PROVE  LET r == NewChannel(o, s, p)
           IN /\ r \in ChannelSet /\ r.owner = o /\ r.of = s /\ r.caller = p
              /\ r.client = "none" /\ r.server /\ ~r.conv
BY DEF NewChannel, NoChannel, ChannelSet

\* A channel without its conversation.
LEMMA ConvStopped ==
    ASSUME NEW r \in ChannelSet
    PROVE  \E x \in ChannelSet :
               /\ x = [r EXCEPT !.conv = FALSE] /\ SameChannel(r, x)
               /\ x.server = r.server /\ x.client = r.client /\ ~x.conv
<1> DEFINE x == [r EXCEPT !.conv = FALSE]
<1>1. x \in ChannelSet
  BY DEF ChannelSet
<1>2. SameChannel(r, x) /\ x.server = r.server /\ x.client = r.client /\ ~x.conv
  BY DEF ChannelSet, SameChannel
<1> QED BY <1>1, <1>2

\* A conversation begins.
LEMMA ConvBegun ==
    ASSUME NEW r \in ChannelSet
    PROVE  \E x \in ChannelSet :
               /\ x = [r EXCEPT !.conv = TRUE] /\ SameChannel(r, x)
               /\ x.server = r.server /\ x.client = r.client
<1> DEFINE x == [r EXCEPT !.conv = TRUE]
<1>1. x \in ChannelSet
  BY DEF ChannelSet
<1>2. SameChannel(r, x) /\ x.server = r.server /\ x.client = r.client
  BY DEF ChannelSet, SameChannel
<1> QED BY <1>1, <1>2

\* The client connects.
LEMMA Joined ==
    ASSUME NEW r \in ChannelSet
    PROVE  \E x \in ChannelSet :
               /\ x = [r EXCEPT !.client = "connected"] /\ SameChannel(r, x)
               /\ x.server = r.server /\ x.client = "connected"
<1> DEFINE x == [r EXCEPT !.client = "connected"]
<1>1. x \in ChannelSet
  BY DEF ChannelSet
<1>2. SameChannel(r, x) /\ x.server = r.server /\ x.client = "connected"
  BY DEF ChannelSet, SameChannel
<1> QED BY <1>1, <1>2

\* The client goes.
LEMMA Left ==
    ASSUME NEW r \in ChannelSet
    PROVE  \E x \in ChannelSet :
               /\ x = [r EXCEPT !.client = "gone"] /\ SameChannel(r, x)
               /\ x.server = r.server /\ x.conv = r.conv /\ x.client = "gone"
<1> DEFINE x == [r EXCEPT !.client = "gone"]
<1>1. x \in ChannelSet
  BY DEF ChannelSet
<1>2. SameChannel(r, x) /\ x.server = r.server /\ x.conv = r.conv /\ x.client = "gone"
  BY DEF ChannelSet, SameChannel
<1> QED BY <1>1, <1>2

\* The user is verified.
LEMMA Verified ==
    ASSUME NEW r \in ChannelSet
    PROVE  \E x \in ChannelSet :
               /\ x = [r EXCEPT !.verified = TRUE] /\ SameChannel(r, x)
               /\ x.verified /\ x.server = r.server /\ x.conv = r.conv /\ x.client = r.client
<1> DEFINE x == [r EXCEPT !.verified = TRUE]
<1>1. x \in ChannelSet
  BY DEF ChannelSet
<1>2. SameChannel(r, x) /\ x.verified /\ x.server = r.server /\ x.conv = r.conv /\ x.client = r.client
  BY DEF ChannelSet, SameChannel
<1> QED BY <1>1, <1>2

\* The user is verified and the conversation over.
LEMMA VerifiedAndStopped ==
    ASSUME NEW r \in ChannelSet
    PROVE  \E x \in ChannelSet :
               /\ x = [r EXCEPT !.conv = FALSE, !.verified = TRUE] /\ SameChannel(r, x)
               /\ x.verified /\ x.server = r.server /\ x.client = r.client
<1> DEFINE x == [r EXCEPT !.conv = FALSE, !.verified = TRUE]
<1>1. x \in ChannelSet
  BY DEF ChannelSet
<1>2. SameChannel(r, x) /\ x.verified /\ x.server = r.server /\ x.client = r.client
  BY DEF ChannelSet, SameChannel
<1> QED BY <1>1, <1>2

\* One value of a function changes.
LEMMA OneChanges ==
    ASSUME NEW f \in [Channels -> ChannelSet], NEW c \in Channels, NEW x \in ChannelSet
    PROVE  \E g \in [Channels -> ChannelSet] :
               /\ g = [f EXCEPT ![c] = x] /\ g[c] = x
               /\ \A d \in Channels \ {c} : g[d] = f[d]
<1> DEFINE g == [f EXCEPT ![c] = x]
<1>1. g \in [Channels -> ChannelSet] /\ g[c] = x /\ \A d \in Channels \ {c} : g[d] = f[d]
  OBVIOUS
<1> QED BY <1>1

\* When the references are counted, a channel stays as it is or is disposed of, and one
\* without a conversation that is held nowhere is not left with its server.
LEMMA Settled ==
    ASSUME NEW ch \in [Channels -> ChannelSet], NEW tb, NEW tr, Settle(ch, tb, tr),
           NEW d \in Channels
    PROVE  /\ chan'[d] \in ChannelSet /\ SameChannel(ch[d], chan'[d])
           /\ \/ chan'[d] = ch[d]
              \/ ~chan'[d].server /\ ~chan'[d].conv /\ chan'[d].client # "connected"
           /\ ~ch[d].conv /\ ~Held(d, tb, tr) => ~chan'[d].server
<1>1. chan'[d] = IF ch[d].server /\ ~ch[d].conv /\ ~Held(d, tb, tr)
                 THEN Disposed(ch[d]) ELSE ch[d]
  BY DEF Settle
<1>2. ch[d] \in ChannelSet
  OBVIOUS
<1>3. CASE ch[d].server /\ ~ch[d].conv /\ ~Held(d, tb, tr)
  BY <1>1, <1>2, <1>3, DisposedChannel
<1>4. CASE ~(ch[d].server /\ ~ch[d].conv /\ ~Held(d, tb, tr))
  <2>1. chan'[d] = ch[d]
    BY <1>1, <1>4
  <2> QED BY <1>2, <1>4, <2>1 DEF SameChannel
<1> QED BY <1>3, <1>4

\* A good channel stays good.
LEMMA StaysGood ==
    ASSUME NEW old \in ChannelSet, NEW new \in ChannelSet, GoodChannel(old), SameChannel(old, new),
           new.client = "connected" \/ new.conv => new.server,
           new.server => old.server
    PROVE  GoodChannel(new)
BY DEF GoodChannel, SameChannel

\* A step of channels alone: they keep their identity and stay good, no channel gets
\* into a table, and what is unlocked is unlocked for a channel that was verified.
ChannelsMove ==
    /\ chan' \in [Channels -> ChannelSet]
    /\ \A d \in Channels : /\ SameChannel(chan[d], chan'[d])
                           /\ GoodChannel(chan'[d]) /\ EndsWithClient(chan'[d])

TablesShrink ==
    /\ table' \in [Sessions -> [Callers -> Channels \cup {None}]]
    /\ \A s \in Sessions, p \in Callers : table'[s][p] \in {table[s][p], None}
    /\ transient' \in [Callers -> Channels \cup {None}]
    /\ \A p \in Callers : transient'[p] \in {transient[p], None}

UnlocksEarned ==
    /\ unlocked' \subseteq Sessions \cup Unmanaged
    /\ \A s \in unlocked' \ unlocked :
          \E c \in Channels : /\ chan'[c].owner # "none" /\ chan'[c].verified
                             /\ s \in {chan'[c].of, chan'[c].caller}

ChannelMoves ==
    /\ UNCHANGED <<askVars, sessionVars, opened, redirected>>
    /\ ChannelsMove /\ TablesShrink /\ UnlocksEarned

\* The channel that is looked for at the manager under its own caller is held there
\* and nowhere else.
LEMMA HeldOnce ==
    ASSUME Types, TableInv, NEW c \in Channels, chan[c].owner = "manager",
           chan[c].caller \in Callers
    PROVE  ~Held(c, table, [transient EXCEPT ![chan[c].caller] = None])
<1>1. c # None
  BY ReauthAssumptions DEF Channels
<1>2. \A s \in Sessions, p \in Callers : table[s][p] # c
  BY <1>1 DEF TableInv
<1>3. \A p \in Callers : [transient EXCEPT ![chan[c].caller] = None][p] # c
  BY <1>1 DEF TableInv, Types
<1> QED BY <1>2, <1>3 DEF Held

\* close_transient_session leaves a channel without a server, and so good.
LEMMA ClosedTransient ==
    ASSUME Types, ChannelInv, TableInv, NEW c \in Channels, chan[c].owner = "manager",
           NEW ch \in [Channels -> ChannelSet], \A d \in Channels \ {c} : ch[d] = chan[d],
           SameChannel(chan[c], ch[c]), ch[c].server = chan[c].server,
           ch[c].client = "connected" => chan[c].client = "connected",
           CloseTransient(c, ch)
    PROVE  /\ ChannelsMove /\ TablesShrink
           /\ ~chan'[c].server /\ (ch[c].verified => chan'[c].verified)
<1> DEFINE x == [ch EXCEPT ![c].conv = FALSE]
           tr == [transient EXCEPT ![chan[c].caller] = None]
<1>1. chan[c] \in ChannelSet /\ ch[c] \in ChannelSet /\ GoodChannel(chan[c])
  BY DEF Types, ChannelInv
<1>2. chan[c].caller \in Callers
  BY <1>1 DEF GoodChannel
<1>3. PICK y \in ChannelSet : /\ y = [ch[c] EXCEPT !.conv = FALSE] /\ SameChannel(ch[c], y)
                             /\ y.server = ch[c].server /\ y.client = ch[c].client /\ ~y.conv
  BY <1>1, ConvStopped
<1>4. /\ x \in [Channels -> ChannelSet] /\ x[c] = y
      /\ \A d \in Channels \ {c} : x[d] = ch[d]
  BY <1>3
<1>5. Settle(x, table, tr)
  BY DEF CloseTransient
<1> HIDE DEF x, tr
<1>6. ~Held(c, table, tr)
  BY <1>2, HeldOnce DEF tr
<1>7. \A d \in Channels : /\ chan'[d] \in ChannelSet /\ SameChannel(x[d], chan'[d])
                          /\ \/ chan'[d] = x[d]
                             \/ ~chan'[d].server /\ ~chan'[d].conv /\ chan'[d].client # "connected"
  BY <1>4, <1>5, Settled
<1>8. ~chan'[c].server /\ ~chan'[c].conv /\ chan'[c].client # "connected"
  <2>1. ~chan'[c].server
    BY <1>3, <1>4, <1>5, <1>6, Settled
  <2> QED BY <2>1, <1>1, <1>3, <1>4, <1>7 DEF GoodChannel
<1>9. SameChannel(chan[c], chan'[c]) /\ (ch[c].verified => chan'[c].verified)
  BY <1>3, <1>4, <1>7 DEF SameChannel
<1>10. GoodChannel(chan'[c]) /\ EndsWithClient(chan'[c])
  <2>1. chan'[c] \in ChannelSet
    BY <1>7
  <2> QED BY <1>1, <1>8, <1>9, <2>1, StaysGood DEF EndsWithClient
<1>11. \A d \in Channels \ {c} :
          SameChannel(chan[d], chan'[d]) /\ GoodChannel(chan'[d]) /\ EndsWithClient(chan'[d])
  <2> TAKE d \in Channels \ {c}
  <2>1. x[d] = chan[d] /\ chan[d] \in ChannelSet /\ GoodChannel(chan[d]) /\ EndsWithClient(chan[d])
    BY <1>4 DEF Types, ChannelInv
  <2>2. /\ chan'[d] \in ChannelSet /\ SameChannel(chan[d], chan'[d])
        /\ \/ chan'[d] = chan[d]
           \/ ~chan'[d].server /\ ~chan'[d].conv /\ chan'[d].client # "connected"
    BY <1>7, <2>1
  <2> QED BY <2>1, <2>2, StaysGood DEF EndsWithClient
<1>12. chan' \in [Channels -> ChannelSet]
  BY <1>5, <1>7 DEF Settle
<1>13. ChannelsMove
  BY <1>9, <1>10, <1>11, <1>12 DEF ChannelsMove
<1>14. table' = table /\ transient' = tr
  BY <1>5 DEF Settle
<1>15. TablesShrink
  BY <1>2, <1>14 DEF TablesShrink, Types, tr
<1> QED BY <1>8, <1>9, <1>13, <1>15

\* Steps that change one channel, or count the references, and are not the end of a
\* temporary one.
LEMMA SettledAround ==
    ASSUME Types, ChannelInv, NEW c \in Channels, NEW x \in ChannelSet, NEW tb,
           SameChannel(chan[c], x), x.server = chan[c].server,
           x.client = "connected" \/ x.conv => x.server, EndsWithClient(x),
           Settle([chan EXCEPT ![c] = x], tb, transient)
    PROVE  ChannelsMove /\ (x.verified => chan'[c].verified)
<1> DEFINE ch == [chan EXCEPT ![c] = x]
<1>1. ch \in [Channels -> ChannelSet] /\ ch[c] = x /\ \A d \in Channels \ {c} : ch[d] = chan[d]
  BY DEF Types
<1>2. Settle(ch, tb, transient)
  OBVIOUS
<1> HIDE DEF ch
<1>3. \A d \in Channels : chan[d] \in ChannelSet /\ GoodChannel(chan[d]) /\ EndsWithClient(chan[d])
  BY DEF Types, ChannelInv
<1>4. \A d \in Channels : ch[d] \in ChannelSet /\ GoodChannel(ch[d]) /\ EndsWithClient(ch[d])
                          /\ SameChannel(chan[d], ch[d])
  <2> TAKE d \in Channels
  <2>1. CASE d = c
    BY <2>1, <1>1, <1>3, StaysGood
  <2>2. CASE d # c
    BY <2>2, <1>1, <1>3 DEF SameChannel
  <2> QED BY <2>1, <2>2
<1>5. \A d \in Channels : /\ chan'[d] \in ChannelSet /\ SameChannel(ch[d], chan'[d])
                          /\ \/ chan'[d] = ch[d]
                             \/ ~chan'[d].server /\ ~chan'[d].conv /\ chan'[d].client # "connected"
  BY <1>1, <1>2, Settled
<1>6. \A d \in Channels :
          SameChannel(chan[d], chan'[d]) /\ GoodChannel(chan'[d]) /\ EndsWithClient(chan'[d])
  <2> TAKE d \in Channels
  <2>1. /\ ch[d] \in ChannelSet /\ GoodChannel(ch[d]) /\ EndsWithClient(ch[d])
        /\ SameChannel(chan[d], ch[d]) /\ chan'[d] \in ChannelSet /\ SameChannel(ch[d], chan'[d])
    BY <1>4, <1>5
  <2>2. SameChannel(chan[d], chan'[d])
    BY <2>1 DEF SameChannel
  <2>3. GoodChannel(chan'[d])
    BY <1>5, <2>1, StaysGood
  <2>4. EndsWithClient(chan'[d])
    BY <1>5, <2>1 DEF EndsWithClient
  <2> QED BY <2>2, <2>3, <2>4
<1>7. chan' \in [Channels -> ChannelSet]
  BY <1>2, <1>5 DEF Settle
<1> QED BY <1>1, <1>5, <1>6, <1>7 DEF ChannelsMove, SameChannel

\* The same without a count.
LEMMA ChangedOne ==
    ASSUME Types, ChannelInv, NEW c \in Channels, NEW x \in ChannelSet,
           SameChannel(chan[c], x), x.server = chan[c].server,
           x.client = "connected" \/ x.conv => x.server, EndsWithClient(x),
           chan' = [chan EXCEPT ![c] = x]
    PROVE  ChannelsMove /\ (x.verified => chan'[c].verified)
<1>1. /\ chan' \in [Channels -> ChannelSet] /\ chan'[c] = x
      /\ \A d \in Channels \ {c} : chan'[d] = chan[d]
  BY DEF Types
<1>2. \A d \in Channels : chan[d] \in ChannelSet /\ GoodChannel(chan[d]) /\ EndsWithClient(chan[d])
  BY DEF Types, ChannelInv
<1>3. \A d \in Channels :
          SameChannel(chan[d], chan'[d]) /\ GoodChannel(chan'[d]) /\ EndsWithClient(chan'[d])
  <2> TAKE d \in Channels
  <2>1. CASE d = c
    BY <2>1, <1>1, <1>2, StaysGood
  <2>2. CASE d # c
    BY <2>2, <1>1, <1>2 DEF SameChannel
  <2> QED BY <2>1, <2>2
<1> QED BY <1>1, <1>3 DEF ChannelsMove

-----------------------------------------------------------------------------
(***************************************************************************)
(* The steps, sorted by what they do to requests, calls and replies.       *)
(***************************************************************************)

\* Every channel came with a request: while a call is under way there is room for one.
LEMMA RoomForChannel ==
    ASSUME Types, CountInv
    PROVE  /\ opened <= asked
           /\ \A s \in Sessions : calls[s] # <<>> => opened < asked
<1>1. Cardinality(Unhandled) \in Nat /\ opened \in Nat /\ asked \in Nat
  BY FS_CardinalityType, ReauthAssumptions DEF CountInv, Types
<1>2. ASSUME NEW s \in Sessions, calls[s] # <<>> PROVE opened < asked
  <2>1. 1 \in DOMAIN calls[s]
    BY <1>2 DEF Types
  <2>2. <<s, 1>> \in Unhandled
    BY <2>1 DEF Unhandled
  <2>3. Cardinality(Unhandled) # 0
    BY <2>2, FS_EmptySet DEF CountInv
  <2> QED BY <1>1, <2>3 DEF CountInv
<1> QED BY <1>1, <1>2 DEF CountInv

\* A channel is opened; the others keep their identity.
ChannelsGrow(o, s, p) ==
    /\ opened \in Nat /\ opened + 1 \in Channels /\ opened' = opened + 1
    /\ chan' \in [Channels -> ChannelSet]
    /\ chan[opened + 1].owner = "none"
    /\ chan'[opened + 1].owner = o /\ chan'[opened + 1].of = s /\ chan'[opened + 1].caller = p
    /\ \A d \in Channels \ {opened + 1} : SameChannel(chan[d], chan'[d])
    /\ \A d \in Channels : GoodChannel(chan'[d]) /\ EndsWithClient(chan'[d])

\* Opening a channel makes them grow.
LEMMA ChannelOpened ==
    ASSUME Types, ChannelInv, opened < MaxRequests, opened' = opened + 1,
           NEW o \in {"worker", "manager"}, NEW s \in Sessions \cup {None}, NEW p \in Callers,
           o = "worker" => s \in Sessions,
           s = None => p \in Sessions \cup Unmanaged,
           NEW tb, NEW tr, Settle([chan EXCEPT ![opened + 1] = NewChannel(o, s, p)], tb, tr)
    PROVE  ChannelsGrow(o, s, p)
<1>0. opened \in Nat /\ opened + 1 \in Channels
  BY ReauthAssumptions DEF Types, Channels
<1>1. PICK n \in ChannelSet : /\ n = NewChannel(o, s, p) /\ n.owner = o /\ n.of = s /\ n.caller = p
                              /\ n.client = "none" /\ n.server /\ ~n.conv
  BY NewChannelFields
<1>2. PICK ch \in [Channels -> ChannelSet] :
          /\ ch = [chan EXCEPT ![opened + 1] = n] /\ ch[opened + 1] = n
          /\ \A d \in Channels \ {opened + 1} : ch[d] = chan[d]
  <2>1. chan \in [Channels -> ChannelSet]
    BY DEF Types
  <2>2. PICK k \in Channels : k = opened + 1
    BY <1>0
  <2>3. \E ch \in [Channels -> ChannelSet] :
            /\ ch = [chan EXCEPT ![k] = n] /\ ch[k] = n
            /\ \A d \in Channels \ {k} : ch[d] = chan[d]
    <3> DEFINE g == [chan EXCEPT ![k] = n]
    <3>1. g \in [Channels -> ChannelSet] /\ g[k] = n /\ \A d \in Channels \ {k} : g[d] = chan[d]
      BY <2>1
    <3> QED BY <3>1
  <2> QED BY <2>2, <2>3
<1>20. Settle(ch, tb, tr)
  BY <1>1, <1>2
<1>3. \A d \in Channels : chan[d] \in ChannelSet /\ GoodChannel(chan[d]) /\ EndsWithClient(chan[d])
  BY DEF Types, ChannelInv
<1>4. chan[opened + 1].owner = "none"
  BY <1>0 DEF ChannelInv
<1>5. GoodChannel(n) /\ EndsWithClient(n)
  BY <1>1 DEF GoodChannel, EndsWithClient
<1>6. \A d \in Channels : ch[d] \in ChannelSet /\ GoodChannel(ch[d]) /\ EndsWithClient(ch[d])
  BY <1>1, <1>2, <1>3, <1>5
<1>7. \A d \in Channels : /\ chan'[d] \in ChannelSet /\ SameChannel(ch[d], chan'[d])
                          /\ \/ chan'[d] = ch[d]
                             \/ ~chan'[d].server /\ ~chan'[d].conv /\ chan'[d].client # "connected"
  BY <1>2, <1>20, Settled
<1>8. \A d \in Channels : GoodChannel(chan'[d]) /\ EndsWithClient(chan'[d])
  <2> TAKE d \in Channels
  <2>1. /\ ch[d] \in ChannelSet /\ GoodChannel(ch[d]) /\ EndsWithClient(ch[d])
        /\ chan'[d] \in ChannelSet /\ SameChannel(ch[d], chan'[d])
    BY <1>6, <1>7
  <2>2. GoodChannel(chan'[d])
    BY <1>7, <2>1, StaysGood
  <2>3. EndsWithClient(chan'[d])
    BY <1>7, <2>1 DEF EndsWithClient
  <2> QED BY <2>2, <2>3
<1>9. \A d \in Channels \ {opened + 1} : SameChannel(chan[d], chan'[d])
  BY <1>2, <1>7
<1>10. /\ chan'[opened + 1].owner = o /\ chan'[opened + 1].of = s /\ chan'[opened + 1].caller = p
  BY <1>0, <1>1, <1>2, <1>7 DEF SameChannel
<1>11. chan' \in [Channels -> ChannelSet]
  BY <1>20, <1>7 DEF Settle
<1> QED BY <1>0, <1>4, <1>8, <1>9, <1>10, <1>11 DEF ChannelsGrow

Denies(p) == asked < MaxRequests /\ asked' = asked + 1 /\ Deny(asked + 1, p)

Asks(p, s) == asked < MaxRequests /\ asked' = asked + 1 /\ StartReauthentication(asked + 1, p, s)

OpensTemporary(p, s) ==
    /\ asked < MaxRequests /\ asked' = asked + 1
    /\ request' = NewRequest(asked + 1, p, s, "answered", opened + 1)
    /\ ChannelsGrow("manager", s, p)
    /\ table' = table /\ transient' = [transient EXCEPT ![p] = opened + 1]
    /\ UNCHANGED <<waiting, sessionVars, outVars>>

OpensChannel(s, p) ==
    /\ calls[s] # <<>> /\ p = Head(calls[s])
    /\ calls' = [calls EXCEPT ![s] = Tail(@)]
    /\ replies' = [replies EXCEPT ![s] = Append(@, [what |-> "started", channel |-> opened + 1])]
    /\ ChannelsGrow("worker", s, p)
    /\ table' = [table EXCEPT ![s][p] = opened + 1] /\ transient' = transient
    /\ UNCHANGED <<askVars, session, reauthPid, outVars>>

RefusesCall(s) ==
    /\ calls[s] # <<>>
    /\ calls' = [calls EXCEPT ![s] = Tail(@)]
    /\ replies' = [replies EXCEPT ![s] = Append(@, [what |-> "refused", channel |-> None])]
    /\ UNCHANGED <<askVars, session, reauthPid, chanVars, outVars>>

Answers(s, p) ==
    /\ replies[s] # <<>> /\ Head(replies[s]).what = "started"
    /\ reauthPid[s] = p /\ waiting[p] # None
    /\ request' = [request EXCEPT ![waiting[p]].state = "answered",
                                  ![waiting[p]].address = Head(replies[s]).channel]
    /\ waiting' = [waiting EXCEPT ![p] = None]
    /\ reauthPid' = [reauthPid EXCEPT ![s] = None]
    /\ replies' = [replies EXCEPT ![s] = Tail(@)]
    /\ UNCHANGED <<asked, session, calls, chanVars, outVars>>

Ignores(s) ==
    /\ replies[s] # <<>> /\ Head(replies[s]).what # "reauthenticated"
    /\ reauthPid' = [reauthPid EXCEPT ![s] = None]
    /\ replies' = [replies EXCEPT ![s] = Tail(@)]
    /\ UNCHANGED <<askVars, session, calls, chanVars, outVars>>

SignalsVerified(c) ==
    /\ chan[c].owner = "worker" /\ chan[c].of \in Sessions /\ ChannelsMove /\ chan'[c].verified
    /\ replies' = [replies EXCEPT ![chan[c].of] =
                      Append(@, [what |-> "reauthenticated", channel |-> c])]
    /\ UNCHANGED <<askVars, session, reauthPid, calls, opened, table, transient, outVars>>

Closes(s) ==
    /\ session' = [session EXCEPT ![s] = "ended"]
    /\ calls' = [calls EXCEPT ![s] = <<>>]
    /\ replies' = [replies EXCEPT ![s] = <<>>]
    /\ reauthPid' = [reauthPid EXCEPT ![s] = None]
    /\ ChannelsMove /\ TablesShrink
    /\ UNCHANGED <<askVars, opened, outVars>>

SessionMoves ==
    /\ session' \in [Sessions -> {"running", "frozen", "over", "ended"}]
    /\ UNCHANGED <<askVars, reauthPid, calls, replies, chanVars, outVars>>

\* The steps of a channel.
LEMMA ChannelCases ==
    ASSUME Types, ChannelInv, TableInv, NEW c \in Channels, ChannelStep(c)
    PROVE  ChannelMoves \/ SignalsVerified(c)
<1>0. /\ chan[c] \in ChannelSet /\ GoodChannel(chan[c]) /\ EndsWithClient(chan[c])
      /\ chan \in [Channels -> ChannelSet]
  BY DEF Types, ChannelInv
<1>1. TablesShrink \/ ~UNCHANGED <<table, transient>>
  BY DEF TablesShrink, Types
<1>2. UnlocksEarned \/ ~UNCHANGED unlocked
  BY DEF UnlocksEarned, Types
<1>3. CASE RejectClient(c)
  <2>1. SameChannel(chan[c], chan[c])
    BY DEF SameChannel
  <2>2. ChannelsMove /\ TablesShrink
    BY <1>0, <1>3, <2>1, ClosedTransient DEF RejectClient
  <2> QED BY <1>2, <1>3, <2>2 DEF RejectClient, ChannelMoves, outVars
<1>4. CASE BeginVerification(c)
  <2>1. PICK x \in ChannelSet : /\ x = [chan[c] EXCEPT !.conv = TRUE] /\ SameChannel(chan[c], x)
                                /\ x.server = chan[c].server /\ x.client = chan[c].client
    BY <1>0, ConvBegun
  <2>2. chan' = [chan EXCEPT ![c] = x] /\ chan[c].client = "connected"
    BY <1>4, <2>1 DEF BeginVerification, Talks
  <2>3. x.server /\ EndsWithClient(x)
    BY <1>0, <2>1, <2>2 DEF GoodChannel, EndsWithClient
  <2>4. ChannelsMove
    BY <2>1, <2>2, <2>3, ChangedOne
  <2> QED BY <1>1, <1>2, <1>4, <2>4 DEF BeginVerification, ChannelMoves, outVars
<1>5. CASE ConversationStops(c)
  <2>1. PICK x \in ChannelSet : /\ x = [chan[c] EXCEPT !.conv = FALSE] /\ SameChannel(chan[c], x)
                                /\ x.server = chan[c].server /\ x.client = chan[c].client /\ ~x.conv
    BY <1>0, ConvStopped
  <2>2. Settle([chan EXCEPT ![c] = x], table, transient)
    BY <1>5, <2>1 DEF ConversationStops
  <2>3. (x.client = "connected" \/ x.conv => x.server) /\ EndsWithClient(x)
    BY <1>0, <2>1 DEF GoodChannel, EndsWithClient, SameChannel
  <2>4. ChannelsMove
    BY <2>1, <2>2, <2>3, SettledAround
  <2>5. UNCHANGED <<table, transient>>
    BY <2>2 DEF Settle
  <2> QED BY <1>1, <1>2, <1>5, <2>4, <2>5 DEF ConversationStops, ChannelMoves, outVars
<1>6. CASE Cancel(c)
  <2>1. CASE chan[c].owner = "manager" /\ CloseTransient(c, chan)
    <3>1. SameChannel(chan[c], chan[c])
      BY DEF SameChannel
    <3>2. ChannelsMove /\ TablesShrink
      BY <1>0, <2>1, <3>1, ClosedTransient
    <3> QED BY <1>2, <1>6, <3>2 DEF Cancel, ChannelMoves, outVars
  <2>2. CASE /\ chan' = IF Tracked(c) THEN [chan EXCEPT ![c].conv = FALSE] ELSE chan
             /\ UNCHANGED <<table, transient>>
    <3>1. PICK x \in ChannelSet : /\ x = [chan[c] EXCEPT !.conv = FALSE] /\ SameChannel(chan[c], x)
                                  /\ x.server = chan[c].server /\ x.client = chan[c].client /\ ~x.conv
      BY <1>0, ConvStopped
    <3>2. PICK y \in {x, chan[c]} : chan' = [chan EXCEPT ![c] = y]
      BY <1>0, <2>2, <3>1
    <3>3. /\ y \in ChannelSet /\ SameChannel(chan[c], y) /\ y.server = chan[c].server
          /\ y.client = chan[c].client /\ (y.conv => chan[c].conv)
      BY <1>0, <3>1, <3>2 DEF SameChannel
    <3>4. (y.client = "connected" \/ y.conv => y.server) /\ EndsWithClient(y)
      BY <1>0, <3>3 DEF GoodChannel, EndsWithClient, SameChannel
    <3>5. ChannelsMove
      BY <3>2, <3>3, <3>4, ChangedOne
    <3> QED BY <1>1, <1>2, <1>6, <2>2, <3>5 DEF Cancel, ChannelMoves, outVars
  <2> QED BY <1>6, <2>1, <2>2 DEF Cancel
<1>7. CASE Disconnect(c)
  <2>1. PICK x \in ChannelSet : /\ x = [chan[c] EXCEPT !.client = "gone"] /\ SameChannel(chan[c], x)
                                /\ x.server = chan[c].server /\ x.conv = chan[c].conv
                                /\ x.client = "gone"
    BY <1>0, Left
  <2>2. PICK ch \in [Channels -> ChannelSet] :
            /\ ch = [chan EXCEPT ![c] = x] /\ ch[c] = x
            /\ \A d \in Channels \ {c} : ch[d] = chan[d]
    BY <1>0, OneChanges
  <2>20. ch = [chan EXCEPT ![c].client = "gone"]
    BY <2>1, <2>2
  <2>3. CASE chan[c].owner = "manager" /\ CloseTransient(c, ch)
    <3>1. ChannelsMove /\ TablesShrink
      BY <1>0, <2>1, <2>2, <2>3, ClosedTransient
    <3> QED BY <1>2, <1>7, <3>1 DEF Disconnect, ChannelMoves, outVars
  <2>4. CASE chan[c].owner = "worker" /\ Settle(ch, Removed(c), transient)
    <3>1. (x.client = "connected" \/ x.conv => x.server) /\ EndsWithClient(x)
      BY <1>0, <2>1, <2>4 DEF GoodChannel, EndsWithClient, SameChannel
    <3>2. ChannelsMove
      BY <2>1, <2>2, <2>4, <3>1, SettledAround
    <3>3. table' = Removed(c) /\ transient' = transient
      BY <2>4 DEF Settle
    <3>4. chan[c].of \in Sessions /\ chan[c].caller \in Callers
      BY <1>0, <2>4 DEF GoodChannel
    <3>5. TablesShrink
      BY <3>3, <3>4 DEF Removed, TablesShrink, Types
    <3> QED BY <1>2, <1>7, <3>2, <3>5 DEF Disconnect, ChannelMoves, outVars
  <2> QED BY <1>7, <2>20, <2>3, <2>4 DEF Disconnect
<1>8. CASE VerificationComplete(c)
  <2>1. chan[c].of \in Sessions /\ chan[c].conv /\ chan[c].owner = "worker" /\ chan[c].server
    BY <1>0, <1>8 DEF VerificationComplete, GoodChannel
  <2>2. PICK x \in ChannelSet : /\ x = [chan[c] EXCEPT !.verified = TRUE] /\ SameChannel(chan[c], x)
                                /\ x.verified /\ x.server = chan[c].server
                                /\ x.conv = chan[c].conv /\ x.client = chan[c].client
    BY <1>0, Verified
  <2>3. CASE chan' = [chan EXCEPT ![c].verified = TRUE] /\ UNCHANGED replies
    <3>1. chan' = [chan EXCEPT ![c] = x]
      BY <2>2, <2>3
    <3>2. (x.client = "connected" \/ x.conv => x.server) /\ EndsWithClient(x)
      BY <1>0, <2>1, <2>2 DEF GoodChannel, EndsWithClient, SameChannel
    <3>3. ChannelsMove
      BY <2>2, <3>1, <3>2, ChangedOne
    <3> QED BY <1>1, <1>2, <1>8, <2>3, <3>3 DEF VerificationComplete, ChannelMoves, outVars,
               sessionVars
  <2>4. CASE /\ chan' = [chan EXCEPT ![c].conv = FALSE, ![c].verified = TRUE]
             /\ replies' = [replies EXCEPT ![chan[c].of] =
                            Append(@, [what |-> "reauthenticated", channel |-> c])]
    <3>1. PICK y \in ChannelSet : /\ y = [chan[c] EXCEPT !.conv = FALSE, !.verified = TRUE]
                                  /\ SameChannel(chan[c], y) /\ y.verified
                                  /\ y.server = chan[c].server /\ y.client = chan[c].client
      BY <1>0, VerifiedAndStopped
    <3>2. chan' = [chan EXCEPT ![c] = y]
      BY <2>4, <3>1
    <3>3. (y.client = "connected" \/ y.conv => y.server) /\ EndsWithClient(y)
      BY <1>0, <2>1, <3>1 DEF GoodChannel, EndsWithClient, SameChannel
    <3>4. ChannelsMove /\ chan'[c].verified
      BY <3>1, <3>2, <3>3, ChangedOne
    <3> QED BY <1>8, <2>1, <2>4, <3>4 DEF VerificationComplete, SignalsVerified
  <2> QED BY <1>8, <2>3, <2>4 DEF VerificationComplete
<1>9. CASE TransientVerificationComplete(c)
  <2>1. PICK x \in ChannelSet : /\ x = [chan[c] EXCEPT !.verified = TRUE] /\ SameChannel(chan[c], x)
                                /\ x.verified /\ x.server = chan[c].server
                                /\ x.conv = chan[c].conv /\ x.client = chan[c].client
    BY <1>0, Verified
  <2>2. PICK ch \in [Channels -> ChannelSet] :
            /\ ch = [chan EXCEPT ![c] = x] /\ ch[c] = x
            /\ \A d \in Channels \ {c} : ch[d] = chan[d]
    BY <1>0, OneChanges
  <2>20. ch = [chan EXCEPT ![c].verified = TRUE]
    BY <2>1, <2>2
  <2>3. chan[c].owner = "manager" /\ CloseTransient(c, ch)
    BY <1>9, <2>20 DEF TransientVerificationComplete
  <2>4. ChannelsMove /\ TablesShrink /\ chan'[c].verified
    <3>1. /\ SameChannel(chan[c], ch[c]) /\ ch[c].server = chan[c].server
          /\ ch[c].client = "connected" => chan[c].client = "connected"
          /\ ch[c].verified
      BY <2>1, <2>2
    <3> QED BY <2>2, <2>3, <3>1, ClosedTransient
  <2>5. chan'[c].of = chan[c].of /\ chan'[c].caller = chan[c].caller /\ chan'[c].owner = "manager"
    BY <2>3, <2>4 DEF ChannelsMove, SameChannel
  <2>6. UnlocksEarned
    <3>1. chan[c].of \in Sessions \cup {None}
      BY <1>0 DEF ChannelSet
    <3>2. chan[c].of = None => chan[c].caller \in Sessions \cup Unmanaged
      BY <1>0, <2>3 DEF GoodChannel
    <3>3. unlocked \subseteq Sessions \cup Unmanaged
      BY DEF Types
    <3>4. \/ UNCHANGED unlocked
          \/ chan[c].of # None /\ unlocked' = unlocked \cup {chan[c].of}
          \/ chan[c].of = None /\ unlocked' = unlocked \cup {chan[c].caller}
      BY <1>9 DEF TransientVerificationComplete, SwitchTo, SessionUnlock
    <3> QED BY <2>4, <2>5, <3>1, <3>2, <3>3, <3>4 DEF UnlocksEarned
  <2> QED BY <1>9, <2>4, <2>6 DEF TransientVerificationComplete, ChannelMoves
<1> QED BY <1>3, <1>4, <1>5, <1>6, <1>7, <1>8, <1>9 DEF ChannelStep

\* A session is closed.
LEMMA SessionCloses ==
    ASSUME Types, ChannelInv, NEW s \in Sessions, SessionEnds(s) PROVE Closes(s)
<1>1. ASSUME NEW d \in Channels
      PROVE  /\ chan'[d] \in ChannelSet /\ SameChannel(chan[d], chan'[d])
             /\ GoodChannel(chan'[d]) /\ EndsWithClient(chan'[d])
  <2>1. chan[d] \in ChannelSet /\ GoodChannel(chan[d]) /\ EndsWithClient(chan[d])
    BY DEF Types, ChannelInv
  <2>2. chan'[d] = chan[d] \/ chan'[d] = Disposed(chan[d])
    BY DEF SessionEnds
  <2>3. CASE chan'[d] = chan[d]
    BY <2>1, <2>3 DEF SameChannel
  <2>4. CASE chan'[d] = Disposed(chan[d])
    <3>1. /\ chan'[d] \in ChannelSet /\ SameChannel(chan[d], chan'[d])
          /\ ~chan'[d].server /\ ~chan'[d].conv /\ chan'[d].client # "connected"
      BY <2>1, <2>4, DisposedChannel
    <3> QED BY <2>1, <3>1, StaysGood DEF EndsWithClient
  <2> QED BY <2>2, <2>3, <2>4
<1>2. chan' \in [Channels -> ChannelSet]
  BY <1>1 DEF SessionEnds
<1>3. ChannelsMove
  BY <1>1, <1>2 DEF ChannelsMove
<1>4. TablesShrink
  <2>1. /\ table' \in [Sessions -> [Callers -> Channels \cup {None}]]
        /\ \A t \in Sessions, p \in Callers : table'[t][p] \in {table[t][p], None}
    BY DEF SessionEnds, Types
  <2>2. transient' = transient
    BY DEF SessionEnds
  <2> QED BY <2>1, <2>2 DEF TablesShrink, Types
<1> QED BY <1>3, <1>4 DEF SessionEnds, Closes

\* The client of a channel connects.
LEMMA ConnectMoves ==
    ASSUME Types, ChannelInv, AnswerInv, NEW i \in Requests, Connect(i) PROVE ChannelMoves
<1>1. PICK c \in Channels : c = request[i].address
  BY DEF Connect, AnswerInv, Types, RequestSet
<1>2. chan[c] \in ChannelSet /\ GoodChannel(chan[c]) /\ EndsWithClient(chan[c]) /\ chan[c].server
  BY <1>1 DEF Types, ChannelInv, Connect
<1>3. PICK x \in ChannelSet : /\ x = [chan[c] EXCEPT !.client = "connected"] /\ SameChannel(chan[c], x)
                              /\ x.server = chan[c].server /\ x.client = "connected"
  BY <1>2, Joined
<1>4. chan' = [chan EXCEPT ![c] = x]
  BY <1>1, <1>3 DEF Connect
<1>5. ChannelsMove
  <2>1. EndsWithClient(x)
    BY <1>3 DEF EndsWithClient
  <2> QED BY <1>2, <1>3, <1>4, <2>1, ChangedOne
<1>6. TablesShrink /\ UnlocksEarned
  BY DEF Connect, TablesShrink, UnlocksEarned, Types, outVars
<1> QED BY <1>5, <1>6 DEF Connect, ChannelMoves, outVars

\* A caller asks for a channel.
LEMMA OpenCases ==
    ASSUME Types, CountInv, ChannelInv, NEW p \in Callers, NEW s \in Sessions \cup {None},
           OpenReauthenticationChannel(p, s)
    PROVE  \/ Denies(p)
           \/ \E t \in Sessions : Asks(p, t)
           \/ \E t \in Sessions \cup {None} : OpensTemporary(p, t)
<1>1. asked < MaxRequests /\ asked' = asked + 1 /\ opened < MaxRequests
  <2>1. opened <= asked /\ asked < MaxRequests
    BY RoomForChannel DEF OpenReauthenticationChannel
  <2> QED BY <2>1, ReauthAssumptions DEF OpenReauthenticationChannel, Types
<1>2. ASSUME NEW t \in Sessions \cup {None}, t = None => p \in Sessions \cup Unmanaged,
             OpenTemporary(asked', p, t)
      PROVE  OpensTemporary(p, t)
  <2>1. /\ opened' = opened + 1
        /\ Settle([chan EXCEPT ![opened + 1] = NewChannel("manager", t, p)], table,
                  [transient EXCEPT ![p] = opened + 1])
    BY <1>2 DEF OpenTemporary
  <2>2. ChannelsGrow("manager", t, p)
    BY <1>1, <1>2, <2>1, ChannelOpened
  <2>3. table' = table /\ transient' = [transient EXCEPT ![p] = opened + 1]
    BY <2>1 DEF Settle
  <2> QED BY <1>1, <1>2, <2>1, <2>2, <2>3 DEF OpenTemporary, OpensTemporary
<1>3. CASE Deny(asked', p)
  BY <1>1, <1>3 DEF Denies
<1>4. CASE Found(p, s) /\ StartReauthentication(asked', p, s)
  BY <1>1, <1>4 DEF Asks, Found
<1>5. CASE Found(p, s) /\ OpenTemporary(asked', p, IF p \in LoginScreens THEN s ELSE None)
  <2>1. s \in Sessions
    BY <1>5 DEF Found
  <2>2. p \notin LoginScreens => p \in Sessions \cup Unmanaged
    BY DEF Callers
  <2>3. s # None
    BY <1>5 DEF Found
  <2>4. CASE p \in LoginScreens
    BY <1>2, <1>5, <2>1, <2>3, <2>4
  <2>5. CASE p \notin LoginScreens
    BY <1>2, <1>5, <2>2, <2>5
  <2> QED BY <2>4, <2>5
<1>6. CASE p \in Unmanaged /\ OpenTemporary(asked', p, None)
  BY <1>2, <1>6
<1> QED BY <1>3, <1>4, <1>5, <1>6 DEF OpenReauthenticationChannel

\* A worker handles a call.
LEMMA HandleCases ==
    ASSUME Types, CountInv, ChannelInv, NEW s \in Sessions, HandleStartReauthentication(s)
    PROVE  RefusesCall(s) \/ \E p \in Callers : OpensChannel(s, p)
<1>1. PICK p \in Callers : p = Head(calls[s])
  BY DEF HandleStartReauthentication, Types
<1>2. opened < MaxRequests
  <2>1. opened < asked /\ asked \in 0..MaxRequests /\ opened \in 0..MaxRequests
    BY RoomForChannel DEF HandleStartReauthentication, Types
  <2> QED BY <2>1, ReauthAssumptions
<1>3. CASE session[s] = "over" /\ UNCHANGED chanVars
           /\ replies' = [replies EXCEPT ![s] = Append(@, [what |-> "refused", channel |-> None])]
  BY <1>3 DEF HandleStartReauthentication, RefusesCall
<1>4. CASE /\ opened' = opened + 1
           /\ replies' = [replies EXCEPT ![s] = Append(@, [what |-> "started", channel |-> opened'])]
           /\ Settle([chan EXCEPT ![opened'] = NewChannel("worker", s, p)],
                     [table EXCEPT ![s][p] = opened'], transient)
  <2>1. Settle([chan EXCEPT ![opened + 1] = NewChannel("worker", s, p)],
               [table EXCEPT ![s][p] = opened + 1], transient)
    BY <1>4
  <2>2. ChannelsGrow("worker", s, p)
    <3>1. s # None
      BY ReauthAssumptions DEF Callers
    <3> QED BY <1>2, <1>4, <2>1, <3>1, ChannelOpened
  <2>3. table' = [table EXCEPT ![s][p] = opened + 1] /\ transient' = transient
    BY <2>1 DEF Settle
  <2>4. OpensChannel(s, p)
    BY <1>1, <1>4, <2>2, <2>3 DEF HandleStartReauthentication, OpensChannel
  <2> QED BY <2>4
<1> QED BY <1>1, <1>3, <1>4 DEF HandleStartReauthentication

\* The session looks at a reply.
LEMMA ReplyCases ==
    ASSUME Types, NEW s \in Sessions, ReauthenticationStarted(s)
    PROVE  Ignores(s) \/ \E p \in Callers : Answers(s, p)
<1>1. CASE UNCHANGED <<request, waiting>>
  BY <1>1 DEF ReauthenticationStarted, Ignores, NextReply, TakeReply, askVars
<1>2. CASE ~UNCHANGED <<request, waiting>>
  <2>1. PICK p \in Callers : p = reauthPid[s] /\ waiting[p] # None
    BY <1>2 DEF ReauthenticationStarted, Answer, Types
  <2>2. Answers(s, p)
    BY <1>2, <2>1 DEF ReauthenticationStarted, Answer, Answers, NextReply, TakeReply
  <2> QED BY <2>2
<1> QED BY <1>1, <1>2

\* Every step is one of the cases.
LEMMA StepCases ==
    ASSUME Types, CountInv, ChannelInv, TableInv, AnswerInv, [Next]_vars
    PROVE  \/ \E p \in Callers : Denies(p)
           \/ \E p \in Callers, s \in Sessions : Asks(p, s)
           \/ \E p \in Callers, s \in Sessions \cup {None} : OpensTemporary(p, s)
           \/ \E s \in Sessions, p \in Callers : OpensChannel(s, p)
           \/ \E s \in Sessions : RefusesCall(s)
           \/ \E s \in Sessions, p \in Callers : Answers(s, p)
           \/ \E s \in Sessions : Ignores(s)
           \/ \E s \in Sessions : Reauthenticated(s)
           \/ ChannelMoves
           \/ \E c \in Channels : SignalsVerified(c)
           \/ \E s \in Sessions : Closes(s)
           \/ SessionMoves
<1>1. CASE \E p \in Callers, s \in Sessions \cup {None} : OpenReauthenticationChannel(p, s)
  BY <1>1, OpenCases
<1>2. CASE \E s \in Sessions : HandleStartReauthentication(s)
  BY <1>2, HandleCases
<1>3. CASE \E s \in Sessions : ReauthenticationStarted(s)
  BY <1>3, ReplyCases
<1>4. CASE \E s \in Sessions : SessionEnds(s)
  BY <1>4, SessionCloses
<1>5. CASE \E s \in Sessions : Freeze(s) \/ ProgramEnds(s)
  BY <1>5 DEF Freeze, ProgramEnds, SessionMoves, Types
<1>6. CASE \E i \in Requests : Connect(i)
  BY <1>6, ConnectMoves
<1>7. CASE \E c \in Channels : ChannelStep(c)
  BY <1>7, ChannelCases
<1>8. CASE UNCHANGED vars
  BY <1>8 DEF vars, SessionMoves, Types, sessionVars
<1> QED BY <1>1, <1>2, <1>3, <1>4, <1>5, <1>6, <1>7, <1>8, Zenon DEF Next

-----------------------------------------------------------------------------
(***************************************************************************)
(* Every step keeps the invariant.                                         *)
(***************************************************************************)

\* What is appended to a sequence.
LEMMA Appended ==
    ASSUME NEW S, NEW q \in Seq(S), NEW x \in S
    PROVE  /\ Append(q, x) \in Seq(S) /\ Len(q) \in Nat /\ Len(Append(q, x)) = Len(q) + 1
           /\ DOMAIN q = 1..Len(q) /\ DOMAIN Append(q, x) = 1..(Len(q) + 1)
           /\ \A i \in 1..Len(q) : Append(q, x)[i] = q[i]
           /\ Append(q, x)[Len(q) + 1] = x
OBVIOUS

\* What is left when the first element is taken.
LEMMA Taken ==
    ASSUME NEW S, NEW q \in Seq(S), q # <<>>
    PROVE  /\ Head(q) \in S /\ Head(q) = q[1] /\ 1 \in DOMAIN q
           /\ Tail(q) \in Seq(S) /\ Len(q) \in Nat \ {0} /\ DOMAIN q = 1..Len(q)
           /\ DOMAIN Tail(q) = 1..(Len(q) - 1)
           /\ \A i \in 1..(Len(q) - 1) : Tail(q)[i] = q[i + 1]
OBVIOUS

\* Numbers and callers are not None.
LEMMA NotNone ==
    /\ None \notin Channels /\ None \notin Requests /\ None \notin Callers
    /\ None \notin Sessions /\ None \notin LoginScreens
BY ReauthAssumptions DEF Channels, Requests, Callers

\* Whatever a worker sends is a reply.
LEMMA RepliesAre ==
    /\ [what |-> "refused", channel |-> None] \in ReplySet
    /\ \A c \in Channels : /\ [what |-> "started", channel |-> c] \in ReplySet
                           /\ [what |-> "reauthenticated", channel |-> c] \in ReplySet
BY DEF ReplySet

\* A channel that was opened keeps its identity and stays verified.
LEMMA Identity ==
    ASSUME Types, CountInv, ChannelInv, TableInv, AnswerInv, [Next]_vars
    PROVE  \A d \in Channels : chan[d].owner # "none" => SameChannel(chan[d], chan'[d])
<1>1. ASSUME NEW p \in Callers, NEW s \in Sessions \cup {None}, OpensTemporary(p, s)
      PROVE  \A d \in Channels : chan[d].owner # "none" => SameChannel(chan[d], chan'[d])
  BY <1>1 DEF OpensTemporary, ChannelsGrow
<1>2. ASSUME NEW s \in Sessions, NEW p \in Callers, OpensChannel(s, p)
      PROVE  \A d \in Channels : chan[d].owner # "none" => SameChannel(chan[d], chan'[d])
  BY <1>2 DEF OpensChannel, ChannelsGrow
<1>3. CASE ChannelMoves
  BY <1>3 DEF ChannelMoves, ChannelsMove
<1>4. ASSUME NEW c \in Channels, SignalsVerified(c)
      PROVE  \A d \in Channels : chan[d].owner # "none" => SameChannel(chan[d], chan'[d])
  BY <1>4 DEF SignalsVerified, ChannelsMove
<1>5. ASSUME NEW s \in Sessions, Closes(s)
      PROVE  \A d \in Channels : chan[d].owner # "none" => SameChannel(chan[d], chan'[d])
  BY <1>5 DEF Closes, ChannelsMove
<1>6. CASE UNCHANGED chan
  BY <1>6 DEF SameChannel
<1>7. \/ (\E p \in Callers, s \in Sessions \cup {None} : OpensTemporary(p, s))
       \/ (\E s \in Sessions, p \in Callers : OpensChannel(s, p))
       \/ ChannelMoves
       \/ (\E c \in Channels : SignalsVerified(c))
       \/ (\E s \in Sessions : Closes(s))
       \/ UNCHANGED chan
  BY StepCases, Zenon DEF Answers, Asks, Denies, Deny, Ignores, NewRequest, NextReply,
     Reauthenticated, RefusesCall, SessionMoves, StartReauthentication, SwitchTo, TakeReply,
     askVars, sessionVars, chanVars, outVars
<1> QED BY <1>1, <1>2, <1>3, <1>4, <1>5, <1>6, <1>7, Zenon

\* Channels stay good.
LEMMA NextChannelInv ==
    ASSUME Types, CountInv, ChannelInv, TableInv, AnswerInv, [Next]_vars
    PROVE  ChannelInv'
<1>1. ASSUME NEW p \in Callers, NEW s \in Sessions \cup {None}, OpensTemporary(p, s)
      PROVE  ChannelInv'
  <2>1. ChannelsGrow("manager", s, p)
    BY <1>1 DEF OpensTemporary
  <2> QED BY <2>1 DEF ChannelsGrow, ChannelInv, SameChannel, Channels
<1>2. ASSUME NEW s \in Sessions, NEW p \in Callers, OpensChannel(s, p) PROVE ChannelInv'
  <2>1. ChannelsGrow("worker", s, p)
    BY <1>2 DEF OpensChannel
  <2> QED BY <2>1 DEF ChannelsGrow, ChannelInv, SameChannel, Channels
<1>3. CASE ChannelMoves
  BY <1>3 DEF ChannelMoves, ChannelsMove, ChannelInv, SameChannel
<1>4. ASSUME NEW c \in Channels, SignalsVerified(c) PROVE ChannelInv'
  BY <1>4 DEF SignalsVerified, ChannelsMove, ChannelInv, SameChannel
<1>5. ASSUME NEW s \in Sessions, Closes(s) PROVE ChannelInv'
  BY <1>5 DEF Closes, ChannelsMove, ChannelInv, SameChannel
<1>6. CASE UNCHANGED <<chan, opened>>
  BY <1>6 DEF ChannelInv
<1>7. \/ (\E p \in Callers, s \in Sessions \cup {None} : OpensTemporary(p, s))
       \/ (\E s \in Sessions, p \in Callers : OpensChannel(s, p))
       \/ ChannelMoves
       \/ (\E c \in Channels : SignalsVerified(c))
       \/ (\E s \in Sessions : Closes(s))
       \/ UNCHANGED <<chan, opened>>
  BY StepCases, Zenon DEF Answers, Asks, Denies, Deny, Ignores, NewRequest, NextReply,
     Reauthenticated, RefusesCall, SessionMoves, StartReauthentication, SwitchTo, TakeReply,
     askVars, sessionVars, chanVars, outVars
<1> QED BY <1>1, <1>2, <1>3, <1>4, <1>5, <1>6, <1>7, Zenon

\* A channel is held by its own caller.
LEMMA NextTableInv ==
    ASSUME Types, CountInv, ChannelInv, TableInv, AnswerInv, [Next]_vars
    PROVE  TableInv'
<1>0. /\ \A d \in Channels : chan[d].owner # "none" => SameChannel(chan[d], chan'[d])
      /\ None \notin Channels
      /\ \A t \in Sessions, q \in Callers : table[t][q] \in Channels \cup {None}
      /\ \A q \in Callers : transient[q] \in Channels \cup {None}
  BY Identity, NotNone DEF Types
<1>1. ASSUME NEW p \in Callers, NEW s \in Sessions \cup {None}, OpensTemporary(p, s) PROVE TableInv'
  <2>1. /\ chan'[opened + 1].owner = "manager" /\ chan'[opened + 1].caller = p
        /\ table' = table /\ transient' = [transient EXCEPT ![p] = opened + 1]
    BY <1>1 DEF OpensTemporary, ChannelsGrow
  <2>2. \A q \in Callers : transient'[q] = IF q = p THEN opened + 1 ELSE transient[q]
    BY <2>1 DEF Types
  <2> QED BY <1>0, <2>1, <2>2 DEF TableInv, SameChannel
<1>2. ASSUME NEW s \in Sessions, NEW p \in Callers, OpensChannel(s, p) PROVE TableInv'
  <2>1. /\ chan'[opened + 1].owner = "worker" /\ chan'[opened + 1].caller = p
        /\ chan'[opened + 1].of = s
        /\ table' = [table EXCEPT ![s][p] = opened + 1] /\ transient' = transient
    BY <1>2 DEF OpensChannel, ChannelsGrow
  <2>2. \A t \in Sessions, q \in Callers :
            table'[t][q] = IF t = s /\ q = p THEN opened + 1 ELSE table[t][q]
    BY <2>1 DEF Types
  <2> QED BY <1>0, <2>1, <2>2 DEF TableInv, SameChannel
<1>3. CASE ChannelMoves
  BY <1>0, <1>3 DEF ChannelMoves, TablesShrink, TableInv, SameChannel
<1>4. ASSUME NEW c \in Channels, SignalsVerified(c) PROVE TableInv'
  BY <1>0, <1>4 DEF SignalsVerified, TableInv, SameChannel
<1>5. ASSUME NEW s \in Sessions, Closes(s) PROVE TableInv'
  <2>1. /\ \A t \in Sessions, q \in Callers : table'[t][q] \in {table[t][q], None}
        /\ \A q \in Callers : transient'[q] \in {transient[q], None}
    BY <1>5 DEF Closes, TablesShrink
  <2> QED BY <1>0, <2>1 DEF TableInv, SameChannel
<1>6. CASE UNCHANGED <<chan, table, transient>>
  BY <1>6 DEF TableInv
<1>7. \/ (\E p \in Callers, s \in Sessions \cup {None} : OpensTemporary(p, s))
       \/ (\E s \in Sessions, p \in Callers : OpensChannel(s, p))
       \/ ChannelMoves
       \/ (\E c \in Channels : SignalsVerified(c))
       \/ (\E s \in Sessions : Closes(s))
       \/ UNCHANGED <<chan, table, transient>>
  BY StepCases, Zenon DEF Answers, Asks, Denies, Deny, Ignores, NewRequest, NextReply,
     Reauthenticated, RefusesCall, SessionMoves, StartReauthentication, SwitchTo, TakeReply,
     askVars, sessionVars, chanVars, outVars
<1> QED BY <1>1, <1>2, <1>3, <1>4, <1>5, <1>6, <1>7, Zenon

\* What is unlocked stays earned.
LEMMA NextEarnedInv ==
    ASSUME Types, CountInv, ChannelInv, TableInv, AnswerInv, ReplyInv, EarnedInv, [Next]_vars
    PROVE  EarnedInv'
<1>0. \A d \in Channels : chan[d].owner # "none" => SameChannel(chan[d], chan'[d])
  BY Identity
<1>00. UNCHANGED outVars => EarnedInv'
  BY <1>0 DEF EarnedInv, Earned, SameChannel, outVars
<1>1. ASSUME NEW p \in Callers, NEW s \in Sessions \cup {None}, OpensTemporary(p, s)
      PROVE  EarnedInv'
  BY <1>00, <1>1 DEF OpensTemporary
<1>2. ASSUME NEW s \in Sessions, NEW p \in Callers, OpensChannel(s, p) PROVE EarnedInv'
  BY <1>00, <1>2 DEF OpensChannel
<1>3. ASSUME NEW s \in Sessions, Reauthenticated(s) PROVE EarnedInv'
  <2>1. replies[s] # <<>> /\ Head(replies[s]).what = "reauthenticated" /\ UNCHANGED chan
    BY <1>3 DEF Reauthenticated, NextReply, chanVars
  <2>2. PICK c \in Channels : /\ c = Head(replies[s]).channel /\ chan[c].owner # "none"
                              /\ chan[c].of = s /\ chan[c].verified
    <3>1. replies[s] \in Seq(ReplySet)
      BY DEF Types
    <3>2. /\ 1 \in DOMAIN replies[s] /\ Head(replies[s]) = replies[s][1]
          /\ Head(replies[s]) \in ReplySet
      BY <2>1, <3>1, Taken
    <3>3. /\ replies[s][1].channel # None /\ chan[replies[s][1].channel].owner # "none"
          /\ chan[replies[s][1].channel].of = s /\ chan[replies[s][1].channel].verified
      BY <2>1, <3>2 DEF ReplyInv, GoodReply
    <3>4. replies[s][1].channel \in Channels \cup {None}
      BY <3>2 DEF ReplySet
    <3> QED BY <3>2, <3>3, <3>4
  <2>3. /\ unlocked' \subseteq unlocked \cup {s}
        /\ \A t \in Sessions \ {s} : redirected'[t] = redirected[t]
        /\ redirected'[s] \in {redirected[s], chan[c].caller}
    BY <1>3, <2>2 DEF Reauthenticated, RedirectedBy, SwitchTo, Types
  <2> QED BY <2>1, <2>2, <2>3 DEF EarnedInv, Earned
<1>4. CASE ChannelMoves
  BY <1>0, <1>4 DEF ChannelMoves, UnlocksEarned, EarnedInv, Earned, SameChannel
<1>5. ASSUME NEW c \in Channels, SignalsVerified(c) PROVE EarnedInv'
  BY <1>00, <1>5 DEF SignalsVerified
<1>6. ASSUME NEW s \in Sessions, Closes(s) PROVE EarnedInv'
  BY <1>00, <1>6 DEF Closes
<1>7. CASE UNCHANGED <<chan, outVars>>
  BY <1>7 DEF EarnedInv, Earned, outVars
<1>8. \/ (\E p \in Callers, s \in Sessions \cup {None} : OpensTemporary(p, s))
       \/ (\E s \in Sessions, p \in Callers : OpensChannel(s, p))
       \/ (\E s \in Sessions : Reauthenticated(s))
       \/ ChannelMoves
       \/ (\E c \in Channels : SignalsVerified(c))
       \/ (\E s \in Sessions : Closes(s))
       \/ UNCHANGED <<chan, outVars>>
  BY StepCases, Zenon DEF Answers, Asks, Denies, Deny, Ignores, NewRequest, RefusesCall,
     SessionMoves, StartReauthentication, askVars, sessionVars, chanVars, outVars
<1> QED BY <1>1, <1>2, <1>3, <1>4, <1>5, <1>6, <1>7, <1>8, Zenon

\* A channel is opened only for a call, and a call is made only for a request.
LEMMA NextCountInv ==
    ASSUME Types, CountInv, ChannelInv, TableInv, AnswerInv, [Next]_vars
    PROVE  CountInv'
<1>0. /\ opened \in Nat /\ asked \in Nat /\ IsFiniteSet(Unhandled) /\ Cardinality(Unhandled) \in Nat
      /\ opened + Cardinality(Unhandled) <= asked
  BY FS_CardinalityType, ReauthAssumptions DEF CountInv, Types
<1>00. \A s \in Sessions : calls[s] \in Seq(Callers)
  BY DEF Types
<1>1. ASSUME NEW p \in Callers, Denies(p) PROVE CountInv'
  <2>1. Unhandled' = Unhandled /\ opened' = opened /\ asked' = asked + 1
    BY <1>1 DEF Denies, Deny, NewRequest, askVars, sessionVars, chanVars, outVars, Unhandled
  <2> QED BY <1>0, <2>1 DEF CountInv
<1>2. ASSUME NEW p \in Callers, NEW s \in Sessions, Asks(p, s) PROVE CountInv'
  <2>1. opened' = opened /\ asked' = asked + 1 /\ calls' = [calls EXCEPT ![s] = Append(calls[s], p)]
    BY <1>2 DEF Asks, StartReauthentication, askVars, sessionVars, chanVars, outVars
  <2>2. PICK n \in Nat : /\ n = Len(calls[s]) /\ DOMAIN calls[s] = 1..n
                          /\ DOMAIN calls'[s] = 1..(n + 1)
    <3>1. /\ Len(calls[s]) \in Nat /\ DOMAIN calls[s] = 1..Len(calls[s])
          /\ DOMAIN Append(calls[s], p) = 1..(Len(calls[s]) + 1)
      BY <1>00, Appended
    <3>2. calls'[s] = Append(calls[s], p)
      BY <2>1 DEF Types
    <3> QED BY <3>1, <3>2
  <2>3. \A t \in Sessions \ {s} : calls'[t] = calls[t]
    BY <2>1 DEF Types
  <2>4. Unhandled' = Unhandled \cup {<<s, n + 1>>}
    BY <2>2, <2>3 DEF Unhandled
  <2>5. IsFiniteSet(Unhandled') /\ Cardinality(Unhandled') <= Cardinality(Unhandled) + 1
    <3>1. /\ IsFiniteSet(Unhandled \cup {<<s, n + 1>>})
          /\ \/ Cardinality(Unhandled \cup {<<s, n + 1>>}) = Cardinality(Unhandled)
             \/ Cardinality(Unhandled \cup {<<s, n + 1>>}) = Cardinality(Unhandled) + 1
      BY <1>0, FS_AddElement
    <3> QED BY <1>0, <2>4, <3>1
  <2>6. Cardinality(Unhandled') \in Nat
    BY <2>5, FS_CardinalityType
  <2> QED BY <1>0, <2>1, <2>5, <2>6 DEF CountInv
<1>3. ASSUME NEW p \in Callers, NEW s \in Sessions \cup {None}, OpensTemporary(p, s) PROVE CountInv'
  <2>1. Unhandled' = Unhandled /\ opened' = opened + 1 /\ asked' = asked + 1
    BY <1>3 DEF OpensTemporary, NewRequest, askVars, sessionVars, chanVars, outVars, Unhandled,
       ChannelsGrow
  <2> QED BY <1>0, <2>1 DEF CountInv
<1>4. ASSUME NEW s \in Sessions, NEW p \in Callers, OpensChannel(s, p) PROVE CountInv'
  <2>1. opened' = opened + 1 /\ asked' = asked /\ calls' = [calls EXCEPT ![s] = Tail(calls[s])] /\ calls[s] # <<>>
    BY <1>4 DEF OpensChannel, askVars, sessionVars, chanVars, outVars, ChannelsGrow
  <2>2. PICK n \in Nat \ {0} : /\ n = Len(calls[s]) /\ DOMAIN calls[s] = 1..n
                                /\ DOMAIN calls'[s] = 1..(n - 1)
    <3>1. /\ Len(calls[s]) \in Nat \ {0} /\ DOMAIN calls[s] = 1..Len(calls[s])
          /\ DOMAIN Tail(calls[s]) = 1..(Len(calls[s]) - 1)
      BY <1>00, <2>1, Taken
    <3>2. calls'[s] = Tail(calls[s])
      BY <2>1 DEF Types
    <3> QED BY <3>1, <3>2
  <2>3. \A t \in Sessions \ {s} : calls'[t] = calls[t]
    BY <2>1 DEF Types
  <2>4. Unhandled' = Unhandled \ {<<s, n>>} /\ <<s, n>> \in Unhandled
    BY <2>2, <2>3 DEF Unhandled
  <2>5. IsFiniteSet(Unhandled') /\ Cardinality(Unhandled') = Cardinality(Unhandled) - 1
    BY <1>0, <2>4, FS_RemoveElement
  <2> QED BY <1>0, <2>1, <2>5 DEF CountInv
<1>5. ASSUME NEW s \in Sessions, RefusesCall(s) PROVE CountInv'
  <2>1. opened' = opened /\ asked' = asked /\ calls' = [calls EXCEPT ![s] = Tail(calls[s])] /\ calls[s] # <<>>
    BY <1>5 DEF RefusesCall, askVars, sessionVars, chanVars, outVars
  <2>2. PICK n \in Nat \ {0} : /\ n = Len(calls[s]) /\ DOMAIN calls[s] = 1..n
                                /\ DOMAIN calls'[s] = 1..(n - 1)
    <3>1. /\ Len(calls[s]) \in Nat \ {0} /\ DOMAIN calls[s] = 1..Len(calls[s])
          /\ DOMAIN Tail(calls[s]) = 1..(Len(calls[s]) - 1)
      BY <1>00, <2>1, Taken
    <3>2. calls'[s] = Tail(calls[s])
      BY <2>1 DEF Types
    <3> QED BY <3>1, <3>2
  <2>3. \A t \in Sessions \ {s} : calls'[t] = calls[t]
    BY <2>1 DEF Types
  <2>4. Unhandled' = Unhandled \ {<<s, n>>} /\ <<s, n>> \in Unhandled
    BY <2>2, <2>3 DEF Unhandled
  <2>5. IsFiniteSet(Unhandled') /\ Cardinality(Unhandled') = Cardinality(Unhandled) - 1
    BY <1>0, <2>4, FS_RemoveElement
  <2> QED BY <1>0, <2>1, <2>5 DEF CountInv
<1>6. ASSUME NEW s \in Sessions, Closes(s) PROVE CountInv'
  <2>1. opened' = opened /\ asked' = asked /\ calls' = [calls EXCEPT ![s] = <<>>]
    BY <1>6 DEF Closes, askVars, sessionVars, chanVars, outVars
  <2>2. calls'[s] = <<>> /\ \A t \in Sessions \ {s} : calls'[t] = calls[t]
    BY <2>1 DEF Types
  <2>3. Unhandled' \subseteq Unhandled
    BY <2>2 DEF Unhandled
  <2>4. IsFiniteSet(Unhandled') /\ Cardinality(Unhandled') <= Cardinality(Unhandled)
    BY <1>0, <2>3, FS_Subset
  <2>5. Cardinality(Unhandled') \in Nat
    BY <2>4, FS_CardinalityType
  <2> QED BY <1>0, <2>1, <2>4, <2>5 DEF CountInv
<1>7. CASE UNCHANGED <<calls, opened, asked>>
  BY <1>7 DEF CountInv, Unhandled
<1>8. \/ (\E p \in Callers : Denies(p))
       \/ (\E p \in Callers, s \in Sessions : Asks(p, s))
       \/ (\E p \in Callers, s \in Sessions \cup {None} : OpensTemporary(p, s))
       \/ (\E s \in Sessions, p \in Callers : OpensChannel(s, p))
       \/ (\E s \in Sessions : RefusesCall(s))
       \/ (\E s \in Sessions : Closes(s))
       \/ UNCHANGED <<calls, opened, asked>>
  BY StepCases, Zenon DEF Answers, ChannelMoves, Ignores, NextReply, Reauthenticated,
     SessionMoves, SignalsVerified, SwitchTo, TakeReply, askVars, sessionVars, chanVars, outVars
<1> QED BY <1>1, <1>2, <1>3, <1>4, <1>5, <1>6, <1>7, <1>8, Zenon

\* A request is made.
LEMMA RequestMade ==
    ASSUME Types, NEW i \in Requests, NEW p \in Callers, NEW s \in Sessions \cup {None},
           NEW st \in {"denied", "answered"}, NEW a \in Channels \cup {None}
    PROVE  /\ NewRequest(i, p, s, st, a) \in [Requests -> RequestSet]
           /\ NewRequest(i, p, s, st, a)[i].state = st /\ NewRequest(i, p, s, st, a)[i].address = a
           /\ NewRequest(i, p, s, st, a)[i].of = s /\ NewRequest(i, p, s, st, a)[i].caller = p
           /\ \A j \in Requests \ {i} : NewRequest(i, p, s, st, a)[j] = request[j]
<1>1. PICK r \in RequestSet : /\ r = [caller |-> p, of |-> s, state |-> st, address |-> a, alone |-> TRUE]
                              /\ r.state = st /\ r.address = a /\ r.of = s /\ r.caller = p
  <2>1. [caller |-> p, of |-> s, state |-> st, address |-> a, alone |-> TRUE] \in RequestSet
    BY DEF RequestSet
  <2> QED BY <2>1
<1>2. NewRequest(i, p, s, st, a) = [request EXCEPT ![i] = r]
  BY <1>1 DEF NewRequest
<1> QED BY <1>1, <1>2 DEF Types

\* A request is sent to a worker; those it meets there are not alone any more.
SameRequest(old, new) ==
    /\ new.state = old.state /\ new.caller = old.caller /\ new.of = old.of
    /\ new.address = old.address /\ (new.alone => old.alone)

\* What sending a request does to all of them.
LEMMA RequestSent ==
    ASSUME Types, NEW i \in Requests, NEW p \in Callers, NEW s \in Sessions
    PROVE  /\ Sent(i, p, s) \in [Requests -> RequestSet]
           /\ Sent(i, p, s)[i].state = "sent" /\ Sent(i, p, s)[i].of = s /\ Sent(i, p, s)[i].caller = p
           /\ Sent(i, p, s)[i].alone => /\ calls[s] = <<>> /\ replies[s] = <<>>
                                        /\ \A t \in Sessions : reauthPid[t] # p
           /\ \A j \in Requests \ {i} :
                 /\ SameRequest(request[j], Sent(i, p, s)[j])
                 /\ Sent(i, p, s)[j].alone => j # waiting[p] /\ j \notin InFlight(s)
<1>1. PICK b \in BOOLEAN : b <=> /\ calls[s] = <<>> /\ replies[s] = <<>>
                                 /\ \A t \in Sessions : reauthPid[t] # p
  OBVIOUS
<1>2. Sent(i, p, s)[i] = [caller |-> p, of |-> s, state |-> "sent", address |-> None,
                          alone |-> /\ calls[s] = <<>> /\ replies[s] = <<>>
                                    /\ \A t \in Sessions : reauthPid[t] # p]
  BY DEF Sent
<1>3. Sent(i, p, s)[i] \in RequestSet
  BY <1>2 DEF RequestSet
<1>4. ASSUME NEW j \in Requests \ {i}
      PROVE  /\ Sent(i, p, s)[j] \in RequestSet
             /\ SameRequest(request[j], Sent(i, p, s)[j])
             /\ Sent(i, p, s)[j].alone => j # waiting[p] /\ j \notin InFlight(s)
  <2>1. request[j] \in RequestSet
    BY DEF Types
  <2>2. PICK r \in RequestSet : /\ r = [request[j] EXCEPT !.alone = FALSE]
                                /\ SameRequest(request[j], r) /\ ~r.alone
    <3> DEFINE r == [request[j] EXCEPT !.alone = FALSE]
    <3>1. r \in RequestSet
      BY <2>1 DEF RequestSet
    <3>2. SameRequest(request[j], r) /\ ~r.alone
      BY <2>1 DEF RequestSet, SameRequest
    <3> QED BY <3>1, <3>2
  <2>3. CASE j \in InFlight(s) \/ j = waiting[p]
    <3>1. Sent(i, p, s)[j] = r
      BY <2>2, <2>3 DEF Sent
    <3> QED BY <2>2, <3>1
  <2>4. CASE ~(j \in InFlight(s) \/ j = waiting[p])
    <3>1. Sent(i, p, s)[j] = request[j]
      BY <2>4 DEF Sent
    <3> QED BY <2>1, <2>4, <3>1 DEF SameRequest
  <2> QED BY <2>3, <2>4
<1>5. Sent(i, p, s) \in [Requests -> RequestSet]
  <2>1. \A j \in Requests : Sent(i, p, s)[j] \in RequestSet
    BY <1>3, <1>4
  <2> QED BY <2>1 DEF Sent
<1> QED BY <1>2, <1>4, <1>5

\* A request is answered.
LEMMA RequestAnswered ==
    ASSUME Types, NEW i \in Requests, NEW c \in Channels,
           request' = [request EXCEPT ![i].state = "answered", ![i].address = c]
    PROVE  /\ request' \in [Requests -> RequestSet]
           /\ request'[i].state = "answered" /\ request'[i].address = c
           /\ request'[i].caller = request[i].caller /\ request'[i].of = request[i].of
           /\ request'[i].alone = request[i].alone
           /\ \A j \in Requests \ {i} : request'[j] = request[j]
<1>1. request[i] \in RequestSet
  BY DEF Types
<1>2. PICK r \in RequestSet : /\ r = [request[i] EXCEPT !.state = "answered", !.address = c]
                              /\ r.state = "answered" /\ r.address = c
                              /\ r.caller = request[i].caller /\ r.of = request[i].of
                              /\ r.alone = request[i].alone
  <2> DEFINE r == [request[i] EXCEPT !.state = "answered", !.address = c]
  <2>1. r \in RequestSet
    BY <1>1 DEF RequestSet
  <2>2. /\ r.state = "answered" /\ r.address = c /\ r.caller = request[i].caller
        /\ r.of = request[i].of /\ r.alone = request[i].alone
    BY <1>1 DEF RequestSet
  <2> QED BY <2>1, <2>2
<1>3. request' = [request EXCEPT ![i] = r]
  BY <1>2
<1> QED BY <1>2, <1>3 DEF Types

\* What an answer is.
Given(s, p, i, c) ==
    /\ i = waiting[p] /\ 1 \in DOMAIN replies[s]
    /\ replies[s][1].what = "started" /\ replies[s][1].channel = c
    /\ chan[c].owner # "none" /\ chan[c].of = s
    /\ request' = [request EXCEPT ![i].state = "answered", ![i].address = c]

\* The reply at the head of the queue names a channel of the session.
LEMMA AnswerGiven ==
    ASSUME Types, ReplyInv, NEW s \in Sessions, NEW p \in Callers, Answers(s, p)
    PROVE  \E i \in Requests, c \in Channels : Given(s, p, i, c)
<1>1. replies[s] \in Seq(ReplySet) /\ replies[s] # <<>>
  BY DEF Types, Answers
<1>2. 1 \in DOMAIN replies[s] /\ Head(replies[s]) = replies[s][1] /\ Head(replies[s]) \in ReplySet
  BY <1>1, Taken
<1>3. replies[s][1].what = "started"
  BY <1>2 DEF Answers
<1>4. PICK c \in Channels : c = replies[s][1].channel /\ chan[c].owner # "none" /\ chan[c].of = s
  <2>1. replies[s][1].channel \in Channels \cup {None}
    BY <1>2 DEF ReplySet
  <2> QED BY <1>2, <1>3, <2>1 DEF ReplyInv, GoodReply
<1>5. PICK i \in Requests : i = waiting[p]
  BY DEF Types, Answers
<1>6. Given(s, p, i, c)
  BY <1>2, <1>3, <1>4, <1>5 DEF Answers, Given
<1> QED BY <1>6

\* The next request.
LEMMA NextRequest == ASSUME Types, asked < MaxRequests PROVE asked + 1 \in Requests /\ asked + 1 \in 0..MaxRequests
BY ReauthAssumptions DEF Types, Requests

\* Every variable keeps its type.
LEMMA NextTypes ==
    ASSUME Types, CountInv, ChannelInv, TableInv, AnswerInv, ReplyInv, [Next]_vars
    PROVE  Types'
<1>1. ASSUME NEW p \in Callers, Denies(p) PROVE Types'
  <2>1. request' \in [Requests -> RequestSet]
    BY <1>1, RequestMade, NextRequest DEF Denies, Deny
  <2> QED BY <1>1, <2>1, NextRequest DEF Denies, Deny, NewRequest, askVars, sessionVars, chanVars,
             outVars, Types
<1>2. ASSUME NEW p \in Callers, NEW s \in Sessions, Asks(p, s) PROVE Types'
  <2>1. request' \in [Requests -> RequestSet]
    BY <1>2, RequestSent, NextRequest DEF Asks, StartReauthentication
  <2>2. calls' \in [Sessions -> Seq(Callers)]
    BY <1>2 DEF Asks, StartReauthentication, askVars, sessionVars, chanVars, outVars, Types
  <2> QED BY <1>2, <2>1, <2>2, NextRequest DEF Asks, StartReauthentication, askVars, sessionVars,
             chanVars, outVars, Types
<1>3. ASSUME NEW p \in Callers, NEW s \in Sessions \cup {None}, OpensTemporary(p, s) PROVE Types'
  <2>0. opened' \in 0..MaxRequests /\ opened + 1 \in Channels /\ chan' \in [Channels -> ChannelSet]
    BY <1>3, ReauthAssumptions DEF OpensTemporary, ChannelsGrow, Channels
  <2>1. request' \in [Requests -> RequestSet]
    BY <1>3, <2>0, RequestMade, NextRequest DEF OpensTemporary
  <2> QED BY <1>3, <2>0, <2>1, NextRequest DEF OpensTemporary, NewRequest, askVars, sessionVars,
             chanVars, outVars, Types
<1>4. ASSUME NEW s \in Sessions, NEW p \in Callers, OpensChannel(s, p) PROVE Types'
  <2>0. opened' \in 0..MaxRequests /\ opened + 1 \in Channels /\ chan' \in [Channels -> ChannelSet]
    BY <1>4, ReauthAssumptions DEF OpensChannel, ChannelsGrow, Channels
  <2>1. replies' \in [Sessions -> Seq(ReplySet)]
    <3>1. replies[s] \in Seq(ReplySet)
      BY <1>4 DEF Types, SignalsVerified
    <3>2. Append(replies[s], [what |-> "started", channel |-> opened + 1]) \in Seq(ReplySet)
      BY <3>1, RepliesAre, Appended, <2>0
    <3> QED BY <1>4, <3>2 DEF OpensChannel, askVars, sessionVars, chanVars, outVars, Types
  <2>2. calls' \in [Sessions -> Seq(Callers)]
    <3>1. calls[s] \in Seq(Callers) /\ calls[s] # <<>>
      BY <1>4 DEF Types, OpensChannel, askVars, sessionVars, chanVars, outVars
    <3>2. Tail(calls[s]) \in Seq(Callers)
      BY <3>1, Taken
    <3> QED BY <1>4, <3>2 DEF OpensChannel, askVars, sessionVars, chanVars, outVars, Types
  <2>3. table' \in [Sessions -> [Callers -> Channels \cup {None}]]
    BY <1>4, <2>0 DEF OpensChannel, askVars, sessionVars, chanVars, outVars, Types
  <2> QED BY <1>4, <2>0, <2>1, <2>2, <2>3 DEF OpensChannel, askVars, sessionVars, chanVars,
             outVars, Types
<1>5. ASSUME NEW s \in Sessions, RefusesCall(s) PROVE Types'
  <2>1. replies' \in [Sessions -> Seq(ReplySet)]
    <3>1. replies[s] \in Seq(ReplySet)
      BY <1>5 DEF Types, SignalsVerified
    <3>2. Append(replies[s], [what |-> "refused", channel |-> None]) \in Seq(ReplySet)
      BY <3>1, RepliesAre, Appended
    <3> QED BY <1>5, <3>2 DEF RefusesCall, askVars, sessionVars, chanVars, outVars, Types
  <2>2. calls' \in [Sessions -> Seq(Callers)]
    <3>1. calls[s] \in Seq(Callers) /\ calls[s] # <<>>
      BY <1>5 DEF Types, RefusesCall, askVars, sessionVars, chanVars, outVars
    <3>2. Tail(calls[s]) \in Seq(Callers)
      BY <3>1, Taken
    <3> QED BY <1>5, <3>2 DEF RefusesCall, askVars, sessionVars, chanVars, outVars, Types
  <2> QED BY <1>5, <2>1, <2>2 DEF RefusesCall, askVars, sessionVars, chanVars, outVars, Types
<1>6. ASSUME NEW s \in Sessions, NEW p \in Callers, Answers(s, p) PROVE Types'
  <2>1. replies' \in [Sessions -> Seq(ReplySet)]
    <3>1. replies[s] \in Seq(ReplySet) /\ replies[s] # <<>>
      BY <1>6 DEF Types, Answers, askVars, sessionVars, chanVars, outVars
    <3>2. Tail(replies[s]) \in Seq(ReplySet)
      BY <3>1, Taken
    <3> QED BY <1>6, <3>2 DEF Answers, askVars, sessionVars, chanVars, outVars, Types
  <2>2. request' \in [Requests -> RequestSet]
    <3>1. PICK i \in Requests, c \in Channels : Given(s, p, i, c)
      BY <1>6, AnswerGiven
    <3> QED BY <3>1, RequestAnswered DEF Given
  <2> QED BY <1>6, <2>1, <2>2 DEF Answers, askVars, sessionVars, chanVars, outVars, Types
<1>7. ASSUME NEW s \in Sessions, Ignores(s) PROVE Types'
  <2>1. replies' \in [Sessions -> Seq(ReplySet)]
    <3>1. replies[s] \in Seq(ReplySet) /\ replies[s] # <<>>
      BY <1>7 DEF Types, Ignores, askVars, sessionVars, chanVars, outVars
    <3>2. Tail(replies[s]) \in Seq(ReplySet)
      BY <3>1, Taken
    <3> QED BY <1>7, <3>2 DEF Ignores, askVars, sessionVars, chanVars, outVars, Types
  <2> QED BY <1>7, <2>1 DEF Ignores, askVars, sessionVars, chanVars, outVars, Types
<1>8. ASSUME NEW s \in Sessions, Reauthenticated(s) PROVE Types'
  <2>1. replies' \in [Sessions -> Seq(ReplySet)]
    <3>1. replies[s] \in Seq(ReplySet) /\ replies[s] # <<>>
      BY <1>8 DEF Types, Reauthenticated, NextReply, TakeReply, SwitchTo, askVars, sessionVars,
         chanVars, outVars
    <3>2. Tail(replies[s]) \in Seq(ReplySet)
      BY <3>1, Taken
    <3> QED BY <1>8, <3>2 DEF Reauthenticated, NextReply, TakeReply, SwitchTo, askVars,
               sessionVars, chanVars, outVars, Types
  <2>2. unlocked' \subseteq Sessions \cup Unmanaged
    BY <1>8 DEF Reauthenticated, NextReply, TakeReply, SwitchTo, askVars, sessionVars, chanVars,
       outVars, Types
  <2>3. redirected' \in [Sessions -> LoginScreens \cup {None}]
    BY <1>8 DEF Reauthenticated, NextReply, TakeReply, SwitchTo, askVars, sessionVars, chanVars,
       outVars, Types
  <2> QED BY <1>8, <2>1, <2>2, <2>3 DEF Reauthenticated, NextReply, TakeReply, SwitchTo, askVars,
             sessionVars, chanVars, outVars, Types
<1>9. CASE ChannelMoves
  BY <1>9 DEF ChannelMoves, askVars, sessionVars, chanVars, outVars, ChannelsMove, TablesShrink,
     UnlocksEarned, Types
<1>10. ASSUME NEW c \in Channels, SignalsVerified(c) PROVE Types'
  <2>1. replies' \in [Sessions -> Seq(ReplySet)]
    <3>1. replies[chan[c].of] \in Seq(ReplySet)
      BY <1>10 DEF Types, SignalsVerified
    <3>2. Append(replies[chan[c].of], [what |-> "reauthenticated", channel |-> c]) \in Seq(ReplySet)
      BY <3>1, RepliesAre, Appended
    <3> QED BY <1>10, <3>2 DEF SignalsVerified, askVars, sessionVars, chanVars, outVars, Types
  <2> QED BY <1>10, <2>1 DEF SignalsVerified, askVars, sessionVars, chanVars, outVars,
             ChannelsMove, Types
<1>11. ASSUME NEW s \in Sessions, Closes(s) PROVE Types'
  <2>1. calls' \in [Sessions -> Seq(Callers)] /\ replies' \in [Sessions -> Seq(ReplySet)]
    BY <1>11 DEF Closes, askVars, sessionVars, chanVars, outVars, Types
  <2> QED BY <1>11, <2>1 DEF Closes, askVars, sessionVars, chanVars, outVars, ChannelsMove,
             TablesShrink, Types
<1>12. CASE SessionMoves
  BY <1>12 DEF SessionMoves, askVars, sessionVars, chanVars, outVars, Types
<1> QED BY <1>1, <1>2, <1>3, <1>4, <1>5, <1>6, <1>7, <1>8, <1>9, <1>10, <1>11, <1>12, StepCases,
           Zenon

\* What a worker sends names a channel of its session.
LEMMA NextReplyInv ==
    ASSUME Types, CountInv, ChannelInv, TableInv, AnswerInv, ReplyInv, [Next]_vars
    PROVE  ReplyInv'
<1>0. /\ \A d \in Channels : chan[d].owner # "none" => SameChannel(chan[d], chan'[d])
      /\ None \notin Channels
      /\ \A t \in Sessions : replies[t] \in Seq(ReplySet)
      /\ \A t \in Sessions : \A k \in DOMAIN replies[t] : replies[t][k].channel \in Channels \cup {None}
  <2>1. \A t \in Sessions : replies[t] \in Seq(ReplySet)
    BY DEF Types
  <2>2. \A t \in Sessions : \A k \in DOMAIN replies[t] : replies[t][k] \in ReplySet
    BY <2>1, ElementOfSeq
  <2>3. \A t \in Sessions : \A k \in DOMAIN replies[t] : replies[t][k].channel \in Channels \cup {None}
    BY <2>2 DEF ReplySet
  <2> QED BY Identity, NotNone, <2>1, <2>3
<1>01. \A t \in Sessions : \A k \in DOMAIN replies[t] : GoodReply(chan', t, replies[t][k])
  BY <1>0 DEF ReplyInv, GoodReply, SameChannel
<1>1. ASSUME NEW s \in Sessions, NEW p \in Callers, OpensChannel(s, p) PROVE ReplyInv'
  <2>1. replies' = [replies EXCEPT ![s] = Append(replies[s], [what |-> "started", channel |-> opened + 1])]
    BY <1>1 DEF OpensChannel, askVars, sessionVars, chanVars, outVars
  <2>2. /\ Len(replies[s]) \in Nat /\ DOMAIN replies[s] = 1..Len(replies[s])
        /\ DOMAIN replies'[s] = 1..(Len(replies[s]) + 1)
        /\ \A k \in 1..Len(replies[s]) : replies'[s][k] = replies[s][k]
        /\ replies'[s][Len(replies[s]) + 1] = [what |-> "started", channel |-> opened + 1]
    <3>1. replies[s] \in Seq(ReplySet) /\ s \in Sessions
      BY <1>0
    <3>2. replies'[s] = Append(replies[s], [what |-> "started", channel |-> opened + 1])
      BY <2>1, <3>1 DEF Types
    <3>3. [what |-> "started", channel |-> opened + 1] \in ReplySet
      BY <1>1, RepliesAre DEF OpensChannel, ChannelsGrow
    <3> QED BY <3>1, <3>2, <3>3, Appended
  <2>3. \A t \in Sessions \ {s} : replies'[t] = replies[t]
    BY <2>1 DEF Types
  <2>4. GoodReply(chan', s, [what |-> "started", channel |-> opened + 1])
    BY <1>1, NotNone DEF OpensChannel, ChannelsGrow, GoodReply
  <2> QED BY <1>01, <2>2, <2>3, <2>4 DEF ReplyInv
<1>2. ASSUME NEW s \in Sessions, RefusesCall(s) PROVE ReplyInv'
  <2>1. replies' = [replies EXCEPT ![s] = Append(replies[s], [what |-> "refused", channel |-> None])]
    BY <1>2 DEF RefusesCall, askVars, sessionVars, chanVars, outVars
  <2>2. /\ Len(replies[s]) \in Nat /\ DOMAIN replies[s] = 1..Len(replies[s])
        /\ DOMAIN replies'[s] = 1..(Len(replies[s]) + 1)
        /\ \A k \in 1..Len(replies[s]) : replies'[s][k] = replies[s][k]
        /\ replies'[s][Len(replies[s]) + 1] = [what |-> "refused", channel |-> None]
    <3>1. replies[s] \in Seq(ReplySet) /\ s \in Sessions
      BY <1>0
    <3>2. replies'[s] = Append(replies[s], [what |-> "refused", channel |-> None])
      BY <2>1, <3>1 DEF Types
    <3>3. [what |-> "refused", channel |-> None] \in ReplySet
      BY <1>2, RepliesAre DEF OpensChannel, ChannelsGrow
    <3> QED BY <3>1, <3>2, <3>3, Appended
  <2>3. \A t \in Sessions \ {s} : replies'[t] = replies[t]
    BY <2>1 DEF Types
  <2>4. GoodReply(chan', s, [what |-> "refused", channel |-> None])
    BY DEF GoodReply
  <2> QED BY <1>01, <2>2, <2>3, <2>4 DEF ReplyInv
<1>3. ASSUME NEW s \in Sessions, NEW p \in Callers, Answers(s, p) PROVE ReplyInv'
  <2>1. replies' = [replies EXCEPT ![s] = Tail(replies[s])] /\ replies[s] # <<>>
    BY <1>3 DEF Answers, askVars, sessionVars, chanVars, outVars
  <2>2. /\ Len(replies[s]) \in Nat \ {0} /\ DOMAIN replies[s] = 1..Len(replies[s])
        /\ DOMAIN replies'[s] = 1..(Len(replies[s]) - 1)
        /\ \A k \in 1..(Len(replies[s]) - 1) : replies'[s][k] = replies[s][k + 1]
        /\ Head(replies[s]) = replies[s][1]
    <3>1. replies[s] \in Seq(ReplySet)
      BY <1>0
    <3>2. replies'[s] = Tail(replies[s])
      BY <2>1 DEF Types
    <3> QED BY <2>1, <3>1, <3>2, Taken
  <2>3. \A t \in Sessions \ {s} : replies'[t] = replies[t]
    BY <2>1 DEF Types
  <2> QED BY <1>01, <2>2, <2>3 DEF ReplyInv
<1>4. ASSUME NEW s \in Sessions, Ignores(s) PROVE ReplyInv'
  <2>1. replies' = [replies EXCEPT ![s] = Tail(replies[s])] /\ replies[s] # <<>>
    BY <1>4 DEF Ignores, askVars, sessionVars, chanVars, outVars
  <2>2. /\ Len(replies[s]) \in Nat \ {0} /\ DOMAIN replies[s] = 1..Len(replies[s])
        /\ DOMAIN replies'[s] = 1..(Len(replies[s]) - 1)
        /\ \A k \in 1..(Len(replies[s]) - 1) : replies'[s][k] = replies[s][k + 1]
        /\ Head(replies[s]) = replies[s][1]
    <3>1. replies[s] \in Seq(ReplySet)
      BY <1>0
    <3>2. replies'[s] = Tail(replies[s])
      BY <2>1 DEF Types
    <3> QED BY <2>1, <3>1, <3>2, Taken
  <2>3. \A t \in Sessions \ {s} : replies'[t] = replies[t]
    BY <2>1 DEF Types
  <2> QED BY <1>01, <2>2, <2>3 DEF ReplyInv
<1>5. ASSUME NEW s \in Sessions, Reauthenticated(s) PROVE ReplyInv'
  <2>1. replies' = [replies EXCEPT ![s] = Tail(replies[s])] /\ replies[s] # <<>>
    BY <1>5 DEF Reauthenticated, NextReply, TakeReply, SwitchTo, askVars, sessionVars, chanVars,
       outVars
  <2>2. /\ Len(replies[s]) \in Nat \ {0} /\ DOMAIN replies[s] = 1..Len(replies[s])
        /\ DOMAIN replies'[s] = 1..(Len(replies[s]) - 1)
        /\ \A k \in 1..(Len(replies[s]) - 1) : replies'[s][k] = replies[s][k + 1]
        /\ Head(replies[s]) = replies[s][1]
    <3>1. replies[s] \in Seq(ReplySet)
      BY <1>0
    <3>2. replies'[s] = Tail(replies[s])
      BY <2>1 DEF Types
    <3> QED BY <2>1, <3>1, <3>2, Taken
  <2>3. \A t \in Sessions \ {s} : replies'[t] = replies[t]
    BY <2>1 DEF Types
  <2> QED BY <1>01, <2>2, <2>3 DEF ReplyInv
<1>6. ASSUME NEW c \in Channels, SignalsVerified(c) PROVE ReplyInv'
  <2>0. PICK s \in Sessions : s = chan[c].of
    BY <1>6 DEF SignalsVerified
  <2>1. replies' = [replies EXCEPT ![s] = Append(replies[s], [what |-> "reauthenticated", channel |-> c])]
    BY <1>6, <2>0 DEF SignalsVerified, askVars, sessionVars, chanVars, outVars
  <2>2. /\ Len(replies[s]) \in Nat /\ DOMAIN replies[s] = 1..Len(replies[s])
        /\ DOMAIN replies'[s] = 1..(Len(replies[s]) + 1)
        /\ \A k \in 1..Len(replies[s]) : replies'[s][k] = replies[s][k]
        /\ replies'[s][Len(replies[s]) + 1] = [what |-> "reauthenticated", channel |-> c]
    <3>1. replies[s] \in Seq(ReplySet) /\ s \in Sessions
      BY <1>0
    <3>2. replies'[s] = Append(replies[s], [what |-> "reauthenticated", channel |-> c])
      BY <2>1, <3>1 DEF Types
    <3>3. [what |-> "reauthenticated", channel |-> c] \in ReplySet
      BY <1>6, RepliesAre DEF OpensChannel, ChannelsGrow
    <3> QED BY <3>1, <3>2, <3>3, Appended
  <2>3. \A t \in Sessions \ {s} : replies'[t] = replies[t]
    BY <2>1 DEF Types
  <2>4. GoodReply(chan', s, [what |-> "reauthenticated", channel |-> c])
    BY <1>6, <2>0, NotNone DEF SignalsVerified, ChannelsMove, SameChannel, GoodReply
  <2> QED BY <1>01, <2>2, <2>3, <2>4 DEF ReplyInv
<1>7. ASSUME NEW s \in Sessions, Closes(s) PROVE ReplyInv'
  <2>1. replies'[s] = <<>> /\ \A t \in Sessions \ {s} : replies'[t] = replies[t]
    BY <1>7 DEF Closes, Types
  <2> QED BY <1>01, <2>1 DEF ReplyInv
<1>8. CASE UNCHANGED replies
  BY <1>01, <1>8 DEF ReplyInv
<1>9. \/ (\E s \in Sessions, p \in Callers : OpensChannel(s, p))
       \/ (\E s \in Sessions : RefusesCall(s))
       \/ (\E s \in Sessions, p \in Callers : Answers(s, p))
       \/ (\E s \in Sessions : Ignores(s))
       \/ (\E s \in Sessions : Reauthenticated(s))
       \/ (\E c \in Channels : SignalsVerified(c))
       \/ (\E s \in Sessions : Closes(s))
       \/ UNCHANGED replies
  BY StepCases, Zenon DEF Asks, ChannelMoves, Denies, Deny, NewRequest, OpensTemporary,
     SessionMoves, StartReauthentication, askVars, sessionVars, chanVars, outVars
<1> QED BY <1>1, <1>2, <1>3, <1>4, <1>5, <1>6, <1>7, <1>8, <1>9, Zenon

\* A request that is answered has a channel.
LEMMA NextAnswerInv ==
    ASSUME Types, CountInv, ChannelInv, TableInv, AnswerInv, ReplyInv, WaitingInv, [Next]_vars
    PROVE  AnswerInv'
<1>0. /\ \A d \in Channels : chan[d].owner # "none" => SameChannel(chan[d], chan'[d])
      /\ None \notin Channels /\ asked \in Nat
      /\ \A i \in Requests : request[i].address \in Channels \cup {None} /\ i \in Nat
  BY Identity, NotNone, ReauthAssumptions DEF Types, RequestSet, Requests
<1>01. ASSUME NEW i \in Requests, request[i].state = "answered"
      PROVE  request[i].address # None /\ chan'[request[i].address].owner # "none"
  BY <1>0, <1>01 DEF AnswerInv, SameChannel
<1>02. asked < MaxRequests => asked + 1 \in Requests
  BY NextRequest
<1>1. ASSUME NEW p \in Callers, Denies(p) PROVE AnswerInv'
  <2>1. /\ request'[asked + 1].state = "denied" /\ asked' = asked + 1
        /\ \A j \in Requests \ {asked + 1} : request'[j] = request[j]
    BY <1>1, <1>02, RequestMade DEF Denies, Deny
  <2> QED BY <1>0, <1>01, <2>1 DEF AnswerInv
<1>2. ASSUME NEW p \in Callers, NEW s \in Sessions, Asks(p, s) PROVE AnswerInv'
  <2>1. /\ request'[asked + 1].state = "sent" /\ asked' = asked + 1
        /\ request'[asked + 1].of = s /\ request'[asked + 1].caller = p
        /\ \A j \in Requests \ {asked + 1} : SameRequest(request[j], request'[j])
    BY <1>2, <1>02, RequestSent DEF Asks, StartReauthentication
  <2> QED BY <1>0, <1>01, <2>1 DEF AnswerInv, SameRequest
<1>3. ASSUME NEW p \in Callers, NEW s \in Sessions \cup {None}, OpensTemporary(p, s)
      PROVE  AnswerInv'
  <2>0. opened + 1 \in Channels /\ chan'[opened + 1].owner = "manager" /\ asked < MaxRequests
    BY <1>3 DEF OpensTemporary, ChannelsGrow
  <2>1. /\ request'[asked + 1].state = "answered" /\ asked' = asked + 1
        /\ request'[asked + 1].address = opened + 1
        /\ \A j \in Requests \ {asked + 1} : request'[j] = request[j]
    BY <1>3, <1>02, <2>0, RequestMade DEF OpensTemporary
  <2> QED BY <1>0, <1>01, <2>0, <2>1 DEF AnswerInv
<1>4. ASSUME NEW s \in Sessions, NEW p \in Callers, Answers(s, p) PROVE AnswerInv'
  <2>1. PICK i \in Requests, c \in Channels : Given(s, p, i, c)
    BY <1>4, AnswerGiven
  <2>2. /\ request'[i].state = "answered" /\ request'[i].address = c
        /\ \A j \in Requests \ {i} : request'[j] = request[j]
    <3>1. request' = [request EXCEPT ![i].state = "answered", ![i].address = c]
      BY <2>1 DEF Given
    <3> QED BY <3>1, RequestAnswered
  <2>3. chan'[c].owner # "none" /\ c # None
    BY <1>0, <2>1 DEF Given, SameChannel
  <2>4. asked' = asked /\ request[i].state = "sent"
    BY <1>4, <2>1 DEF Answers, Given, WaitingInv
  <2> QED BY <1>0, <1>01, <2>2, <2>3, <2>4 DEF AnswerInv
<1>5. CASE UNCHANGED <<request, asked>>
  BY <1>0, <1>5 DEF AnswerInv, SameChannel
<1>6. \/ (\E p \in Callers : Denies(p))
       \/ (\E p \in Callers, s \in Sessions : Asks(p, s))
       \/ (\E p \in Callers, s \in Sessions \cup {None} : OpensTemporary(p, s))
       \/ (\E s \in Sessions, p \in Callers : Answers(s, p))
       \/ UNCHANGED <<request, asked>>
  BY StepCases, Zenon DEF ChannelMoves, Closes, Ignores, NextReply, OpensChannel, Reauthenticated,
     RefusesCall, SessionMoves, SignalsVerified, SwitchTo, TakeReply, askVars, sessionVars,
     chanVars, outVars
<1> QED BY <1>1, <1>2, <1>3, <1>4, <1>5, <1>6, Zenon

\* A caller waits for its own request.
LEMMA NextWaitingInv ==
    ASSUME Types, CountInv, ChannelInv, TableInv, AnswerInv, ReplyInv, WaitingInv, [Next]_vars
    PROVE  WaitingInv'
<1>0. /\ asked \in Nat /\ None \notin Requests
      /\ asked < MaxRequests => asked + 1 \in Requests /\ request[asked + 1].state = "none"
      /\ \A q \in Callers : waiting[q] \in Requests \cup {None}
  BY NotNone, NextRequest, ReauthAssumptions DEF Types, AnswerInv
<1>1. ASSUME NEW p \in Callers, Denies(p) PROVE WaitingInv'
  <2>1. waiting' = waiting /\ \A j \in Requests \ {asked + 1} : request'[j] = request[j]
    BY <1>1, <1>0, RequestMade DEF Denies, Deny
  <2> QED BY <1>1, <1>0, <2>1 DEF WaitingInv, Denies
<1>2. ASSUME NEW p \in Callers, NEW s \in Sessions, Asks(p, s) PROVE WaitingInv'
  <2>1. /\ request'[asked + 1].state = "sent" /\ request'[asked + 1].caller = p
        /\ \A j \in Requests \ {asked + 1} : SameRequest(request[j], request'[j])
    BY <1>2, <1>0, RequestSent DEF Asks, StartReauthentication
  <2>2. waiting'[p] = asked + 1 /\ \A q \in Callers \ {p} : waiting'[q] = waiting[q]
    BY <1>2 DEF Asks, StartReauthentication, Types
  <2> QED BY <1>2, <1>0, <2>1, <2>2 DEF WaitingInv, Asks, SameRequest
<1>3. ASSUME NEW p \in Callers, NEW s \in Sessions \cup {None}, OpensTemporary(p, s)
      PROVE  WaitingInv'
  <2>1. waiting' = waiting /\ \A j \in Requests \ {asked + 1} : request'[j] = request[j]
    BY <1>3, <1>0, RequestMade DEF OpensTemporary, ChannelsGrow
  <2> QED BY <1>3, <1>0, <2>1 DEF WaitingInv, OpensTemporary
<1>4. ASSUME NEW s \in Sessions, NEW p \in Callers, Answers(s, p) PROVE WaitingInv'
  <2>1. PICK i \in Requests, c \in Channels : Given(s, p, i, c)
    BY <1>4, AnswerGiven
  <2>2. \A j \in Requests \ {i} : request'[j] = request[j]
    <3>1. request' = [request EXCEPT ![i].state = "answered", ![i].address = c]
      BY <2>1 DEF Given
    <3> QED BY <3>1, RequestAnswered
  <2>3. i = waiting[p] /\ waiting'[p] = None /\ \A q \in Callers \ {p} : waiting'[q] = waiting[q]
    BY <1>4, <2>1 DEF Given, Answers, Types
  <2> QED BY <1>0, <2>2, <2>3 DEF WaitingInv
<1>5. CASE UNCHANGED <<request, waiting>>
  BY <1>5 DEF WaitingInv
<1>6. \/ (\E p \in Callers : Denies(p))
       \/ (\E p \in Callers, s \in Sessions : Asks(p, s))
       \/ (\E p \in Callers, s \in Sessions \cup {None} : OpensTemporary(p, s))
       \/ (\E s \in Sessions, p \in Callers : Answers(s, p))
       \/ UNCHANGED <<request, waiting>>
  BY StepCases, Zenon DEF ChannelMoves, Closes, Ignores, NextReply, OpensChannel, Reauthenticated,
     RefusesCall, SessionMoves, SignalsVerified, SwitchTo, TakeReply, askVars, sessionVars,
     chanVars, outVars
<1> QED BY <1>1, <1>2, <1>3, <1>4, <1>5, <1>6, Zenon

\* A request that was alone is given its own channel.
LEMMA NextOwnChannel ==
    ASSUME Types, CountInv, ChannelInv, TableInv, AnswerInv, ReplyInv, WaitingInv, AloneInv,
           OwnChannel, [Next]_vars
    PROVE  OwnChannel'
<1>0. /\ \A d \in Channels : chan[d].owner # "none" => SameChannel(chan[d], chan'[d])
      /\ None \notin Channels
      /\ \A i \in Requests : request[i].address \in Channels \cup {None}
  BY Identity, NotNone DEF Types, RequestSet
<1>01. ASSUME NEW i \in Requests, request[i].state = "answered", request[i].alone
      PROVE  /\ chan'[request[i].address].caller = request[i].caller
             /\ chan'[request[i].address].of = request[i].of
  <2>1. request[i].address \in Channels /\ chan[request[i].address].owner # "none"
    BY <1>0, <1>01 DEF AnswerInv
  <2> QED BY <1>0, <1>01, <2>1 DEF OwnChannel, SameChannel
<1>02. asked < MaxRequests => asked + 1 \in Requests
  BY NextRequest
<1>1. ASSUME NEW p \in Callers, Denies(p) PROVE OwnChannel'
  <2>1. /\ request'[asked + 1].state = "denied"
        /\ \A j \in Requests \ {asked + 1} : request'[j] = request[j]
    BY <1>1, <1>02, RequestMade DEF Denies, Deny
  <2> QED BY <1>01, <2>1 DEF OwnChannel
<1>2. ASSUME NEW p \in Callers, NEW s \in Sessions, Asks(p, s) PROVE OwnChannel'
  <2>1. /\ request'[asked + 1].state = "sent"
        /\ \A j \in Requests \ {asked + 1} : SameRequest(request[j], request'[j])
    BY <1>2, <1>02, RequestSent DEF Asks, StartReauthentication
  <2> QED BY <1>01, <2>1 DEF OwnChannel, SameRequest
<1>3. ASSUME NEW p \in Callers, NEW s \in Sessions \cup {None}, OpensTemporary(p, s)
      PROVE  OwnChannel'
  <2>0. /\ opened + 1 \in Channels /\ asked < MaxRequests
        /\ chan'[opened + 1].caller = p /\ chan'[opened + 1].of = s
    BY <1>3 DEF OpensTemporary, ChannelsGrow
  <2>1. /\ request'[asked + 1].address = opened + 1
        /\ request'[asked + 1].caller = p /\ request'[asked + 1].of = s
        /\ \A j \in Requests \ {asked + 1} : request'[j] = request[j]
    BY <1>3, <1>02, <2>0, RequestMade DEF OpensTemporary
  <2> QED BY <1>01, <2>0, <2>1 DEF OwnChannel
<1>4. ASSUME NEW s \in Sessions, NEW p \in Callers, Answers(s, p) PROVE OwnChannel'
  <2>1. PICK i \in Requests, c \in Channels : Given(s, p, i, c)
    BY <1>4, AnswerGiven
  <2>2. /\ request'[i].address = c /\ request'[i].alone = request[i].alone
        /\ request'[i].caller = request[i].caller /\ request'[i].of = request[i].of
        /\ \A j \in Requests \ {i} : request'[j] = request[j]
    <3>1. request' = [request EXCEPT ![i].state = "answered", ![i].address = c]
      BY <2>1 DEF Given
    <3> QED BY <3>1, RequestAnswered
  <2>3. request[i].state = "sent" /\ request[i].caller = p /\ request[i].of \in Sessions
    <3>1. i = waiting[p] /\ waiting[p] # None
      BY <1>4, <2>1 DEF Given, Answers
    <3> QED BY <3>1 DEF WaitingInv, AnswerInv
  <2>4. request[i].alone => chan[c].caller = p /\ chan[c].of = request[i].of
    <3>1. /\ 1 \in DOMAIN replies[s] /\ replies[s][1].what = "started" /\ replies[s][1].channel = c
          /\ chan[c].of = s /\ reauthPid[s] = p
      BY <1>4, <2>1 DEF Given, Answers
    <3>2. SUFFICES ASSUME Alone(i, request[i].of, p) PROVE chan[c].caller = p /\ s = request[i].of
      BY <2>3, <3>1 DEF AloneInv
    <3>3. s = request[i].of
      BY <2>3, <3>1, <3>2 DEF Alone
    <3>4. IsReply(s, 1)
      BY <3>1 DEF IsReply
    <3> QED BY <3>1, <3>2, <3>3, <3>4 DEF Alone
  <2>5. chan' = chan
    BY <1>4 DEF Answers, chanVars
  <2> QED BY <1>01, <2>2, <2>3, <2>4, <2>5 DEF OwnChannel
<1>5. CASE UNCHANGED request
  BY <1>01, <1>5 DEF OwnChannel
<1>6. \/ (\E p \in Callers : Denies(p))
       \/ (\E p \in Callers, s \in Sessions : Asks(p, s))
       \/ (\E p \in Callers, s \in Sessions \cup {None} : OpensTemporary(p, s))
       \/ (\E s \in Sessions, p \in Callers : Answers(s, p))
       \/ UNCHANGED request
  BY StepCases, Zenon DEF ChannelMoves, Closes, Ignores, NextReply, OpensChannel, Reauthenticated,
     RefusesCall, SessionMoves, SignalsVerified, SwitchTo, TakeReply, askVars, sessionVars,
     chanVars, outVars
<1> QED BY <1>1, <1>2, <1>3, <1>4, <1>5, <1>6, Zenon

\* A request that is alone stays alone until another joins it.
LEMMA NextAloneInv ==
    ASSUME Types, CountInv, ChannelInv, TableInv, AnswerInv, ReplyInv, WaitingInv, AloneInv,
           [Next]_vars
    PROVE  AloneInv'
<1>0. /\ \A d \in Channels : chan[d].owner # "none" => SameChannel(chan[d], chan'[d])
      /\ None \notin Channels
      /\ \A t \in Sessions : replies[t] \in Seq(ReplySet)
      /\ \A t \in Sessions : \A k \in DOMAIN replies[t] : replies[t][k].channel \in Channels \cup {None}
  <2>1. \A t \in Sessions : replies[t] \in Seq(ReplySet)
    BY DEF Types
  <2>2. \A t \in Sessions : \A k \in DOMAIN replies[t] : replies[t][k] \in ReplySet
    BY <2>1, ElementOfSeq
  <2>3. \A t \in Sessions : \A k \in DOMAIN replies[t] : replies[t][k].channel \in Channels \cup {None}
    BY <2>2 DEF ReplySet
  <2> QED BY Identity, NotNone, <2>1, <2>3
<1>01. \A t \in Sessions : \A k \in DOMAIN replies[t] :
          replies[t][k].what = "started" =>
              chan'[replies[t][k].channel].caller = chan[replies[t][k].channel].caller
  <2>1. ASSUME NEW t \in Sessions, NEW k \in DOMAIN replies[t], replies[t][k].what = "started"
        PROVE  chan'[replies[t][k].channel].caller = chan[replies[t][k].channel].caller
    <3>1. replies[t][k].channel \in Channels /\ chan[replies[t][k].channel].owner # "none"
      BY <1>0, <2>1 DEF ReplyInv, GoodReply
    <3> QED BY <1>0, <3>1 DEF SameChannel
  <2> QED BY <2>1
<1>02. \A i \in Requests : request[i].state = "sent" => request[i].of \in Sessions /\ request[i].caller \in Callers
  BY DEF AnswerInv
<1>03. None \notin Callers /\ (asked < MaxRequests => asked + 1 \in Requests /\ request[asked + 1].state = "none")
  BY NotNone, NextRequest, ReauthAssumptions DEF Types, AnswerInv
<1>04. ASSUME NEW i \in Requests, NEW t \in Sessions, NEW q \in Callers, Alone(i, t, q),
              waiting'[q] = i, calls'[t] = calls[t], replies'[t] = replies[t],
              reauthPid'[t] = reauthPid[t],
              \A u \in Sessions \ {t} : reauthPid'[u] = reauthPid[u] \/ reauthPid'[u] # q
      PROVE  Alone(i, t, q)'
  BY <1>01, <1>04 DEF Alone, IsReply
<1>05. ASSUME \A i \in Requests :
                 request'[i].state = "sent" /\ request'[i].alone =>
                     /\ request[i].state = "sent" /\ request[i].alone
                     /\ request'[i].of = request[i].of /\ request'[i].caller = request[i].caller,
              ASSUME NEW i \in Requests, NEW t \in Sessions, NEW q \in Callers,
                     q = request[i].caller,
                     t = request[i].of, Alone(i, t, q), request[i].state = "sent", request[i].alone
              PROVE  Alone(i, t, q)'
      PROVE  AloneInv'
  <2>1. SUFFICES ASSUME NEW i \in Requests, request'[i].state = "sent", request'[i].alone
                 PROVE  Alone(i, request[i].of, request[i].caller)'
    BY <1>05 DEF AloneInv
  <2> QED BY <1>02, <1>05, <2>1 DEF AloneInv
<1>1. ASSUME NEW p \in Callers, Denies(p) PROVE AloneInv'
  <2>1. /\ request'[asked + 1].state = "denied"
        /\ \A j \in Requests \ {asked + 1} : request'[j] = request[j]
    BY <1>1, <1>03, RequestMade DEF Denies, Deny
  <2>8. \A i \in Requests :
            request'[i].state = "sent" /\ request'[i].alone =>
                /\ request[i].state = "sent" /\ request[i].alone
                /\ request'[i].of = request[i].of /\ request'[i].caller = request[i].caller
    BY <2>1
  <2>9. ASSUME NEW i \in Requests, NEW t \in Sessions, NEW q \in Callers, q = request[i].caller,
               t = request[i].of, Alone(i, t, q), request[i].state = "sent", request[i].alone
        PROVE  Alone(i, t, q)'
    <3>1. waiting[q] = i /\ UNCHANGED <<waiting, calls, replies, reauthPid>>
      BY <1>1, <2>9 DEF Denies, Deny, NewRequest, askVars, sessionVars, chanVars, outVars, Alone
    <3> QED BY <1>04, <2>9, <3>1
  <2> QED BY <1>05, <2>8, <2>9
<1>2. ASSUME NEW p \in Callers, NEW s \in Sessions, Asks(p, s) PROVE AloneInv'
  <2>1. /\ request'[asked + 1].of = s /\ request'[asked + 1].caller = p
        /\ request'[asked + 1].alone => /\ calls[s] = <<>> /\ replies[s] = <<>>
                                        /\ \A t \in Sessions : reauthPid[t] # p
        /\ \A j \in Requests \ {asked + 1} :
              /\ SameRequest(request[j], request'[j])
              /\ request'[j].alone => j # waiting[p] /\ j \notin InFlight(s)
    BY <1>2, <1>03, RequestSent DEF Asks, StartReauthentication
  <2>2. /\ waiting'[p] = asked + 1 /\ \A q \in Callers \ {p} : waiting'[q] = waiting[q]
        /\ reauthPid'[s] = p /\ \A t \in Sessions \ {s} : reauthPid'[t] = reauthPid[t]
        /\ calls'[s] = Append(calls[s], p) /\ \A t \in Sessions \ {s} : calls'[t] = calls[t]
        /\ UNCHANGED replies
    BY <1>2 DEF Asks, StartReauthentication, Types
  <2>3. SUFFICES ASSUME NEW j \in Requests, request'[j].state = "sent", request'[j].alone
                 PROVE  Alone(j, request[j].of, request[j].caller)'
    BY DEF AloneInv
  <2>4. CASE j = asked + 1
    <3>0. calls[s] = <<>> /\ replies'[s] = <<>> /\ \A t \in Sessions \ {s} : reauthPid'[t] # p
      BY <2>1, <2>2, <2>3, <2>4
    <3>1. \A k \in DOMAIN calls'[s] : k = 1 /\ calls'[s][k] = p
      <4>1. <<>> \in Seq(Callers) /\ Len(<<>>) = 0
        OBVIOUS
      <4>2. DOMAIN Append(<<>>, p) = 1..(0 + 1) /\ Append(<<>>, p)[0 + 1] = p
        BY <4>1, Appended
      <4> QED BY <2>2, <3>0, <4>2
    <3>2. Alone(j, s, p)'
      BY <2>2, <2>4, <3>0, <3>1 DEF Alone
    <3> QED BY <2>1, <2>4, <3>2
  <2>5. CASE j # asked + 1
    <3>1. /\ request'[j].of = request[j].of /\ request'[j].caller = request[j].caller
          /\ request[j].state = "sent" /\ request[j].alone
          /\ j # waiting[p] /\ j \notin InFlight(s)
      BY <2>1, <2>3, <2>5 DEF SameRequest
    <3>2. PICK t \in Sessions, q \in Callers : t = request[j].of /\ q = request[j].caller
      BY <1>02, <3>1
    <3>3. Alone(j, t, q) /\ t # s
      BY <3>1, <3>2 DEF AloneInv, InFlight
    <3>4. waiting[q] = j /\ q # p
      BY <3>1, <3>3 DEF Alone
    <3>5. Alone(j, t, q)'
      BY <1>04, <2>2, <3>3, <3>4
    <3> QED BY <3>1, <3>2, <3>5
  <2> QED BY <2>4, <2>5
<1>3. ASSUME NEW p \in Callers, NEW s \in Sessions \cup {None}, OpensTemporary(p, s) PROVE AloneInv'
  <2>0. opened + 1 \in Channels /\ asked < MaxRequests
    BY <1>3 DEF OpensTemporary, ChannelsGrow
  <2>1. /\ request'[asked + 1].state = "answered"
        /\ \A j \in Requests \ {asked + 1} : request'[j] = request[j]
    BY <1>3, <1>03, <2>0, RequestMade DEF OpensTemporary
  <2>8. \A i \in Requests :
            request'[i].state = "sent" /\ request'[i].alone =>
                /\ request[i].state = "sent" /\ request[i].alone
                /\ request'[i].of = request[i].of /\ request'[i].caller = request[i].caller
    BY <2>1
  <2>9. ASSUME NEW i \in Requests, NEW t \in Sessions, NEW q \in Callers, q = request[i].caller,
               t = request[i].of, Alone(i, t, q), request[i].state = "sent", request[i].alone
        PROVE  Alone(i, t, q)'
    <3>1. waiting[q] = i /\ UNCHANGED <<waiting, calls, replies, reauthPid>>
      BY <1>3, <2>9 DEF OpensTemporary, NewRequest, askVars, sessionVars, chanVars, outVars, Alone
    <3> QED BY <1>04, <2>9, <3>1
  <2> QED BY <1>05, <2>8, <2>9
<1>4. ASSUME NEW s \in Sessions, NEW p \in Callers, OpensChannel(s, p) PROVE AloneInv'
  <2>1. replies' = [replies EXCEPT ![s] = Append(replies[s], [what |-> "started", channel |-> opened + 1])]
    BY <1>4 DEF OpensChannel, askVars, sessionVars, chanVars, outVars
  <2>2. /\ Len(replies[s]) \in Nat /\ DOMAIN replies[s] = 1..Len(replies[s])
        /\ DOMAIN replies'[s] = 1..(Len(replies[s]) + 1)
        /\ \A k \in 1..Len(replies[s]) : replies'[s][k] = replies[s][k]
        /\ replies'[s][Len(replies[s]) + 1] = [what |-> "started", channel |-> opened + 1]
    <3>1. replies[s] \in Seq(ReplySet) /\ s \in Sessions
      BY <1>0
    <3>2. replies'[s] = Append(replies[s], [what |-> "started", channel |-> opened + 1])
      BY <2>1, <3>1 DEF Types
    <3>3. [what |-> "started", channel |-> opened + 1] \in ReplySet
      BY <1>4, RepliesAre DEF OpensChannel, ChannelsGrow
    <3> QED BY <3>1, <3>2, <3>3, Appended
  <2>3. \A t \in Sessions \ {s} : replies'[t] = replies[t]
    BY <2>1 DEF Types
  <2>8. \A i \in Requests :
            request'[i].state = "sent" /\ request'[i].alone =>
                /\ request[i].state = "sent" /\ request[i].alone
                /\ request'[i].of = request[i].of /\ request'[i].caller = request[i].caller
    BY <1>4 DEF OpensChannel, askVars, sessionVars, chanVars, outVars
  <2>9. ASSUME NEW i \in Requests, NEW t \in Sessions, NEW q \in Callers, q = request[i].caller,
               t = request[i].of, Alone(i, t, q), request[i].state = "sent", request[i].alone
        PROVE  Alone(i, t, q)'
    <3>0. CASE t # s
      <4>1. UNCHANGED waiting /\ calls'[t] = calls[t] /\ replies'[t] = replies[t]
        BY <1>4, <3>0 DEF OpensChannel, askVars, sessionVars, chanVars, outVars, Types
      <4>2. \A u \in Sessions : reauthPid'[u] \in {reauthPid[u], None} /\ (u # s => reauthPid'[u] = reauthPid[u])
        BY <1>4 DEF OpensChannel, askVars, sessionVars, chanVars, outVars, Types
      <4>3. waiting[q] = i
        BY <2>9 DEF Alone
      <4> QED BY <1>03, <1>04, <2>9, <3>0, <4>1, <4>2, <4>3
    <3>1. CASE t = s
      <4>1. /\ calls[s] \in Seq(Callers) /\ calls[s] # <<>> /\ calls'[s] = Tail(calls[s])
            /\ UNCHANGED <<waiting, reauthPid>>
        BY <1>4 DEF OpensChannel, askVars, sessionVars, chanVars, outVars, Types
      <4>2. Len(calls[s]) \in Nat \ {0} /\ DOMAIN calls[s] = 1..Len(calls[s])
        BY <4>1, Taken
      <4>3. \A k \in 1..Len(calls[s]) : k = 1 /\ calls[s][k] = q /\ reauthPid[s] = q
        BY <2>9, <3>1, <4>2 DEF Alone
      <4>4. Len(calls[s]) = 1 /\ reauthPid[s] = q /\ calls[s][1] = q
        <5>1. Len(calls[s]) \in 1..Len(calls[s]) /\ 1 \in 1..Len(calls[s])
          BY <4>2
        <5> QED BY <4>3, <5>1
      <4>5. calls'[s] = <<>>
        <5>1. Tail(calls[s]) \in Seq(Callers) /\ Len(Tail(calls[s])) = 0
          BY <4>1, <4>4, HeadTailProperties
        <5> QED BY <4>1, <5>1, EmptySeq
      <4>6. \A k \in DOMAIN replies[s] : ~IsReply(s, k)
        BY <2>9, <3>1, <4>1 DEF Alone
      <4>7. /\ chan'[opened + 1].caller = q
            /\ replies'[s][Len(replies[s]) + 1] = [what |-> "started", channel |-> opened + 1]
        <5>1. p = calls[s][1]
          BY <1>4, <4>1, Taken DEF OpensChannel
        <5> QED BY <1>4, <2>2, <4>4, <5>1 DEF OpensChannel, ChannelsGrow
      <4>8. \A k \in DOMAIN replies'[s] : k = Len(replies[s]) + 1 \/ ~IsReply(s, k)'
        BY <2>2, <4>6 DEF IsReply
      <4>9. waiting[q] = i /\ \A u \in Sessions \ {s} : reauthPid[u] # q
        BY <2>9, <3>1 DEF Alone
      <4>10. \A k \in DOMAIN replies'[s] :
                IsReply(s, k)' => /\ \A l \in DOMAIN replies'[s] : IsReply(s, l)' => l = k
                                  /\ replies'[s][k].what = "started" => chan'[replies'[s][k].channel].caller = q
        BY <4>7, <4>8
      <4>11. \A k \in DOMAIN calls'[s] : FALSE
        BY <4>5
      <4> QED BY <3>1, <4>1, <4>4, <4>5, <4>9, <4>10, <4>11 DEF Alone
    <3> QED BY <3>0, <3>1
  <2> QED BY <1>05, <2>8, <2>9
<1>5. ASSUME NEW s \in Sessions, RefusesCall(s) PROVE AloneInv'
  <2>1. replies' = [replies EXCEPT ![s] = Append(replies[s], [what |-> "refused", channel |-> None])]
    BY <1>5 DEF RefusesCall, askVars, sessionVars, chanVars, outVars
  <2>2. /\ Len(replies[s]) \in Nat /\ DOMAIN replies[s] = 1..Len(replies[s])
        /\ DOMAIN replies'[s] = 1..(Len(replies[s]) + 1)
        /\ \A k \in 1..Len(replies[s]) : replies'[s][k] = replies[s][k]
        /\ replies'[s][Len(replies[s]) + 1] = [what |-> "refused", channel |-> None]
    <3>1. replies[s] \in Seq(ReplySet) /\ s \in Sessions
      BY <1>0
    <3>2. replies'[s] = Append(replies[s], [what |-> "refused", channel |-> None])
      BY <2>1, <3>1 DEF Types
    <3>3. [what |-> "refused", channel |-> None] \in ReplySet
      BY <1>5, RepliesAre DEF OpensChannel, ChannelsGrow
    <3> QED BY <3>1, <3>2, <3>3, Appended
  <2>3. \A t \in Sessions \ {s} : replies'[t] = replies[t]
    BY <2>1 DEF Types
  <2>8. \A i \in Requests :
            request'[i].state = "sent" /\ request'[i].alone =>
                /\ request[i].state = "sent" /\ request[i].alone
                /\ request'[i].of = request[i].of /\ request'[i].caller = request[i].caller
    BY <1>5 DEF RefusesCall, askVars, sessionVars, chanVars, outVars
  <2>9. ASSUME NEW i \in Requests, NEW t \in Sessions, NEW q \in Callers, q = request[i].caller,
               t = request[i].of, Alone(i, t, q), request[i].state = "sent", request[i].alone
        PROVE  Alone(i, t, q)'
    <3>0. CASE t # s
      <4>1. UNCHANGED waiting /\ calls'[t] = calls[t] /\ replies'[t] = replies[t]
        BY <1>5, <3>0 DEF RefusesCall, askVars, sessionVars, chanVars, outVars, Types
      <4>2. \A u \in Sessions : reauthPid'[u] \in {reauthPid[u], None} /\ (u # s => reauthPid'[u] = reauthPid[u])
        BY <1>5 DEF RefusesCall, askVars, sessionVars, chanVars, outVars, Types
      <4>3. waiting[q] = i
        BY <2>9 DEF Alone
      <4> QED BY <1>03, <1>04, <2>9, <3>0, <4>1, <4>2, <4>3
    <3>1. CASE t = s
      <4>1. /\ calls[s] \in Seq(Callers) /\ calls[s] # <<>> /\ calls'[s] = Tail(calls[s])
            /\ UNCHANGED <<waiting, reauthPid>>
        BY <1>5 DEF RefusesCall, askVars, sessionVars, chanVars, outVars, Types
      <4>2. Len(calls[s]) \in Nat \ {0} /\ DOMAIN calls[s] = 1..Len(calls[s])
        BY <4>1, Taken
      <4>3. \A k \in 1..Len(calls[s]) : k = 1 /\ calls[s][k] = q /\ reauthPid[s] = q
        BY <2>9, <3>1, <4>2 DEF Alone
      <4>4. Len(calls[s]) = 1 /\ reauthPid[s] = q /\ calls[s][1] = q
        <5>1. Len(calls[s]) \in 1..Len(calls[s]) /\ 1 \in 1..Len(calls[s])
          BY <4>2
        <5> QED BY <4>3, <5>1
      <4>5. calls'[s] = <<>>
        <5>1. Tail(calls[s]) \in Seq(Callers) /\ Len(Tail(calls[s])) = 0
          BY <4>1, <4>4, HeadTailProperties
        <5> QED BY <4>1, <5>1, EmptySeq
      <4>6. \A k \in DOMAIN replies[s] : ~IsReply(s, k)
        BY <2>9, <3>1, <4>1 DEF Alone
      <4>7. replies'[s][Len(replies[s]) + 1] = [what |-> "refused", channel |-> None]
        BY <2>2
      <4>8. \A k \in DOMAIN replies'[s] : k = Len(replies[s]) + 1 \/ ~IsReply(s, k)'
        BY <2>2, <4>6 DEF IsReply
      <4>9. waiting[q] = i /\ \A u \in Sessions \ {s} : reauthPid[u] # q
        BY <2>9, <3>1 DEF Alone
      <4>10. \A k \in DOMAIN replies'[s] :
                IsReply(s, k)' => /\ \A l \in DOMAIN replies'[s] : IsReply(s, l)' => l = k
                                  /\ replies'[s][k].what = "started" => chan'[replies'[s][k].channel].caller = q
        BY <4>7, <4>8
      <4>11. \A k \in DOMAIN calls'[s] : FALSE
        BY <4>5
      <4> QED BY <3>1, <4>1, <4>4, <4>5, <4>9, <4>10, <4>11 DEF Alone
    <3> QED BY <3>0, <3>1
  <2> QED BY <1>05, <2>8, <2>9
<1>6. ASSUME NEW s \in Sessions, NEW p \in Callers, Answers(s, p) PROVE AloneInv'
  <2>1. PICK i \in Requests, c \in Channels : Given(s, p, i, c)
    BY <1>6, AnswerGiven
  <2>2. request'[i].state = "answered" /\ \A j \in Requests \ {i} : request'[j] = request[j]
    <3>1. request' = [request EXCEPT ![i].state = "answered", ![i].address = c]
      BY <2>1 DEF Given
    <3> QED BY <3>1, RequestAnswered
  <2>3. /\ i = waiting[p] /\ 1 \in DOMAIN replies[s] /\ IsReply(s, 1) /\ reauthPid[s] = p
        /\ \A q \in Callers \ {p} : waiting'[q] = waiting[q]
        /\ \A t \in Sessions \ {s} : replies'[t] = replies[t] /\ reauthPid'[t] = reauthPid[t]
        /\ reauthPid'[s] = None /\ UNCHANGED calls
    BY <1>6, <2>1 DEF Given, Answers, IsReply, Types
  <2>4. ASSUME NEW j \in Requests \ {i}, NEW t \in Sessions, NEW q \in Callers, Alone(j, t, q)
        PROVE  Alone(j, t, q)'
    <3>1. waiting[q] = j /\ q # p
      BY <2>3, <2>4 DEF Alone
    <3>2. t # s
      BY <2>3, <2>4, <3>1 DEF Alone
    <3> QED BY <1>03, <1>04, <2>3, <2>4, <3>1, <3>2
  <2>5. SUFFICES ASSUME NEW j \in Requests, request'[j].state = "sent", request'[j].alone
                 PROVE  Alone(j, request[j].of, request[j].caller)' /\ request'[j] = request[j]
    BY DEF AloneInv
  <2>6. j # i /\ request'[j] = request[j]
    BY <2>2, <2>5
  <2>7. PICK t \in Sessions, q \in Callers : t = request[j].of /\ q = request[j].caller
    BY <1>02, <2>5, <2>6
  <2>8. Alone(j, t, q)
    BY <2>5, <2>6, <2>7 DEF AloneInv
  <2>9. Alone(j, t, q)'
    BY <2>4, <2>6, <2>8
  <2> QED BY <2>6, <2>7, <2>9
<1>7. ASSUME NEW s \in Sessions, Ignores(s) PROVE AloneInv'
  <2>1. replies' = [replies EXCEPT ![s] = Tail(replies[s])] /\ replies[s] # <<>>
    BY <1>7 DEF Ignores, askVars, sessionVars, chanVars, outVars
  <2>2. /\ Len(replies[s]) \in Nat \ {0} /\ DOMAIN replies[s] = 1..Len(replies[s])
        /\ DOMAIN replies'[s] = 1..(Len(replies[s]) - 1)
        /\ \A k \in 1..(Len(replies[s]) - 1) : replies'[s][k] = replies[s][k + 1]
        /\ Head(replies[s]) = replies[s][1]
    <3>1. replies[s] \in Seq(ReplySet)
      BY <1>0
    <3>2. replies'[s] = Tail(replies[s])
      BY <2>1 DEF Types
    <3> QED BY <2>1, <3>1, <3>2, Taken
  <2>3. \A t \in Sessions \ {s} : replies'[t] = replies[t]
    BY <2>1 DEF Types
  <2>8. \A i \in Requests :
            request'[i].state = "sent" /\ request'[i].alone =>
                /\ request[i].state = "sent" /\ request[i].alone
                /\ request'[i].of = request[i].of /\ request'[i].caller = request[i].caller
    BY <1>7 DEF Ignores, askVars, sessionVars, chanVars, outVars
  <2>9. ASSUME NEW i \in Requests, NEW t \in Sessions, NEW q \in Callers, q = request[i].caller,
               t = request[i].of, Alone(i, t, q), request[i].state = "sent", request[i].alone
        PROVE  Alone(i, t, q)'
    <3>0. CASE t # s
      <4>1. UNCHANGED waiting /\ calls'[t] = calls[t] /\ replies'[t] = replies[t]
        BY <1>7, <3>0 DEF Ignores, askVars, sessionVars, chanVars, outVars, Types
      <4>2. \A u \in Sessions : reauthPid'[u] \in {reauthPid[u], None} /\ (u # s => reauthPid'[u] = reauthPid[u])
        BY <1>7 DEF Ignores, askVars, sessionVars, chanVars, outVars, Types
      <4>3. waiting[q] = i
        BY <2>9 DEF Alone
      <4> QED BY <1>03, <1>04, <2>9, <3>0, <4>1, <4>2, <4>3
    <3>1. CASE t = s
      <4>1. IsReply(s, 1) /\ 1 \in DOMAIN replies[s]
        BY <1>7, <2>2 DEF Ignores, IsReply
      <4>2. calls[s] = <<>> /\ \A l \in DOMAIN replies[s] : IsReply(s, l) => l = 1
        BY <2>9, <3>1, <4>1 DEF Alone
      <4>3. \A k \in DOMAIN replies'[s] : ~IsReply(s, k)'
        BY <2>2, <4>2 DEF IsReply
      <4>4. /\ UNCHANGED <<waiting, calls>>
            /\ \A u \in Sessions : reauthPid'[u] \in {reauthPid[u], None}
        BY <1>7 DEF Ignores, askVars, sessionVars, chanVars, outVars, Types
      <4> QED BY <1>03, <2>9, <3>1, <4>2, <4>3, <4>4 DEF Alone
    <3> QED BY <3>0, <3>1
  <2> QED BY <1>05, <2>8, <2>9
<1>8. ASSUME NEW s \in Sessions, Reauthenticated(s) PROVE AloneInv'
  <2>1. replies' = [replies EXCEPT ![s] = Tail(replies[s])] /\ replies[s] # <<>>
    BY <1>8 DEF Reauthenticated, NextReply, TakeReply, SwitchTo, askVars, sessionVars, chanVars,
       outVars
  <2>2. /\ Len(replies[s]) \in Nat \ {0} /\ DOMAIN replies[s] = 1..Len(replies[s])
        /\ DOMAIN replies'[s] = 1..(Len(replies[s]) - 1)
        /\ \A k \in 1..(Len(replies[s]) - 1) : replies'[s][k] = replies[s][k + 1]
        /\ Head(replies[s]) = replies[s][1]
    <3>1. replies[s] \in Seq(ReplySet)
      BY <1>0
    <3>2. replies'[s] = Tail(replies[s])
      BY <2>1 DEF Types
    <3> QED BY <2>1, <3>1, <3>2, Taken
  <2>3. \A t \in Sessions \ {s} : replies'[t] = replies[t]
    BY <2>1 DEF Types
  <2>8. \A i \in Requests :
            request'[i].state = "sent" /\ request'[i].alone =>
                /\ request[i].state = "sent" /\ request[i].alone
                /\ request'[i].of = request[i].of /\ request'[i].caller = request[i].caller
    BY <1>8 DEF Reauthenticated, NextReply, TakeReply, SwitchTo, askVars, sessionVars, chanVars,
       outVars
  <2>9. ASSUME NEW i \in Requests, NEW t \in Sessions, NEW q \in Callers, q = request[i].caller,
               t = request[i].of, Alone(i, t, q), request[i].state = "sent", request[i].alone
        PROVE  Alone(i, t, q)'
    <3>0. waiting[q] = i /\ UNCHANGED <<waiting, calls, reauthPid, chan>>
      BY <1>8, <2>9 DEF Reauthenticated, NextReply, TakeReply, SwitchTo, askVars, sessionVars,
         chanVars, outVars, Alone
    <3>1. CASE t # s
      BY <1>04, <2>3, <2>9, <3>0, <3>1
    <3>2. CASE t = s
      <4>1. ~IsReply(s, 1)
        BY <1>8, <2>2 DEF Reauthenticated, NextReply, TakeReply, SwitchTo, askVars, sessionVars,
           chanVars, outVars, IsReply
      <4>2. \A k \in DOMAIN replies'[s] : /\ k + 1 \in DOMAIN replies[s] /\ replies'[s][k] = replies[s][k + 1]
                                          /\ (IsReply(s, k)' <=> IsReply(s, k + 1))
        BY <2>2 DEF IsReply
      <4>3. \A k \in DOMAIN replies'[s] : k \in Nat
        BY <2>2
      <4> QED BY <2>9, <3>0, <3>2, <4>2, <4>3 DEF Alone
    <3> QED BY <3>1, <3>2
  <2> QED BY <1>05, <2>8, <2>9
<1>9. CASE ChannelMoves
  <2>8. \A i \in Requests :
            request'[i].state = "sent" /\ request'[i].alone =>
                /\ request[i].state = "sent" /\ request[i].alone
                /\ request'[i].of = request[i].of /\ request'[i].caller = request[i].caller
    BY <1>9 DEF ChannelMoves, askVars, sessionVars, chanVars, outVars
  <2>9. ASSUME NEW i \in Requests, NEW t \in Sessions, NEW q \in Callers, q = request[i].caller,
               t = request[i].of, Alone(i, t, q), request[i].state = "sent", request[i].alone
        PROVE  Alone(i, t, q)'
    <3>1. waiting[q] = i /\ UNCHANGED <<waiting, calls, replies, reauthPid>>
      BY <1>9, <2>9 DEF ChannelMoves, askVars, sessionVars, chanVars, outVars, Alone
    <3> QED BY <1>04, <2>9, <3>1
  <2> QED BY <1>05, <2>8, <2>9
<1>10. ASSUME NEW c \in Channels, SignalsVerified(c) PROVE AloneInv'
  <2>0. PICK s \in Sessions : s = chan[c].of
    BY <1>10 DEF SignalsVerified
  <2>1. replies' = [replies EXCEPT ![s] = Append(replies[s], [what |-> "reauthenticated", channel |-> c])]
    BY <1>10, <2>0 DEF SignalsVerified, askVars, sessionVars, chanVars, outVars
  <2>2. /\ Len(replies[s]) \in Nat /\ DOMAIN replies[s] = 1..Len(replies[s])
        /\ DOMAIN replies'[s] = 1..(Len(replies[s]) + 1)
        /\ \A k \in 1..Len(replies[s]) : replies'[s][k] = replies[s][k]
        /\ replies'[s][Len(replies[s]) + 1] = [what |-> "reauthenticated", channel |-> c]
    <3>1. replies[s] \in Seq(ReplySet) /\ s \in Sessions
      BY <1>0
    <3>2. replies'[s] = Append(replies[s], [what |-> "reauthenticated", channel |-> c])
      BY <2>1, <3>1 DEF Types
    <3>3. [what |-> "reauthenticated", channel |-> c] \in ReplySet
      BY <1>10, RepliesAre DEF OpensChannel, ChannelsGrow
    <3> QED BY <3>1, <3>2, <3>3, Appended
  <2>3. \A t \in Sessions \ {s} : replies'[t] = replies[t]
    BY <2>1 DEF Types
  <2>8. \A i \in Requests :
            request'[i].state = "sent" /\ request'[i].alone =>
                /\ request[i].state = "sent" /\ request[i].alone
                /\ request'[i].of = request[i].of /\ request'[i].caller = request[i].caller
    BY <1>10 DEF SignalsVerified, askVars, sessionVars, chanVars, outVars
  <2>9. ASSUME NEW i \in Requests, NEW t \in Sessions, NEW q \in Callers, q = request[i].caller,
               t = request[i].of, Alone(i, t, q), request[i].state = "sent", request[i].alone
        PROVE  Alone(i, t, q)'
    <3>0. waiting[q] = i /\ UNCHANGED <<waiting, calls, reauthPid>>
      BY <1>10, <2>9 DEF SignalsVerified, askVars, sessionVars, chanVars, outVars, Alone
    <3>1. CASE t # s
      BY <1>04, <2>3, <2>9, <3>0, <3>1
    <3>2. CASE t = s
      <4>1. \A k \in DOMAIN replies'[s] :
                IsReply(s, k)' => k \in DOMAIN replies[s] /\ replies'[s][k] = replies[s][k] /\ IsReply(s, k)
        BY <2>2 DEF IsReply
      <4> QED BY <1>01, <2>9, <3>0, <3>2, <4>1 DEF Alone
    <3> QED BY <3>1, <3>2
  <2> QED BY <1>05, <2>8, <2>9
<1>11. ASSUME NEW s \in Sessions, Closes(s) PROVE AloneInv'
  <2>8. \A i \in Requests :
            request'[i].state = "sent" /\ request'[i].alone =>
                /\ request[i].state = "sent" /\ request[i].alone
                /\ request'[i].of = request[i].of /\ request'[i].caller = request[i].caller
    BY <1>11 DEF Closes, askVars, sessionVars, chanVars, outVars
  <2>9. ASSUME NEW i \in Requests, NEW t \in Sessions, NEW q \in Callers, q = request[i].caller,
               t = request[i].of, Alone(i, t, q), request[i].state = "sent", request[i].alone
        PROVE  Alone(i, t, q)'
    <3>0. CASE t # s
      <4>1. UNCHANGED waiting /\ calls'[t] = calls[t] /\ replies'[t] = replies[t]
        BY <1>11, <3>0 DEF Closes, askVars, sessionVars, chanVars, outVars, Types
      <4>2. \A u \in Sessions : reauthPid'[u] \in {reauthPid[u], None} /\ (u # s => reauthPid'[u] = reauthPid[u])
        BY <1>11 DEF Closes, askVars, sessionVars, chanVars, outVars, Types
      <4>3. waiting[q] = i
        BY <2>9 DEF Alone
      <4> QED BY <1>03, <1>04, <2>9, <3>0, <4>1, <4>2, <4>3
    <3>1. CASE t = s
      <4>1. /\ calls'[s] = <<>> /\ replies'[s] = <<>> /\ UNCHANGED waiting
            /\ \A u \in Sessions : reauthPid'[u] \in {reauthPid[u], None}
        BY <1>11 DEF Closes, askVars, sessionVars, chanVars, outVars, Types
      <4> QED BY <1>03, <2>9, <3>1, <4>1 DEF Alone
    <3> QED BY <3>0, <3>1
  <2> QED BY <1>05, <2>8, <2>9
<1>12. CASE SessionMoves
  <2>8. \A i \in Requests :
            request'[i].state = "sent" /\ request'[i].alone =>
                /\ request[i].state = "sent" /\ request[i].alone
                /\ request'[i].of = request[i].of /\ request'[i].caller = request[i].caller
    BY <1>12 DEF SessionMoves, askVars, sessionVars, chanVars, outVars
  <2>9. ASSUME NEW i \in Requests, NEW t \in Sessions, NEW q \in Callers, q = request[i].caller,
               t = request[i].of, Alone(i, t, q), request[i].state = "sent", request[i].alone
        PROVE  Alone(i, t, q)'
    <3>1. waiting[q] = i /\ UNCHANGED <<waiting, calls, replies, reauthPid>>
      BY <1>12, <2>9 DEF SessionMoves, askVars, sessionVars, chanVars, outVars, Alone
    <3> QED BY <1>04, <2>9, <3>1
  <2> QED BY <1>05, <2>8, <2>9
<1> QED BY <1>1, <1>2, <1>3, <1>4, <1>5, <1>6, <1>7, <1>8, <1>9, <1>10, <1>11, <1>12, StepCases,
           Zenon

\* In the beginning there is nothing.
LEMMA InitInv == Init => ReauthInv
<1> SUFFICES ASSUME Init PROVE ReauthInv
  OBVIOUS
<1> USE ReauthAssumptions DEF Init
<1>1. Types
  <2>1. NoRequest \in RequestSet /\ NoChannel \in ChannelSet
    BY DEF NoRequest, NoChannel, RequestSet, ChannelSet
  <2> QED BY <2>1 DEF Types
<1>2. CountInv
  <2>1. Unhandled = {}
    BY DEF Unhandled
  <2> QED BY <2>1, FS_EmptySet DEF CountInv
<1>3. ChannelInv
  BY DEF ChannelInv, NoChannel, GoodChannel, EndsWithClient, Channels
<1>4. TableInv /\ ReplyInv /\ WaitingInv
  BY DEF TableInv, ReplyInv, WaitingInv
<1>5. AnswerInv /\ AloneInv /\ OwnChannel
  BY DEF AnswerInv, AloneInv, OwnChannel, NoRequest, Requests
<1>6. EarnedInv
  BY DEF EarnedInv
<1> QED BY <1>1, <1>2, <1>3, <1>4, <1>5, <1>6 DEF ReauthInv

\* The invariant is inductive.
LEMMA ReauthInvariant == Spec => []ReauthInv
<1>1. ReauthInv /\ [Next]_vars => ReauthInv'
  BY NextTypes, NextCountInv, NextChannelInv, NextTableInv, NextReplyInv, NextAnswerInv,
     NextWaitingInv,
     NextAloneInv, NextOwnChannel, NextEarnedInv, Zenon DEF ReauthInv
<1> QED BY <1>1, InitInv, PTL DEF Spec

-----------------------------------------------------------------------------
(***************************************************************************)
(* The theorems.                                                           *)
(***************************************************************************)

\* Every variable keeps its type; in particular there is a place for every channel that
\* a worker opens, because it opens one only for a call of OpenReauthenticationChannel.
THEOREM ReauthTypeCorrect == Spec => []TypeOK
<1>1. ReauthInv => TypeOK
  BY DEF ReauthInv, Types, TypeOK, RequestSet, ReplySet, ChannelSet
<1> QED BY <1>1, ReauthInvariant, PTL

\* A request that shared neither its session nor its caller with another is answered
\* with the channel that the session's worker opened for its caller, in spite of the
\* one reauth_pid_of_caller that on_reauthentication_started_cb goes by.
THEOREM AloneGetsOwnChannel == Spec => []OwnChannel
<1>1. ReauthInv => OwnChannel
  BY DEF ReauthInv
<1> QED BY <1>1, ReauthInvariant, PTL

\* close_transient_session ends a temporary channel with its client: no conversation is
\* left on it, also when the manager's table holds a newer channel of the same caller.
THEOREM TemporaryChannelsEnd == Spec => []TemporaryEndsWithClient
<1>1. ReauthInv => TemporaryEndsWithClient
  BY DEF ReauthInv, ChannelInv, GoodChannel, EndsWithClient, TemporaryEndsWithClient
<1> QED BY <1>1, ReauthInvariant, PTL

\* A session is activated and unlocked, and a remote login screen redirected to it, only
\* after a verification on a channel of that session and that login screen, however
\* many channels there were and in whatever order their workers' signals come.
THEOREM UnlocksAreEarned == Spec => []UnlockIsEarned
<1>1. ReauthInv => UnlockIsEarned
  BY DEF ReauthInv, EarnedInv, Earned, UnlockIsEarned
<1> QED BY <1>1, ReauthInvariant, PTL

\* A worker's table changes only by its own handlers.
LEMMA TableChanges ==
    ASSUME Types, ChannelInv, TableInv, Next, NEW s \in Sessions, NEW p \in Callers,
           table[s][p] # None, table'[s][p] # table[s][p]
    PROVE  \/ session'[s] = "ended"
           \/ opened' # opened
           \/ chan[table[s][p]].client = "connected" /\ chan'[table[s][p]].client = "gone"
<1>1. CASE \E t \in Sessions : HandleStartReauthentication(t)
  <2>1. opened' = opened + 1 \/ table' = table
    BY <1>1 DEF HandleStartReauthentication, chanVars
  <2> QED BY <2>1 DEF Types
<1>2. CASE \E t \in Sessions : SessionEnds(t)
  BY <1>2 DEF SessionEnds, Types
<1>3. ASSUME NEW c \in Channels, Disconnect(c), chan[c].owner = "worker"
      PROVE  chan[table[s][p]].client = "connected" /\ chan'[table[s][p]].client = "gone"
  <2>1. /\ chan[c].client = "connected" /\ Tracked(c) /\ chan[c].of = s /\ chan[c].caller = p
        /\ Settle([chan EXCEPT ![c].client = "gone"], Removed(c), transient)
    <3>1. chan[c].of \in Sessions /\ chan[c].caller \in Callers
      BY <1>3 DEF ChannelInv, GoodChannel
    <3>2. /\ chan[c].client = "connected" /\ table' = Removed(c)
          /\ Settle([chan EXCEPT ![c].client = "gone"], Removed(c), transient)
      BY <1>3 DEF Disconnect, Talks, Settle
    <3>3. Tracked(c)
      BY <3>2 DEF Removed
    <3>4. \A t \in Sessions, q \in Callers :
              t # chan[c].of \/ q # chan[c].caller => table'[t][q] = table[t][q]
      BY <3>1, <3>2, <3>3 DEF Removed, Types
    <3> QED BY <3>2, <3>3, <3>4
  <2>2. table[s][p] = c /\ chan[c] \in ChannelSet
    BY <2>1 DEF Tracked, Types
  <2>3. PICK x \in ChannelSet : x = [chan[c] EXCEPT !.client = "gone"] /\ x.client = "gone"
    BY <2>2, Left
  <2>4. /\ [chan EXCEPT ![c].client = "gone"] \in [Channels -> ChannelSet]
        /\ [chan EXCEPT ![c].client = "gone"][c] = x
    BY <2>3 DEF Types
  <2>5. chan'[c] = x \/ chan'[c] = Disposed(x)
    BY <2>1, <2>4 DEF Settle
  <2>6. Disposed(x).client = "gone"
    BY <2>3 DEF Disposed, ChannelSet
  <2> QED BY <2>1, <2>2, <2>3, <2>5, <2>6
<1>4. ASSUME NEW c \in Channels, ChannelStep(c), ~(Disconnect(c) /\ chan[c].owner = "worker")
      PROVE  table' = table
  BY <1>4 DEF ChannelStep, RejectClient, BeginVerification, ConversationStops, Cancel, Disconnect,
     VerificationComplete, TransientVerificationComplete, CloseTransient, Settle
<1>5. ASSUME NEW q \in Callers, NEW t \in Sessions \cup {None}, OpenReauthenticationChannel(q, t)
      PROVE  table' = table
  BY <1>5 DEF OpenReauthenticationChannel, Deny, StartReauthentication, OpenTemporary, Settle,
     chanVars
<1>6. CASE \E t \in Sessions :
              ReauthenticationStarted(t) \/ Reauthenticated(t) \/ Freeze(t) \/ ProgramEnds(t)
  BY <1>6 DEF ReauthenticationStarted, Reauthenticated, Freeze, ProgramEnds, chanVars
<1>7. CASE \E i \in Requests : Connect(i)
  BY <1>7 DEF Connect
<1> QED BY <1>1, <1>2, <1>3, <1>4, <1>5, <1>6, <1>7 DEF Next

\* A worker keeps the newest channel of a caller in reauthentication_requests until that
\* channel's own client goes: an older one that ends late does not remove it, because
\* its handlers were disconnected when it was replaced.
THEOREM NewestIsKept == Spec => WorkerKeepsNewest
<1>1. ASSUME ReauthInv, [Next]_vars
      PROVE  [\A s \in Sessions, p \in Callers :
                 LET c == table[s][p]
                 IN c # None /\ table'[s][p] # c =>
                        \/ session'[s] = "ended"
                        \/ opened' # opened
                        \/ chan[c].client = "connected" /\ chan'[c].client = "gone"]_vars
  BY <1>1, TableChanges DEF ReauthInv
<1> QED BY <1>1, ReauthInvariant, PTL DEF Spec, WorkerKeepsNewest

-----------------------------------------------------------------------------
(***************************************************************************)
(* What makes a channel end.                                               *)
(***************************************************************************)

\* A channel that has its server is held somewhere or has a conversation.
HeldInv ==
    \A c \in Channels : chan[c].server /\ ~chan[c].conv => Held(c, table, transient)

\* When the references are counted, a channel that was not touched ends only if it was
\* held before and is not any more.
LEMMA SettledOthers ==
    ASSUME HeldInv, NEW e \in Channels, NEW ch, \A x \in Channels \ {e} : ch[x] = chan[x],
           NEW tb, NEW tr, Settle(ch, tb, tr),
           NEW x \in Channels \ {e}, chan'[x] # chan[x]
    PROVE  /\ chan[x].server /\ ~chan[x].conv
           /\ Held(x, table, transient) /\ ~Held(x, tb, tr)
<1>1. chan'[x] = IF ch[x].server /\ ~ch[x].conv /\ ~Held(x, tb, tr)
                 THEN Disposed(ch[x]) ELSE ch[x]
  BY DEF Settle
<1> QED BY <1>1 DEF HeldInv

\* The references are exact after each count.
LEMMA SettledHeld ==
    ASSUME NEW ch \in [Channels -> ChannelSet], NEW tb, NEW tr, Settle(ch, tb, tr)
    PROVE  HeldInv'
<1> SUFFICES ASSUME NEW c \in Channels, chan'[c].server, ~chan'[c].conv
             PROVE  Held(c, table', transient')
  BY DEF HeldInv, Held
<1>1. table' = tb /\ transient' = tr
  BY DEF Settle
<1>2. chan'[c] = IF ch[c].server /\ ~ch[c].conv /\ ~Held(c, tb, tr)
                 THEN Disposed(ch[c]) ELSE ch[c]
  BY DEF Settle
<1>3. ch[c] \in ChannelSet
  OBVIOUS
<1>4. ~Disposed(ch[c]).server
  BY <1>3, DisposedChannel
<1>5. Held(c, tb, tr)
  BY <1>2, <1>4
<1> QED BY <1>1, <1>5

\* At most one channel besides e changes, one of e's caller and holder on which no
\* conversation runs; at a worker e is new.
Around(e) ==
    \A x \in Channels \ {e} : chan'[x] # chan[x] =>
        /\ chan[x].server /\ ~chan[x].conv
        /\ chan'[e].owner = chan[x].owner /\ chan'[e].caller = chan[x].caller
        /\ chan[x].owner = "worker" =>
              chan'[e].of = chan[x].of /\ opened' = e /\ ~chan[e].server
        /\ \A y \in Channels \ {e} : chan'[y] # chan[y] => y = x

\* close_transient_session.
LEMMA ClosedAround ==
    ASSUME Types, ChannelInv, TableInv, HeldInv, NEW c \in Channels, chan[c].owner = "manager",
           NEW ch \in [Channels -> ChannelSet], \A d \in Channels \ {c} : ch[d] = chan[d],
           SameChannel(chan[c], ch[c]), CloseTransient(c, ch)
    PROVE  HeldInv' /\ Around(c)
<1> DEFINE x == [ch EXCEPT ![c].conv = FALSE]
           p == chan[c].caller
           tr == [transient EXCEPT ![p] = None]
<1>1. chan[c] \in ChannelSet /\ ch[c] \in ChannelSet /\ GoodChannel(chan[c]) /\ p \in Callers
  BY DEF Types, ChannelInv, GoodChannel
<1>2. PICK y \in ChannelSet : y = [ch[c] EXCEPT !.conv = FALSE] /\ SameChannel(ch[c], y)
  BY <1>1, ConvStopped
<1>3. x \in [Channels -> ChannelSet] /\ x[c] = y /\ \A d \in Channels \ {c} : x[d] = chan[d]
  BY <1>2
<1>4. Settle(x, table, tr)
  BY DEF CloseTransient
<1> HIDE DEF x
<1>5. HeldInv'
  BY <1>3, <1>4, SettledHeld
<1>6. SameChannel(x[c], chan'[c])
  BY <1>3, <1>4, Settled
<1>7. chan'[c].owner = "manager" /\ chan'[c].caller = p
  BY <1>2, <1>3, <1>6 DEF SameChannel
<1>8. ASSUME NEW d \in Channels \ {c}, chan'[d] # chan[d]
      PROVE  chan[d].server /\ ~chan[d].conv /\ transient[p] = d
  <2>1. chan[d].server /\ ~chan[d].conv /\ Held(d, table, transient) /\ ~Held(d, table, tr)
    BY <1>3, <1>4, <1>8, SettledOthers
  <2>2. PICK q \in Callers : transient[q] = d /\ tr[q] # d
    BY <2>1 DEF Held
  <2>3. q = p
    BY <2>2 DEF Types
  <2> QED BY <2>1, <2>2, <2>3
<1>9. ASSUME NEW d \in Channels \ {c}, chan'[d] # chan[d]
      PROVE  chan[d].owner = "manager" /\ chan[d].caller = p
  <2>1. transient[p] = d /\ d # None
    BY <1>8, <1>9, ReauthAssumptions DEF Channels
  <2> QED BY <1>1, <2>1 DEF TableInv
<1> QED BY <1>5, <1>7, <1>8, <1>9 DEF Around

\* The steps of a channel.
LEMMA ChannelAround ==
    ASSUME Types, ChannelInv, TableInv, HeldInv, NEW c \in Channels, ChannelStep(c)
    PROVE  HeldInv' /\ Around(c)
<1>0. /\ chan[c] \in ChannelSet /\ chan \in [Channels -> ChannelSet] /\ GoodChannel(chan[c])
      /\ SameChannel(chan[c], chan[c]) /\ c # None
  BY ReauthAssumptions DEF Types, ChannelInv, SameChannel, Channels
<1>1. CASE chan[c].owner = "manager" /\ CloseTransient(c, chan)
  BY <1>0, <1>1, ClosedAround
<1>2. CASE Disconnect(c)
  <2>1. PICK x \in ChannelSet : x = [chan[c] EXCEPT !.client = "gone"] /\ SameChannel(chan[c], x)
    BY <1>0, Left
  <2>2. PICK ch \in [Channels -> ChannelSet] :
            /\ ch = [chan EXCEPT ![c] = x] /\ ch[c] = x
            /\ \A d \in Channels \ {c} : ch[d] = chan[d]
    BY <1>0, OneChanges
  <2>3. ch = [chan EXCEPT ![c].client = "gone"]
    BY <2>1, <2>2
  <2>4. CASE chan[c].owner = "manager" /\ CloseTransient(c, ch)
    BY <2>1, <2>2, <2>4, ClosedAround
  <2>5. CASE chan[c].owner = "worker" /\ Settle(ch, Removed(c), transient)
    <3>1. chan[c].of \in Sessions /\ chan[c].caller \in Callers
      BY <1>0, <2>5 DEF GoodChannel
    <3>2. ASSUME NEW d \in Channels \ {c} PROVE chan'[d] = chan[d]
      <4> SUFFICES ASSUME chan'[d] # chan[d] PROVE FALSE
        OBVIOUS
      <4>1. Held(d, table, transient) /\ ~Held(d, Removed(c), transient)
        BY <2>2, <2>5, SettledOthers
      <4>2. PICK s \in Sessions, p \in Callers : table[s][p] = d /\ Removed(c)[s][p] # d
        BY <4>1 DEF Held
      <4>3. Tracked(c)
        BY <4>2 DEF Removed
      <4>4. s = chan[c].of /\ p = chan[c].caller
        BY <3>1, <4>2, <4>3 DEF Removed, Types
      <4> QED BY <4>2, <4>3, <4>4 DEF Tracked
    <3> QED BY <2>2, <2>5, <3>2, SettledHeld DEF Around
  <2> QED BY <1>2, <2>3, <2>4, <2>5 DEF Disconnect
<1>3. CASE TransientVerificationComplete(c)
  <2>1. PICK x \in ChannelSet : x = [chan[c] EXCEPT !.verified = TRUE] /\ SameChannel(chan[c], x)
    BY <1>0, Verified
  <2>2. PICK ch \in [Channels -> ChannelSet] :
            /\ ch = [chan EXCEPT ![c] = x] /\ ch[c] = x
            /\ \A d \in Channels \ {c} : ch[d] = chan[d]
    BY <1>0, OneChanges
  <2>3. ch = [chan EXCEPT ![c].verified = TRUE]
    BY <2>1, <2>2
  <2>4. chan[c].owner = "manager" /\ CloseTransient(c, ch)
    BY <1>3, <2>3 DEF TransientVerificationComplete
  <2> QED BY <2>1, <2>2, <2>4, ClosedAround
<1>4. CASE ConversationStops(c)
  <2>1. PICK x \in ChannelSet : x = [chan[c] EXCEPT !.conv = FALSE]
    BY <1>0, ConvStopped
  <2>2. PICK ch \in [Channels -> ChannelSet] :
            /\ ch = [chan EXCEPT ![c] = x]
            /\ \A d \in Channels \ {c} : ch[d] = chan[d]
    BY <1>0, OneChanges
  <2>3. Settle(ch, table, transient)
    BY <1>4, <2>1, <2>2 DEF ConversationStops
  <2>4. \A d \in Channels \ {c} : chan'[d] = chan[d]
    BY <2>2, <2>3, SettledOthers
  <2> QED BY <2>3, <2>4, SettledHeld DEF Around
<1>5. CASE /\ UNCHANGED <<table, transient>>
           /\ \A d \in Channels \ {c} : chan'[d] = chan[d]
           /\ chan'[c].server = chan[c].server
           /\ chan'[c].conv \/ chan'[c].conv = chan[c].conv \/ Held(c, table, transient)
  BY <1>5 DEF HeldInv, Held, Around
<1>6. CASE BeginVerification(c)
  <2>1. chan' = [chan EXCEPT ![c].conv = TRUE] /\ UNCHANGED <<table, transient>>
    BY <1>6 DEF BeginVerification
  <2> QED BY <1>0, <1>5, <2>1 DEF ChannelSet
<1>7. chan[c].owner = "worker" /\ Tracked(c) => Held(c, table, transient)
  BY <1>0 DEF Held, Tracked, GoodChannel
<1>8. CASE Cancel(c) /\ chan[c].owner = "worker"
  <2>1. /\ chan' = IF Tracked(c) THEN [chan EXCEPT ![c].conv = FALSE] ELSE chan
        /\ UNCHANGED <<table, transient>>
    BY <1>8 DEF Cancel
  <2> QED BY <1>0, <1>5, <1>7, <1>8, <2>1 DEF ChannelSet
<1>9. CASE VerificationComplete(c)
  <2>1. /\ chan[c].owner = "worker" /\ UNCHANGED <<table, transient>>
        /\ \/ Tracked(c) /\ chan' = [chan EXCEPT ![c].conv = FALSE, ![c].verified = TRUE]
           \/ chan' = [chan EXCEPT ![c].verified = TRUE]
    BY <1>9 DEF VerificationComplete
  <2> QED BY <1>0, <1>5, <1>7, <2>1 DEF ChannelSet
<1> QED BY <1>1, <1>2, <1>3, <1>4, <1>6, <1>8, <1>9 DEF ChannelStep, RejectClient, Cancel

\* Opening a channel replaces at most the one that was held in its place.
LEMMA OpenedAround ==
    ASSUME Types, ChannelInv, TableInv, HeldInv, opened < MaxRequests, opened' = opened + 1,
           NEW o \in {"worker", "manager"}, NEW s \in Sessions \cup {None}, NEW p \in Callers,
           NEW n, n = NewChannel(o, s, p), NEW tb, NEW tr,
           Settle([chan EXCEPT ![opened + 1] = n], tb, tr),
           o = "worker" => s \in Sessions /\ tb = [table EXCEPT ![s][p] = opened + 1] /\ tr = transient,
           o = "manager" => tb = table /\ tr = [transient EXCEPT ![p] = opened + 1]
    PROVE  HeldInv' /\ Around(opened + 1) /\ opened + 1 \in Channels
<1>1. PICK e \in Channels : e = opened + 1
  BY ReauthAssumptions DEF Types, Channels
<1>2. n \in ChannelSet /\ n.owner = o /\ n.of = s /\ n.caller = p
  BY NewChannelFields
<1>3. chan \in [Channels -> ChannelSet] /\ e # None
  BY ReauthAssumptions DEF Types, Channels
<1>4. PICK ch \in [Channels -> ChannelSet] :
          /\ ch = [chan EXCEPT ![e] = n] /\ ch[e] = n
          /\ \A d \in Channels \ {e} : ch[d] = chan[d]
  <2>1. n \in ChannelSet
    BY <1>2
  <2>2. chan \in [Channels -> ChannelSet]
    BY <1>3
  <2>3. \E g \in [Channels -> ChannelSet] :
            /\ g = [chan EXCEPT ![e] = n] /\ g[e] = n
            /\ \A d \in Channels \ {e} : g[d] = chan[d]
    BY ONLY e \in Channels, <2>1, <2>2, OneChanges
  <2> QED BY <2>3
<1>5. Settle(ch, tb, tr)
  BY <1>1, <1>4
<1>6. HeldInv'
  BY <1>5, SettledHeld
<1>7. chan'[e].owner = o /\ chan'[e].of = s /\ chan'[e].caller = p
  <2>1. SameChannel(ch[e], chan'[e])
    BY <1>5, Settled
  <2> QED BY <1>2, <1>4, <2>1 DEF SameChannel
<1>8. ~chan[e].server
  BY <1>1 DEF ChannelInv, GoodChannel, Types
<1>9. ASSUME NEW d \in Channels \ {e}, chan'[d] # chan[d]
      PROVE  /\ chan[d].server /\ ~chan[d].conv
             /\ o = "worker" => table[s][p] = d
             /\ o = "manager" => transient[p] = d
  <2>1. chan[d].server /\ ~chan[d].conv /\ Held(d, table, transient) /\ ~Held(d, tb, tr)
    BY <1>4, <1>5, <1>9, SettledOthers
  <2>2. CASE o = "worker"
    <3>1. PICK t \in Sessions, q \in Callers : table[t][q] = d /\ tb[t][q] # d
      BY <2>1, <2>2 DEF Held
    <3>2. t = s /\ q = p
      BY <2>2, <3>1 DEF Types
    <3> QED BY <2>1, <2>2, <3>1, <3>2
  <2>3. CASE o = "manager"
    <3>1. PICK q \in Callers : transient[q] = d /\ tr[q] # d
      BY <2>1, <2>3 DEF Held
    <3>2. q = p
      BY <2>3, <3>1 DEF Types
    <3> QED BY <2>1, <2>3, <3>1, <3>2
  <2> QED BY <2>2, <2>3
<1>10. ASSUME NEW d \in Channels \ {e}, chan'[d] # chan[d]
       PROVE  /\ chan[d].owner = o /\ chan[d].caller = p
              /\ o = "worker" => chan[d].of = s
  <2>1. d # None
    BY ReauthAssumptions DEF Channels
  <2> QED BY <1>9, <1>10, <2>1 DEF TableInv
<1>11. Around(e)
  <2> SUFFICES ASSUME NEW d \in Channels \ {e}, chan'[d] # chan[d]
               PROVE  /\ chan[d].server /\ ~chan[d].conv
                      /\ chan'[e].owner = chan[d].owner /\ chan'[e].caller = chan[d].caller
                      /\ chan[d].owner = "worker" =>
                            chan'[e].of = chan[d].of /\ opened' = e /\ ~chan[e].server
                      /\ \A y \in Channels \ {e} : chan'[y] # chan[y] => y = d
    BY DEF Around
  <2>1. \A y \in Channels \ {e} : chan'[y] # chan[y] => y = d
    BY <1>9
  <2> QED BY <1>1, <1>7, <1>8, <1>9, <1>10, <2>1
<1> QED BY <1>1, <1>6, <1>11

\* Every step but the end of a session.
LEMMA StepAround ==
    ASSUME Types, CountInv, ChannelInv, TableInv, HeldInv, [Next]_vars,
           ~\E s \in Sessions : SessionEnds(s)
    PROVE  HeldInv' /\ (UNCHANGED chan \/ \E e \in Channels : Around(e))
<1>1. CASE UNCHANGED <<chan, table, transient>>
  BY <1>1 DEF HeldInv, Held
<1>2. ASSUME NEW p \in Callers, NEW s \in Sessions \cup {None}, OpenReauthenticationChannel(p, s)
      PROVE  HeldInv' /\ (UNCHANGED chan \/ \E e \in Channels : Around(e))
  <2>1. opened < MaxRequests
    <3>1. opened <= asked /\ asked < MaxRequests
      BY <1>2, RoomForChannel DEF OpenReauthenticationChannel
    <3> QED BY <3>1, ReauthAssumptions DEF Types
  <2>2. ASSUME NEW t \in Sessions \cup {None}, OpenTemporary(asked', p, t)
        PROVE  HeldInv' /\ \E e \in Channels : Around(e)
    <3> DEFINE n == NewChannel("manager", t, p)
    <3>1. /\ opened' = opened + 1
          /\ Settle([chan EXCEPT ![opened + 1] = n], table, [transient EXCEPT ![p] = opened + 1])
      BY <2>2 DEF OpenTemporary
    <3> QED BY <2>1, <3>1, OpenedAround
  <2>3. \/ Deny(asked', p) \/ StartReauthentication(asked', p, s)
        \/ s \in Sessions /\ OpenTemporary(asked', p, IF p \in LoginScreens THEN s ELSE None)
        \/ OpenTemporary(asked', p, None)
    BY <1>2 DEF OpenReauthenticationChannel, Found
  <2>4. CASE s \in Sessions /\ OpenTemporary(asked', p, IF p \in LoginScreens THEN s ELSE None)
    BY <2>2, <2>4
  <2>5. CASE OpenTemporary(asked', p, None)
    BY <2>2, <2>5
  <2>6. CASE Deny(asked', p) \/ StartReauthentication(asked', p, s)
    BY <1>1, <2>6 DEF Deny, StartReauthentication, chanVars
  <2> QED BY <2>3, <2>4, <2>5, <2>6
<1>3. ASSUME NEW s \in Sessions, HandleStartReauthentication(s)
      PROVE  HeldInv' /\ (UNCHANGED chan \/ \E e \in Channels : Around(e))
  <2>1. PICK p \in Callers : p = Head(calls[s])
    BY <1>3 DEF HandleStartReauthentication, Types
  <2>2. opened < MaxRequests
    <3>1. opened < asked /\ asked \in 0..MaxRequests /\ opened \in 0..MaxRequests
      BY <1>3, RoomForChannel DEF HandleStartReauthentication, Types
    <3> QED BY <3>1, ReauthAssumptions
  <2> DEFINE n == NewChannel("worker", s, p)
  <2>3. CASE /\ opened' = opened + 1
             /\ Settle([chan EXCEPT ![opened + 1] = n], [table EXCEPT ![s][p] = opened + 1],
                       transient)
    BY <2>2, <2>3, OpenedAround
  <2>4. UNCHANGED chanVars \/ (/\ opened' = opened + 1
             /\ Settle([chan EXCEPT ![opened + 1] = n], [table EXCEPT ![s][p] = opened + 1],
                       transient))
    BY <1>3, <2>1 DEF HandleStartReauthentication
  <2> QED BY <1>1, <2>3, <2>4 DEF chanVars
<1>4. ASSUME NEW i \in Requests, Connect(i)
      PROVE  HeldInv' /\ (UNCHANGED chan \/ \E e \in Channels : Around(e))
  <2> DEFINE c == request[i].address
  <2>1. chan' = [chan EXCEPT ![c].client = "connected"] /\ UNCHANGED <<table, transient>>
    BY <1>4 DEF Connect
  <2>2. CASE c \notin Channels
    BY <1>1, <2>1, <2>2 DEF Types
  <2>3. CASE c \in Channels
    <3>1. /\ \A d \in Channels \ {c} : chan'[d] = chan[d]
          /\ chan'[c].server = chan[c].server /\ chan'[c].conv = chan[c].conv
      BY <2>1, <2>3 DEF Types, ChannelSet
    <3>2. Around(c)
      BY <3>1 DEF Around
    <3>3. HeldInv'
      BY <2>1, <3>1 DEF HeldInv, Held
    <3> QED BY <2>3, <3>2, <3>3
  <2> QED BY <2>2, <2>3
<1>5. ASSUME NEW s \in Sessions,
             ReauthenticationStarted(s) \/ Reauthenticated(s) \/ Freeze(s) \/ ProgramEnds(s)
      PROVE  UNCHANGED <<chan, table, transient>>
  BY <1>5 DEF ReauthenticationStarted, Reauthenticated, Freeze, ProgramEnds, chanVars
<1>6. CASE UNCHANGED vars
  BY <1>1, <1>6 DEF vars, chanVars
<1> QED BY <1>1, <1>2, <1>3, <1>4, <1>5, <1>6, ChannelAround DEF Next

\* The end of a session.
LEMMA SessionEndsHeld ==
    ASSUME Types, ChannelInv, TableInv, HeldInv, NEW s \in Sessions, SessionEnds(s)
    PROVE  /\ HeldInv'
           /\ session[s] # "ended" /\ session'[s] = "ended"
<1>1. /\ session[s] # "ended" /\ session'[s] = "ended" /\ transient' = transient
      /\ \A t \in Sessions \ {s} : table'[t] = table[t]
  BY DEF SessionEnds, Types
<1>2. ASSUME NEW c \in Channels, chan'[c].server, ~chan'[c].conv
      PROVE  Held(c, table', transient')
  <2>1. chan[c] \in ChannelSet
    BY DEF Types
  <2>2. chan'[c] = chan[c] /\ ~(chan[c].owner = "worker" /\ chan[c].of = s)
    <3>1. ~Disposed(chan[c]).server
      BY <2>1, DisposedChannel
    <3> QED BY <1>2, <3>1 DEF SessionEnds
  <2>3. Held(c, table, transient) /\ c # None
    BY <1>2, <2>2, ReauthAssumptions DEF HeldInv, Channels
  <2>4. CASE \E p \in Callers : transient[p] = c
    BY <1>1, <2>4 DEF Held
  <2>5. ASSUME NEW t \in Sessions, NEW p \in Callers, table[t][p] = c
        PROVE  Held(c, table', transient')
    <3>1. t # s
      BY <2>2, <2>3, <2>5 DEF TableInv
    <3> QED BY <1>1, <2>5, <3>1 DEF Held
  <2> QED BY <2>3, <2>4, <2>5 DEF Held
<1> QED BY <1>1, <1>2 DEF HeldInv

LEMMA HeldInvariant == Spec => []HeldInv
<1>1. Init => HeldInv
  BY DEF Init, HeldInv, NoChannel
<1>2. ReauthInv /\ HeldInv /\ [Next]_vars => HeldInv'
  BY StepAround, SessionEndsHeld DEF ReauthInv
<1> QED BY <1>1, <1>2, ReauthInvariant, PTL DEF Spec

\* A channel of reauthentication ends by its own doing or with its session; two go together
\* only if they belong to one caller, and then a conversation runs on one of them at most.
THEOREM ChannelsEndAsTheyShould == Spec => ChannelsEndWithCaller
<1> DEFINE Ends ==
        \A c, d \in Channels :
            /\ chan[c].server /\ ~chan'[c].server
            /\ c # d /\ chan'[d] # chan[d]
            => \/ /\ chan'[d].caller = chan[c].caller /\ chan'[d].owner = chan[c].owner
                  /\ ~(chan[c].conv /\ chan[d].conv)
                  /\ chan[c].owner = "worker" => chan'[d].of = chan[c].of /\ opened' = d
               \/ \E s \in Sessions : session[s] # "ended" /\ session'[s] = "ended"
<1>1. ASSUME ReauthInv, HeldInv, [Next]_vars PROVE [Ends]_vars
  <2>1. CASE \E s \in Sessions : SessionEnds(s)
    BY <1>1, <2>1, SessionEndsHeld DEF ReauthInv
  <2>2. ASSUME NEW e \in Channels, Around(e), NEW c \in Channels, NEW d \in Channels,
               chan[c].server, ~chan'[c].server, c # d, chan'[d] # chan[d],
               SameChannel(chan[c], chan'[c]), d # e => SameChannel(chan[d], chan'[d])
        PROVE  /\ chan'[d].caller = chan[c].caller /\ chan'[d].owner = chan[c].owner
               /\ ~(chan[c].conv /\ chan[d].conv)
               /\ chan[c].owner = "worker" => chan'[d].of = chan[c].of /\ opened' = d
    <3>1. CASE d = e
      BY <2>2, <3>1 DEF Around
    <3>2. CASE c = e
      <4>1. /\ ~chan[d].conv
            /\ chan'[c].owner = chan[d].owner /\ chan'[c].caller = chan[d].caller
            /\ chan[d].owner # "worker"
        BY <2>2, <3>2 DEF Around
      <4> QED BY <2>2, <3>2, <4>1 DEF SameChannel
    <3>3. CASE c # e /\ d # e
      BY <2>2, <3>3 DEF Around
    <3> QED BY <3>1, <3>2, <3>3
  <2>3. CASE ~\E s \in Sessions : SessionEnds(s)
    <3>1. UNCHANGED chan \/ \E e \in Channels : Around(e)
      BY <1>1, <2>3, StepAround DEF ReauthInv
    <3>2. \A c \in Channels : chan[c].server => SameChannel(chan[c], chan'[c])
      <4>1. \A c \in Channels : chan[c].server => chan[c].owner # "none"
        BY <1>1 DEF ReauthInv, ChannelInv, GoodChannel
      <4> QED BY <1>1, <4>1, Identity DEF ReauthInv
    <3>3. CASE UNCHANGED chan
      BY <3>3
    <3>4. ASSUME NEW e \in Channels, Around(e) PROVE Ends
      <4> SUFFICES ASSUME NEW c \in Channels, NEW d \in Channels,
                          chan[c].server, ~chan'[c].server, c # d, chan'[d] # chan[d]
                   PROVE  /\ chan'[d].caller = chan[c].caller /\ chan'[d].owner = chan[c].owner
                          /\ ~(chan[c].conv /\ chan[d].conv)
                          /\ chan[c].owner = "worker" =>
                                 chan'[d].of = chan[c].of /\ opened' = d
        OBVIOUS
      <4>1. SameChannel(chan[c], chan'[c])
        BY <3>2
      <4>2. d # e => chan[d].server
        BY <3>4 DEF Around
      <4>3. d # e => SameChannel(chan[d], chan'[d])
        BY <3>2, <4>2
      <4> QED BY <2>2, <3>4, <4>1, <4>3
    <3> QED BY <3>1, <3>3, <3>4
  <2> QED BY <2>1, <2>3
<1> QED BY <1>1, ReauthInvariant, HeldInvariant, PTL DEF Spec, ChannelsEndWithCaller
====
