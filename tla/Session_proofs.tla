--------------------------- MODULE Session_proofs ---------------------------
(***************************************************************************)
(* Proofs about a session object, for any services, any number of workers  *)
(* and any number of waiting replies and queued idles.  Handlers free      *)
(* conversations that others still have replies for; what protects them is *)
(* the agreement of three things the code keeps apart: the hash table, the *)
(* life of the structures and their cancellables.  The steps of the        *)
(* session are first reduced to six kinds of change of the conversations,  *)
(* and the invariant is then shown for these.                              *)
(***************************************************************************)
EXTENDS Session, SequenceTheorems, TLAPS

\* The worker of r runs a program or was asked to, and r is not being stopped.
Asked(r) == \E i \in DOMAIN r.calls : r.calls[i] = "start_program"
Armed(r) == ~r.stopping /\ (r.stage = 6 \/ Asked(r))

\* A structure is used before it is freed, and cancelled when it is; one that was never
\* allocated has no worker and no replies.
ConvInv ==
    \A c \in Convs :
        /\ conv[c].mem # "corrupt"
        /\ conv[c].mem = "unused" <=> c > spawned
        /\ conv[c].mem = "freed" <=> conv[c].cancelled
        /\ conv[c].mem = "unused" => conv[c].replies = <<>> /\ conv[c].worker = "none"

\* The hash table has every live conversation under the name of its service.
TableInv ==
    /\ \A s \in Services :
          conversations[s] \in Convs =>
              conv[conversations[s]].mem = "live" /\ conv[conversations[s]].service = s
    /\ \A c \in Convs : conv[c].mem = "live" => conversations[conv[c].service] = c

\* session_conversation is alive, or was replaced.
SessionInv ==
    ~SpawnMayFail /\ sessionConversation \in Convs =>
        conv[sessionConversation].mem = "live" \/ Restarted(sessionConversation)

\* At most one conversation that is not being stopped was asked to run a program: a
\* program needs this request, so that OneProgram follows.
ProgramInv ==
    \A c, d \in Convs :
        /\ conv[c].mem = "live" /\ conv[d].mem = "live"
        /\ Armed(conv[c]) /\ Armed(conv[d])
        => c = d

\* NULL enters the table only when a worker cannot be spawned.
NullInv == ~SpawnMayFail => ~crashed /\ \A s \in Services : conversations[s] # NullConv

\* What was read through session_conversation after it was freed had been replaced.
MisreadInv == ~SpawnMayFail => \A c \in misread : Restarted(c)

SessionIndInv == ConvInv /\ TableInv /\ SessionInv /\ MisreadInv /\ ProgramInv /\ NullInv

-----------------------------------------------------------------------------
(* What a step may do to a conversation.                                   *)

\* It is the same conversation, and being stopped is for good.
SameConv(r, r2) ==
    /\ r2.mem = r.mem /\ r2.service = r.service /\ r2.cancelled = r.cancelled
    /\ r.stopping => r2.stopping
    /\ r.mem = "unused" => r2 = r

\* It also has not come nearer to a program.
Kept(r, r2) == SameConv(r, r2) /\ (Armed(r2) => Armed(r))

\* It was freed.
Released(r, r2) ==
    r.mem = "live" /\ r2.mem = "freed" /\ r2.cancelled /\ r2.service = r.service

Structures == [Convs -> ConversationTypes]

AllKept(cv, cv2) == cv2 \in Structures /\ \A d \in Convs : Kept(cv[d], cv2[d])

-----------------------------------------------------------------------------
(* Lemmas about the operators of the model.                                *)

\* The names of the calls.
LEMMA Names ==
    /\ Len(CallNames) = 6 /\ DOMAIN CallNames = 1..6
    /\ Range(CallNames) = {"initialize", "authenticate", "authorize", "establish_credentials",
                           "open", "start_program"}
    /\ \A i \in 1..6 : CallNames[i] \in Range(CallNames)
    /\ \A i \in 1..6 : CallNames[i] = "start_program" => i = 6
<1>1. Len(CallNames) = 6 /\ DOMAIN CallNames = 1..6
  BY DEF CallNames
<1>2. /\ CallNames[1] = "initialize" /\ CallNames[2] = "authenticate" /\ CallNames[3] = "authorize"
      /\ CallNames[4] = "establish_credentials" /\ CallNames[5] = "open"
      /\ CallNames[6] = "start_program"
  BY DEF CallNames
<1>3. 1..6 = {1, 2, 3, 4, 5, 6}
  OBVIOUS
<1>4. Range(CallNames) = {CallNames[i] : i \in {1, 2, 3, 4, 5, 6}}
  BY <1>1, <1>3 DEF Range
<1> HIDE DEF CallNames
<1> QED BY <1>1, <1>2, <1>3, <1>4

\* CallStage is the place of a call among them.
LEMMA StageOfCall ==
    ASSUME NEW call \in Range(CallNames)
    PROVE  CallStage(call) \in 1..6 /\ CallNames[CallStage(call)] = call
<1>1. \E i \in DOMAIN CallNames : CallNames[i] = call
  BY DEF Range
<1>2. CallStage(call) \in DOMAIN CallNames /\ CallNames[CallStage(call)] = call
  BY <1>1 DEF CallStage
<1> QED BY <1>2, Names

\* RemoveAt leaves elements of the sequence.
LEMMA RemoveAtIn ==
    ASSUME NEW S, NEW q \in Seq(S), NEW i \in 1..Len(q)
    PROVE  /\ RemoveAt(q, i) \in Seq(S) /\ Len(RemoveAt(q, i)) = Len(q) - 1
           /\ \A j \in DOMAIN RemoveAt(q, i) : \E k \in DOMAIN q : RemoveAt(q, i)[j] = q[k]
<1> DEFINE a == SubSeq(q, 1, i - 1)
           b == SubSeq(q, i + 1, Len(q))
<1>0. Len(q) \in Nat /\ DOMAIN q = 1..Len(q) /\ \A j \in 1..Len(q) : q[j] \in S
  BY LenProperties, ElementOfSeq
<1>1. /\ a \in Seq(S) /\ Len(a) = i - 1 /\ \A j \in 1..(i - 1) : a[j] = q[j]
  <2>1. i - 1 \in Int /\ 1 \in Int /\ \A j \in 1..(i - 1) : q[j] \in S
    BY <1>0
  <2>2. /\ a \in Seq(S) /\ Len(a) = IF 1 <= i - 1 THEN (i - 1) - 1 + 1 ELSE 0
        /\ \A j \in 1..((i - 1) - 1 + 1) : a[j] = q[1 + j - 1]
    BY <2>1, SubSeqProperties, SMT
  <2> QED BY <2>2, <1>0
<1>2. /\ b \in Seq(S) /\ Len(b) = Len(q) - i /\ \A j \in 1..(Len(q) - i) : b[j] = q[i + j]
  <2>1. i + 1 \in Int /\ Len(q) \in Int /\ \A j \in (i + 1)..Len(q) : q[j] \in S
    BY <1>0
  <2>2. /\ b \in Seq(S) /\ Len(b) = IF i + 1 <= Len(q) THEN Len(q) - (i + 1) + 1 ELSE 0
        /\ \A j \in 1..(Len(q) - (i + 1) + 1) : b[j] = q[(i + 1) + j - 1]
    BY <2>1, SubSeqProperties, SMT
  <2>3. \A j \in 1..(Len(q) - i) : j \in 1..(Len(q) - (i + 1) + 1) /\ (i + 1) + j - 1 = i + j
    BY <1>0
  <2>4. \A j \in 1..(Len(q) - i) : b[j] = q[i + j]
    BY <2>2, <2>3
  <2> HIDE DEF b
  <2>5. Len(b) = Len(q) - i
    <3>1. CASE i + 1 <= Len(q)
      BY <3>1, <2>2, <1>0
    <3>2. CASE ~(i + 1 <= Len(q))
      <4>1. i \in Int /\ i <= Len(q) /\ Len(q) \in Int
        BY <1>0
      <4>2. i = Len(q)
        BY <4>1, <3>2
      <4> QED BY <4>1, <4>2, <3>2, <2>2
    <3> QED BY <3>1, <3>2
  <2> QED BY <2>2, <2>4, <2>5
<1> HIDE DEF a, b
<1>3. /\ a \o b \in Seq(S) /\ Len(a \o b) = Len(a) + Len(b)
      /\ \A j \in 1..(Len(a) + Len(b)) : (a \o b)[j] = IF j <= Len(a) THEN a[j] ELSE b[j - Len(a)]
  BY <1>1, <1>2, ConcatProperties
<1>4. DOMAIN (a \o b) = 1..(Len(a) + Len(b))
  BY <1>3, LenProperties
<1>5. \A j \in DOMAIN (a \o b) : \E k \in DOMAIN q : (a \o b)[j] = q[k]
  <2> SUFFICES ASSUME NEW j \in 1..(Len(a) + Len(b)) PROVE \E k \in DOMAIN q : (a \o b)[j] = q[k]
    BY <1>4
  <2>1. CASE j <= Len(a)
    <3>1. j \in 1..(i - 1) /\ j \in DOMAIN q
      BY <2>1, <1>0, <1>1, <1>2
    <3> QED BY <2>1, <3>1, <1>1, <1>3
  <2>2. CASE ~(j <= Len(a))
    <3>1. j - Len(a) \in 1..(Len(q) - i) /\ i + (j - Len(a)) \in 1..Len(q)
      BY <2>2, <1>0, <1>1, <1>2
    <3>2. (a \o b)[j] = q[i + (j - Len(a))]
      BY <3>1, <2>2, <1>2, <1>3
    <3> QED BY <3>1, <3>2, <1>0
  <2> QED BY <2>1, <2>2
<1>6. RemoveAt(q, i) = a \o b
  BY DEF RemoveAt, a, b
<1>7. Len(a) + Len(b) = Len(q) - 1
  BY <1>0, <1>1, <1>2
<1> QED BY <1>3, <1>5, <1>6, <1>7

\* Appending adds the new element only.
LEMMA AppendIn ==
    ASSUME NEW S, NEW q \in Seq(S), NEW x \in S
    PROVE  /\ Append(q, x) \in Seq(S)
           /\ \A j \in DOMAIN Append(q, x) :
                 Append(q, x)[j] = x \/ \E k \in DOMAIN q : Append(q, x)[j] = q[k]
<1>1. /\ Append(q, x) \in Seq(S) /\ Len(Append(q, x)) = Len(q) + 1
      /\ Append(q, x)[Len(q) + 1] = x
      /\ \A j \in 1..Len(q) : Append(q, x)[j] = q[j]
  BY AppendProperties
<1>2. Len(q) \in Nat /\ DOMAIN q = 1..Len(q) /\ DOMAIN Append(q, x) = 1..(Len(q) + 1)
  BY <1>1, LenProperties
<1> QED BY <1>1, <1>2

\* Doing nothing keeps a conversation.
LEMMA KeptSame == ASSUME NEW r PROVE Kept(r, r)
BY DEF Kept, SameConv

\* The same of all conversations.
LEMMA AllKeptSame == ASSUME NEW cv \in Structures PROVE AllKept(cv, cv)
BY KeptSame DEF AllKept

\* Keeping twice is keeping.
LEMMA AllKeptTwice ==
    ASSUME NEW cv, NEW cv1, NEW cv2, AllKept(cv, cv1), AllKept(cv1, cv2)
    PROVE  AllKept(cv, cv2)
<1> SUFFICES ASSUME NEW d \in Convs PROVE Kept(cv[d], cv2[d])
  BY DEF AllKept
<1>1. Kept(cv[d], cv1[d]) /\ Kept(cv1[d], cv2[d])
  BY DEF AllKept
<1> HIDE DEF Armed
<1> QED BY <1>1 DEF Kept, SameConv

\* The calls and the replies of a conversation are sequences.
LEMMA Queues ==
    ASSUME NEW r \in ConversationTypes
    PROVE  /\ r.calls \in Seq(Range(CallNames))
           /\ r.replies \in Seq([call : Range(CallNames) \cup {"session_exited"}, ok : BOOLEAN])
           /\ r.stage \in 0..6
BY Names DEF ConversationTypes

\* A change of one structure that keeps it keeps all.
LEMMA OneKept ==
    ASSUME NEW cv \in Structures, NEW c \in Convs, NEW r \in ConversationTypes, Kept(cv[c], r)
    PROVE  AllKept(cv, [cv EXCEPT ![c] = r])
<1>1. [cv EXCEPT ![c] = r] \in Structures
  BY DEF Structures
<1>2. ASSUME NEW d \in Convs PROVE Kept(cv[d], [cv EXCEPT ![c] = r][d])
  BY KeptSame DEF Structures
<1> QED BY <1>1, <1>2 DEF AllKept

\* close_conversation takes nothing but the calls.
LEMMA ClosedKept ==
    ASSUME NEW r \in ConversationTypes
    PROVE  /\ Closed(r) \in ConversationTypes
           /\ Closed(r).mem = r.mem /\ Closed(r).service = r.service
           /\ Closed(r).cancelled = r.cancelled /\ Closed(r).stopping = r.stopping
           /\ Closed(r).stage = r.stage /\ Closed(r).worker = r.worker
           /\ Asked(Closed(r)) => Asked(r)
<1>1. CASE r.proxy # "open"
  BY <1>1 DEF Closed
<1>2. CASE r.proxy = "open"
  <2>1. Closed(r) = [r EXCEPT !.proxy = "closed", !.calls = <<>>]
    BY <1>2 DEF Closed
  <2>2. <<>> \in Seq(Range(CallNames))
    BY EmptySeq
  <2>3. /\ Closed(r) \in ConversationTypes /\ Closed(r).calls = <<>>
        /\ Closed(r).mem = r.mem /\ Closed(r).service = r.service
        /\ Closed(r).cancelled = r.cancelled /\ Closed(r).stopping = r.stopping
        /\ Closed(r).stage = r.stage /\ Closed(r).worker = r.worker
    BY <2>1, <2>2 DEF ConversationTypes
  <2>4. ~Asked(Closed(r))
    BY <2>3 DEF Asked
  <2> QED BY <2>3, <2>4
<1> QED BY <1>1, <1>2

\* stop_conversation keeps the conversations, and stops those it is for.
LEMMA StoppedKept ==
    ASSUME NEW cv \in Structures, NEW C \in SUBSET Convs,
           \A c \in C : cv[c].mem # "unused"
    PROVE  AllKept(cv, Stopped(cv, C)) /\ \A c \in C : Stopped(cv, C)[c].stopping
<1>1. ASSUME NEW c \in C
      PROVE  /\ [Closed(cv[c]) EXCEPT !.stopping = TRUE] \in ConversationTypes
             /\ Kept(cv[c], [Closed(cv[c]) EXCEPT !.stopping = TRUE])
             /\ [Closed(cv[c]) EXCEPT !.stopping = TRUE].stopping
  <2>1. cv[c] \in ConversationTypes
    BY DEF Structures
  <2>2. PICK r \in ConversationTypes : r = Closed(cv[c])
    BY <2>1, ClosedKept
  <2>3. /\ [r EXCEPT !.stopping = TRUE] \in ConversationTypes
        /\ [r EXCEPT !.stopping = TRUE].mem = r.mem
        /\ [r EXCEPT !.stopping = TRUE].service = r.service
        /\ [r EXCEPT !.stopping = TRUE].cancelled = r.cancelled
        /\ [r EXCEPT !.stopping = TRUE].stopping
    BY DEF ConversationTypes
  <2> QED BY <2>1, <2>2, <2>3, ClosedKept DEF Kept, SameConv, Armed
<1>2. \A d \in Convs : Stopped(cv, C)[d] =
                          IF d \in C THEN [Closed(cv[d]) EXCEPT !.stopping = TRUE] ELSE cv[d]
  BY DEF Stopped
<1>3. \A d \in Convs : cv[d] \in ConversationTypes
  BY DEF Structures
<1>4. \A d \in Convs : Stopped(cv, C)[d] \in ConversationTypes
  BY <1>1, <1>2, <1>3
<1>5. Stopped(cv, C) \in Structures
  <2>1. Stopped(cv, C) = [d \in Convs |-> Stopped(cv, C)[d]]
    BY DEF Stopped
  <2> QED BY <2>1, <1>4 DEF Structures
<1>6. \A d \in Convs : Kept(cv[d], Stopped(cv, C)[d])
  BY <1>1, <1>2, KeptSame
<1> QED BY <1>1, <1>2, <1>5, <1>6 DEF AllKept

\* free_conversation frees live conversations and leaves the others alone.
LEMMA FreedReleases ==
    ASSUME NEW cv \in Structures, NEW C \in SUBSET Convs
    PROVE  /\ Freed(cv, C) \in Structures
           /\ \A d \in Convs \ C : Freed(cv, C)[d] = cv[d]
           /\ \A d \in C : cv[d].mem = "live" => Released(cv[d], Freed(cv, C)[d])
<1> DEFINE F(r) == [Closed(r) EXCEPT
                       !.mem = IF @ = "live" THEN "freed" ELSE "corrupt",
                       !.cancelled = TRUE, !.stopping = FALSE,
                       !.worker = CASE @ = "running" -> "disowned"
                                    [] @ = "ended" -> "reaped"
                                    [] OTHER -> @]
<1>1. ASSUME NEW r \in ConversationTypes
      PROVE  F(r) \in ConversationTypes /\ (r.mem = "live" => Released(r, F(r)))
  <2>1. PICK q \in ConversationTypes : q = Closed(r)
    BY ClosedKept
  <2>2. q.mem = r.mem /\ q.service = r.service
    BY <2>1, ClosedKept
  <2>3. PICK w \in {"none", "running", "ended", "disowned", "reaped"} :
           w = CASE q.worker = "running" -> "disowned"
                 [] q.worker = "ended" -> "reaped"
                 [] OTHER -> q.worker
    BY DEF ConversationTypes
  <2>4. PICK m \in {"freed", "corrupt"} : m = IF q.mem = "live" THEN "freed" ELSE "corrupt"
    OBVIOUS
  <2>5. F(r) = [q EXCEPT !.mem = m, !.cancelled = TRUE, !.stopping = FALSE, !.worker = w]
    BY <2>1, <2>3, <2>4
  <2> HIDE DEF F
  <2>6. /\ F(r) \in ConversationTypes /\ F(r).mem = m /\ F(r).cancelled
        /\ F(r).service = q.service
    BY <2>5 DEF ConversationTypes
  <2> QED BY <2>2, <2>4, <2>6 DEF Released
<1>2. \A d \in Convs : Freed(cv, C)[d] = IF d \notin C THEN cv[d] ELSE F(cv[d])
  BY DEF Freed
<1> HIDE DEF F
<1>3. \A d \in Convs : cv[d] \in ConversationTypes
  BY DEF Structures
<1>4. \A d \in Convs : Freed(cv, C)[d] \in ConversationTypes
  BY <1>1, <1>2, <1>3
<1>5. Freed(cv, C) \in Structures
  <2>1. Freed(cv, C) = [d \in Convs |-> Freed(cv, C)[d]]
    BY DEF Freed
  <2> QED BY <2>1, <1>4 DEF Structures
<1> QED BY <1>1, <1>2, <1>3, <1>5

\* A call to a worker keeps its conversation, and all of it but for StartProgram.
LEMMA CalledKept ==
    ASSUME NEW cv \in Structures, NEW c \in Convs, NEW call \in Range(CallNames),
           cv[c].mem # "unused"
    PROVE  /\ Called(cv, c, call) \in Structures
           /\ \A d \in Convs \ {c} : Called(cv, c, call)[d] = cv[d]
           /\ SameConv(cv[c], Called(cv, c, call)[c])
           /\ call # "start_program" => AllKept(cv, Called(cv, c, call))
<1>0. cv[c] \in ConversationTypes
  BY DEF Structures
<1>1. CASE cv[c].proxy # "open"
  BY <1>1, <1>0, AllKeptSame DEF Called, SameConv
<1>2. CASE cv[c].proxy = "open"
  <2>1. PICK q \in Seq(Range(CallNames)) : q = Append(cv[c].calls, call)
    BY <1>0, Queues, AppendIn
  <2> DEFINE r == [cv[c] EXCEPT !.calls = q]
  <2>2. /\ r \in ConversationTypes
        /\ r.calls = q /\ r.mem = cv[c].mem /\ r.service = cv[c].service
        /\ r.cancelled = cv[c].cancelled /\ r.stopping = cv[c].stopping
        /\ r.stage = cv[c].stage
    BY <1>0 DEF ConversationTypes
  <2> HIDE DEF r
  <2>3. Called(cv, c, call) = [cv EXCEPT ![c] = r]
    BY <1>2, <2>1, <2>2 DEF Called, r
  <2>4. SameConv(cv[c], r)
    BY <2>2 DEF SameConv
  <2>5. call # "start_program" /\ Asked(r) => Asked(cv[c])
    <3>1. \A j \in DOMAIN q : q[j] = call \/ \E k \in DOMAIN cv[c].calls : q[j] = cv[c].calls[k]
      BY <1>0, <2>1, Queues, AppendIn
    <3> QED BY <2>2, <3>1 DEF Asked
  <2>6. call # "start_program" => Kept(cv[c], r)
    BY <2>2, <2>4, <2>5 DEF Kept, Armed
  <2> QED BY <2>2, <2>3, <2>4, <2>6, OneKept DEF Structures
<1> QED BY <1>1, <1>2

\* Taking a reply keeps.
LEMMA TakenKept ==
    ASSUME conv \in Structures, NEW c \in Convs, conv[c].replies # <<>>,
           conv[c].mem # "unused"
    PROVE  AllKept(conv, Taken(c))
<1>0. conv[c] \in ConversationTypes
  BY DEF Structures
<1>1. PICK q \in Seq([call : Range(CallNames) \cup {"session_exited"}, ok : BOOLEAN]) :
         q = Tail(conv[c].replies)
  BY <1>0, Queues, HeadTailProperties
<1> DEFINE r == [conv[c] EXCEPT !.replies = q]
<1>2. /\ r \in ConversationTypes
      /\ r.calls = conv[c].calls /\ r.mem = conv[c].mem /\ r.service = conv[c].service
      /\ r.cancelled = conv[c].cancelled /\ r.stopping = conv[c].stopping
      /\ r.stage = conv[c].stage
  BY <1>0 DEF ConversationTypes
<1> HIDE DEF r
<1>3. Taken(c) = [conv EXCEPT ![c] = r]
  BY <1>1, <1>2 DEF Taken, r
<1>4. Kept(conv[c], r)
  BY <1>2 DEF Kept, SameConv, Armed, Asked
<1> QED BY <1>2, <1>3, <1>4, OneKept

\* Forgetting the caller of BeginVerification keeps.
LEMMA StartingKept ==
    ASSUME NEW cv \in Structures, NEW c \in Convs, cv[c].mem # "unused", NEW b \in BOOLEAN
    PROVE  AllKept(cv, [cv EXCEPT ![c].starting = b])
<1>0. cv[c] \in ConversationTypes
  BY DEF Structures
<1> DEFINE r == [cv[c] EXCEPT !.starting = b]
<1>2. /\ r \in ConversationTypes
      /\ r.calls = cv[c].calls /\ r.mem = cv[c].mem /\ r.service = cv[c].service
      /\ r.cancelled = cv[c].cancelled /\ r.stopping = cv[c].stopping
      /\ r.stage = cv[c].stage
  BY <1>0 DEF ConversationTypes
<1> HIDE DEF r
<1>3. [cv EXCEPT ![c].starting = b] = [cv EXCEPT ![c] = r]
  BY <1>2 DEF r
<1>4. Kept(cv[c], r)
  BY <1>2 DEF Kept, SameConv, Armed, Asked
<1> QED BY <1>2, <1>3, <1>4, OneKept

\* Hello brings a connection and calls, none of which is StartProgram.
LEMMA HelloKept ==
    ASSUME conv \in Structures, NEW c \in Convs, Hello(c)
    PROVE  AllKept(conv, conv')
<1>0. conv[c] \in ConversationTypes
  BY DEF Structures
<1>1. PICK automatic \in BOOLEAN :
         conv' = [conv EXCEPT ![c].proxy = "open", ![c].calls = SetUpCalls(c, automatic)]
  BY DEF Hello
<1>2. /\ SetUpCalls(c, automatic) \in Seq({"initialize"})
  <2>1. <<>> \in Seq({"initialize"}) /\ <<"initialize">> \in Seq({"initialize"})
    OBVIOUS
  <2>2. \A a, b \in Seq({"initialize"}) : a \o b \in Seq({"initialize"})
    BY ConcatProperties
  <2> QED BY <2>1, <2>2 DEF SetUpCalls
<1>3. PICK q \in Seq(Range(CallNames)) :
         q = SetUpCalls(c, automatic) /\ \A i \in DOMAIN q : q[i] = "initialize"
  <2>1. {"initialize"} \subseteq Range(CallNames)
    BY Names
  <2>2. \A q \in Seq({"initialize"}) : \A i \in DOMAIN q : q[i] = "initialize"
    BY LenProperties, ElementOfSeq
  <2> QED BY <1>2, <2>1, <2>2, SeqMonotonic
<1> DEFINE r == [conv[c] EXCEPT !.proxy = "open", !.calls = q]
<1>4. /\ r \in ConversationTypes
      /\ r.calls = q /\ r.mem = conv[c].mem /\ r.service = conv[c].service
      /\ r.cancelled = conv[c].cancelled /\ r.stopping = conv[c].stopping
      /\ r.stage = conv[c].stage
  BY <1>0 DEF ConversationTypes
<1> HIDE DEF r
<1>5. conv' = [conv EXCEPT ![c] = r]
  BY <1>1, <1>3, <1>4 DEF r
<1>6. conv[c].mem = "live"
  BY DEF Hello
<1>7. ~Asked(r)
  BY <1>3, <1>4 DEF Asked
<1>8. Kept(conv[c], r)
  BY <1>4, <1>6, <1>7 DEF Kept, SameConv, Armed
<1> QED BY <1>4, <1>5, <1>8, OneKept

\* A worker that answers gets to its last stage only by StartProgram.
LEMMA AnsweredKept ==
    ASSUME conv \in Structures, NEW c \in Convs, conv[c].mem # "unused",
           NEW i \in DOMAIN conv[c].calls, NEW ok \in BOOLEAN, NEW stage \in 0..6,
           stage = 6 => conv[c].stage = 6 \/ conv[c].calls[i] = "start_program"
    PROVE  /\ AllKept(conv, Answered(c, i, ok, stage))
           /\ Answered(c, i, ok, stage)[c].calls = RemoveAt(conv[c].calls, i)
           /\ Answered(c, i, ok, stage)[c].mem # "unused"
<1>0. conv[c] \in ConversationTypes
  BY DEF Structures
<1>3. i \in 1..Len(conv[c].calls) /\ conv[c].calls[i] \in Range(CallNames)
  BY <1>0, Queues, LenProperties, ElementOfSeq
<1>5. PICK q \in Seq(Range(CallNames)) :
         /\ q = RemoveAt(conv[c].calls, i)
         /\ \A j \in DOMAIN q : \E k \in DOMAIN conv[c].calls : q[j] = conv[c].calls[k]
  <2>1. conv[c].calls \in Seq(Range(CallNames))
    BY <1>0, Queues
  <2> QED BY <2>1, <1>3, RemoveAtIn
<1>6. PICK p \in Seq([call : Range(CallNames) \cup {"session_exited"}, ok : BOOLEAN]) :
         p = Append(conv[c].replies, [call |-> conv[c].calls[i], ok |-> ok])
  <2>1. [call |-> conv[c].calls[i], ok |-> ok]
           \in [call : Range(CallNames) \cup {"session_exited"}, ok : BOOLEAN]
    BY <1>3
  <2> QED BY <2>1, <1>0, Queues, AppendIn
<1> DEFINE r == [conv[c] EXCEPT !.stage = stage, !.calls = q, !.replies = p]
<1>7. /\ r \in ConversationTypes
      /\ r.calls = q /\ r.mem = conv[c].mem /\ r.service = conv[c].service
      /\ r.cancelled = conv[c].cancelled /\ r.stopping = conv[c].stopping
      /\ r.stage = stage
  BY <1>0, Names DEF ConversationTypes
<1> HIDE DEF r
<1>8. Answered(c, i, ok, stage) = [conv EXCEPT ![c] = r]
  BY <1>5, <1>6, <1>7 DEF r, Answered
<1>9. Asked(r) => Asked(conv[c])
  BY <1>5, <1>7 DEF Asked
<1>10. conv[c].calls[i] = "start_program" => Asked(conv[c])
  BY DEF Asked
<1>11. Kept(conv[c], r)
  BY <1>7, <1>9, <1>10 DEF Kept, SameConv, Armed
<1>12. AllKept(conv, [conv EXCEPT ![c] = r])
  BY <1>7, <1>11, OneKept
<1>13. [conv EXCEPT ![c] = r][c] = r
  BY DEF Structures
<1> QED BY <1>5, <1>7, <1>8, <1>12, <1>13

\* So it is for a worker that carries out a StartProgram it refused.
LEMMA CarriesOutKept ==
    ASSUME conv \in Structures, NEW c \in Convs, conv[c].mem # "unused",
           NEW i \in DOMAIN conv[c].calls, conv[c].calls[i] = "start_program",
           CarriesOutRefused(c, i)
    PROVE  AllKept(conv, conv')
<1>0. /\ conv[c] \in ConversationTypes /\ conv[c].calls \in Seq(Range(CallNames))
      /\ i \in 1..Len(conv[c].calls) /\ conv[c].stage \in 0..6 /\ Len(CallNames) = 6
  <2>1. conv[c] \in ConversationTypes
    BY DEF Structures
  <2> QED BY <2>1, Queues, LenProperties, Names
<1>1. PICK stage : /\ stage \in {0} \cup (conv[c].stage..(conv[c].stage + IF i = 1 THEN 1 ELSE 2))
                   /\ stage <= Len(CallNames)
                   /\ conv' = LET refused == Answered(c, i, FALSE, stage)
                              IN  IF i = 1 THEN refused ELSE [refused EXCEPT ![c].calls = Tail(@)]
  BY DEF CarriesOutRefused
<1>2. stage \in 0..6
  BY <1>0, <1>1
<1> DEFINE cv == Answered(c, i, FALSE, stage)
<1>3. /\ AllKept(conv, cv) /\ cv[c].calls = RemoveAt(conv[c].calls, i)
      /\ cv[c].mem # "unused"
  BY <1>2, AnsweredKept
<1>4. conv' = IF i = 1 THEN cv ELSE [cv EXCEPT ![c].calls = Tail(@)]
  BY <1>1
<1> HIDE DEF cv
<1>5. CASE i = 1
  BY <1>3, <1>4, <1>5
<1>6. CASE i # 1
  <2>1. cv \in Structures /\ cv[c] \in ConversationTypes
    BY <1>3 DEF AllKept, Structures
  <2>2. /\ RemoveAt(conv[c].calls, i) \in Seq(Range(CallNames))
        /\ Len(RemoveAt(conv[c].calls, i)) = Len(conv[c].calls) - 1
    BY <1>0, RemoveAtIn
  <2>3. PICK p \in Seq(Range(CallNames)) : p = RemoveAt(conv[c].calls, i)
    BY <2>2
  <2>4. p # <<>>
    BY <1>0, <1>6, <2>2, <2>3, EmptySeq
  <2>5. PICK q \in Seq(Range(CallNames)) :
           q = Tail(p) /\ \A j \in DOMAIN q : \E k \in DOMAIN p : q[j] = p[k]
    <3>1. /\ Tail(p) \in Seq(Range(CallNames)) /\ Len(Tail(p)) = Len(p) - 1
          /\ \A j \in 1..Len(Tail(p)) : Tail(p)[j] = p[j + 1]
      BY <2>4, HeadTailProperties
    <3>2. DOMAIN Tail(p) = 1..Len(Tail(p)) /\ DOMAIN p = 1..Len(p) /\ Len(p) \in Nat
      BY <3>1, LenProperties
    <3>3. \A j \in DOMAIN Tail(p) : j + 1 \in DOMAIN p
      BY <3>1, <3>2
    <3> QED BY <3>1, <3>2, <3>3
  <2> DEFINE r == [cv[c] EXCEPT !.calls = q]
  <2>6. /\ r \in ConversationTypes
        /\ r.calls = q /\ r.mem = cv[c].mem /\ r.service = cv[c].service
        /\ r.cancelled = cv[c].cancelled /\ r.stopping = cv[c].stopping
        /\ r.stage = cv[c].stage
    BY <2>1 DEF ConversationTypes
  <2> HIDE DEF r
  <2>7. conv' = [cv EXCEPT ![c] = r]
    BY <1>3, <1>4, <1>6, <2>1, <2>3, <2>5, <2>6 DEF r, Structures
  <2>8. Asked(r) => Asked(cv[c])
    BY <1>3, <2>3, <2>5, <2>6 DEF Asked
  <2>9. Kept(cv[c], r)
    BY <1>3, <2>6, <2>8 DEF Kept, SameConv, Armed
  <2>10. AllKept(cv, conv')
    BY <2>1, <2>6, <2>7, <2>9, OneKept
  <2> QED BY <1>3, <2>10, AllKeptTwice
<1> QED BY <1>5, <1>6

\* All answers of a worker keep the conversations.
LEMMA AnswersKept ==
    ASSUME conv \in Structures, NEW c \in Convs, conv[c].mem # "unused", WorkerReplies(c)
    PROVE  AllKept(conv, conv')
<1>0. PICK i \in DOMAIN conv[c].calls : Answers(c, i)
  BY DEF WorkerReplies
<1>1. /\ conv[c].calls[i] \in Range(CallNames) /\ conv[c].stage \in 0..6
  <2>1. conv[c] \in ConversationTypes
    BY DEF Structures
  <2> QED BY <2>1, Queues, LenProperties, ElementOfSeq
<1>2. /\ CallStage(conv[c].calls[i]) \in 1..6
      /\ CallStage(conv[c].calls[i]) = 6 => conv[c].calls[i] = "start_program"
  <2>1. CallStage(conv[c].calls[i]) \in 1..6
        /\ CallNames[CallStage(conv[c].calls[i])] = conv[c].calls[i]
    BY <1>1, StageOfCall
  <2>2. CallNames[6] = "start_program"
    BY DEF CallNames
  <2> HIDE DEF CallNames
  <2> QED BY <2>1, <2>2
<1>3. \/ /\ CallStage(conv[c].calls[i]) = conv[c].stage + 1
         /\ \/ conv' = Answered(c, i, TRUE, conv[c].stage + 1)
            \/ conv' = Answered(c, i, FALSE, 0)
      \/ conv' = Answered(c, i, FALSE, conv[c].stage)
      \/ conv[c].calls[i] = "start_program" /\ CarriesOutRefused(c, i)
  BY <1>0 DEF Answers
<1>4. CASE CallStage(conv[c].calls[i]) = conv[c].stage + 1
  <2>1. /\ conv[c].stage + 1 \in 0..6 /\ 0 \in 0..6 /\ 0 # 6 /\ FALSE \in BOOLEAN
        /\ conv[c].stage + 1 = 6 => conv[c].calls[i] = "start_program"
    BY <1>1, <1>2, <1>4
  <2>2. AllKept(conv, Answered(c, i, TRUE, conv[c].stage + 1))
    BY <2>1, AnsweredKept
  <2>3. AllKept(conv, Answered(c, i, FALSE, 0))
    BY <2>1, AnsweredKept
  <2>4. AllKept(conv, Answered(c, i, FALSE, conv[c].stage))
    BY <1>1, AnsweredKept
  <2> QED BY <1>3, <2>2, <2>3, <2>4, CarriesOutKept
<1>5. CASE CallStage(conv[c].calls[i]) # conv[c].stage + 1
  <2>1. AllKept(conv, Answered(c, i, FALSE, conv[c].stage))
    BY <1>1, AnsweredKept
  <2> QED BY <1>3, <1>5, <2>1, CarriesOutKept
<1> QED BY <1>4, <1>5

\* The end of the program or of the worker.
LEMMA EndsKept ==
    ASSUME conv \in Structures, NEW c \in Convs, conv[c].mem # "unused",
           ProgramEnds(c) \/ WorkerEnds(c)
    PROVE  AllKept(conv, conv')
<1>0. conv[c] \in ConversationTypes
  BY DEF Structures
<1>00. 0 \in 0..Len(CallNames)
  BY Names
<1>1. CASE ProgramEnds(c)
  <2>1. PICK p \in Seq([call : Range(CallNames) \cup {"session_exited"}, ok : BOOLEAN]) :
           p = Append(conv[c].replies, [call |-> "session_exited", ok |-> TRUE])
    BY <1>0, Queues, AppendIn
  <2> DEFINE r == [conv[c] EXCEPT !.stage = 0, !.replies = p]
  <2>2. /\ r \in ConversationTypes
        /\ r.calls = conv[c].calls /\ r.mem = conv[c].mem /\ r.service = conv[c].service
        /\ r.cancelled = conv[c].cancelled /\ r.stopping = conv[c].stopping
        /\ r.stage = 0
    BY <1>0, <1>00, <2>1 DEF ConversationTypes
  <2> HIDE DEF r
  <2>3. conv' = [conv EXCEPT ![c] = r]
    BY <1>1, <2>1, <2>2 DEF ProgramEnds, r
  <2>4. Kept(conv[c], r)
    BY <2>2 DEF Kept, SameConv, Armed, Asked
  <2> QED BY <2>2, <2>3, <2>4, OneKept
<1>2. CASE WorkerEnds(c)
  <2>1. PICK w \in {"ended", "reaped"} : w = IF conv[c].worker = "running" THEN "ended" ELSE "reaped"
    OBVIOUS
  <2>2. <<>> \in Seq(Range(CallNames))
    BY EmptySeq
  <2> DEFINE r == [conv[c] EXCEPT !.worker = w, !.stage = 0, !.calls = <<>>]
  <2>3. /\ r \in ConversationTypes
        /\ r.calls = <<>> /\ r.mem = conv[c].mem /\ r.service = conv[c].service
        /\ r.cancelled = conv[c].cancelled /\ r.stopping = conv[c].stopping
        /\ r.stage = 0
    BY <1>0, <1>00, <2>1, <2>2 DEF ConversationTypes
  <2> HIDE DEF r
  <2>4. conv' = [conv EXCEPT ![c] = r]
    BY <1>2, <2>1, <2>3 DEF WorkerEnds, r
  <2>5. ~Asked(r)
    BY <2>3 DEF Asked
  <2>6. Kept(conv[c], r)
    BY <2>3, <2>5 DEF Kept, SameConv, Armed
  <2> QED BY <2>3, <2>4, <2>6, OneKept
<1> QED BY <1>1, <1>2

-----------------------------------------------------------------------------
(* The six kinds of steps.                                                 *)

\* The conversations go on; session_conversation is set to a live one or cleared.
Steady ==
    /\ AllKept(conv, conv')
    /\ conversations' = conversations /\ spawned' = spawned
    /\ \/ sessionConversation' = sessionConversation
       \/ sessionConversation' = NoConv
       \/ sessionConversation' \in Convs /\ conv[sessionConversation'].mem = "live"
    /\ crashed' => crashed \/ NullConv \in InTable

\* The table is emptied and its conversations are freed.
EmptiesTable ==
    /\ conv' \in Structures
    /\ \A d \in Convs : IF d \in InTable THEN Released(conv[d], conv'[d])
                                         ELSE Kept(conv[d], conv'[d])
    /\ conversations' = [s \in Services |-> NoConv]
    /\ sessionConversation' = NoConv
    /\ spawned' = spawned
    /\ crashed' => crashed \/ NullConv \in InTable

\* One conversation is taken from the table and freed.
TakesOut(c) ==
    /\ conv' \in Structures
    /\ Released(conv[c], conv'[c])
    /\ \A d \in Convs \ {c} : conv'[d] = conv[d]
    /\ conversations' = [conversations EXCEPT ![conv[c].service] = NoConv]
    /\ sessionConversation' = IF sessionConversation = c THEN NoConv ELSE sessionConversation
    /\ spawned' = spawned
    /\ crashed' = crashed

\* A conversation is started, and one that was being stopped is freed for it.
PutsIn(s) ==
    /\ spawned + 1 \in Convs /\ spawned' = spawned + 1
    /\ conv' \in Structures
    /\ conv'[spawned + 1].mem = "live" /\ conv'[spawned + 1].service = s
    /\ ~conv'[spawned + 1].cancelled /\ ~Armed(conv'[spawned + 1])
    /\ \A d \in Convs \ {spawned + 1} :
          IF d = conversations[s] THEN conv[d].stopping /\ Released(conv[d], conv'[d])
                                  ELSE conv'[d] = conv[d]
    /\ conversations' = [conversations EXCEPT ![s] = spawned + 1]
    /\ sessionConversation' = sessionConversation
    /\ crashed' => conversations[s] = NullConv

\* The same without a worker.
PutsNull(s) ==
    /\ SpawnMayFail
    /\ conv' \in Structures
    /\ \A d \in Convs : IF d = conversations[s] THEN conv[d].stopping /\ Released(conv[d], conv'[d])
                                                ELSE conv'[d] = conv[d]
    /\ conversations' = [conversations EXCEPT ![s] = NullConv]
    /\ sessionConversation' = sessionConversation
    /\ spawned' = spawned

\* The program of one conversation is asked for, and the others are stopped.
Chooses(c) ==
    /\ conv' \in Structures
    /\ SameConv(conv[c], conv'[c])
    /\ \A d \in Convs \ {c} : Kept(conv[d], conv'[d]) /\ (d \in InTable => conv'[d].stopping)
    /\ conversations' = conversations
    /\ sessionConversation' = sessionConversation
    /\ spawned' = spawned
    /\ crashed' => crashed \/ NullConv \in InTable

\* A conversation with a reply or a worker has been allocated, and one whose reply is
\* not cancelled is alive.
LEMMA Allocated ==
    ASSUME conv \in Structures, ConvInv, NEW c \in Convs
    PROVE  /\ conv[c].replies # <<>> => conv[c].mem # "unused"
           /\ conv[c].worker # "none" => conv[c].mem # "unused"
           /\ conv[c].replies # <<>> /\ ~conv[c].cancelled => conv[c].mem = "live"
<1>1. conv[c].mem \in {"unused", "live", "freed", "corrupt"}
  BY DEF Structures, ConversationTypes
<1> QED BY <1>1 DEF ConvInv

\* do_reset empties the table.
LEMMA ResetStep ==
    ASSUME conv \in Structures, conversations \in [Services -> Convs \cup {NoConv, NullConv}],
           TableInv, NEW cv, AllKept(conv, cv), Reset(cv), spawned' = spawned
    PROVE  EmptiesTable
<1>1. /\ conv' = Freed(cv, InTable \cap Convs)
      /\ conversations' = [s \in Services |-> NoConv]
      /\ sessionConversation' = NoConv /\ crashed' = (crashed \/ NullConv \in InTable)
  BY DEF Reset
<1>2. \A d \in InTable \cap Convs : conv[d].mem = "live"
  BY DEF InTable, TableInv
<1>3. cv \in Structures /\ \A d \in Convs : Kept(conv[d], cv[d])
  BY DEF AllKept
<1>4. /\ conv' \in Structures
      /\ \A d \in Convs \ (InTable \cap Convs) : conv'[d] = cv[d]
      /\ \A d \in InTable \cap Convs : cv[d].mem = "live" => Released(cv[d], conv'[d])
  <2> DEFINE C == InTable \cap Convs
  <2>1. C \in SUBSET Convs
    OBVIOUS
  <2> HIDE DEF C
  <2>2. /\ Freed(cv, C) \in Structures
        /\ \A d \in Convs \ C : Freed(cv, C)[d] = cv[d]
        /\ \A d \in C : cv[d].mem = "live" => Released(cv[d], Freed(cv, C)[d])
    BY <1>3, <2>1, FreedReleases
  <2> QED BY <1>1, <2>2 DEF C
<1>5. ASSUME NEW d \in Convs, d \in InTable PROVE Released(conv[d], conv'[d])
  <2>1. conv[d].mem = "live" /\ Kept(conv[d], cv[d])
    BY <1>2, <1>3, <1>5
  <2>2. cv[d].mem = "live" /\ cv[d].service = conv[d].service
    BY <2>1 DEF Kept, SameConv
  <2> QED BY <1>4, <1>5, <2>1, <2>2 DEF Released
<1>6. \A d \in Convs : d \notin InTable => Kept(conv[d], conv'[d])
  BY <1>3, <1>4
<1> QED BY <1>1, <1>4, <1>5, <1>6 DEF EmptiesTable

\* gdm_session_start_conversation.
LEMMA StartStep ==
    ASSUME TypeOK, ConvInv, TableInv, NEW s \in Services, NEW b \in BOOLEAN,
           StartConversation(s, b)
    PROVE  PutsIn(s) \/ PutsNull(s)
<1> DEFINE old == conversations[s]
<1>0. /\ conv \in Structures /\ old \in Convs \cup {NoConv, NullConv} /\ spawned \in 0..MaxWorkers
      /\ MaxWorkers \in Nat
  BY SessionAssumptions DEF TypeOK, Structures
<1>1. old \in Convs => conv[old].stopping /\ conv[old].mem = "live"
  BY DEF StartConversation, TableInv
<1>2. sessionConversation' = sessionConversation /\ crashed' = (old = NullConv)
  BY DEF StartConversation
<1> DEFINE F == Freed(conv, {old} \cap Convs)
<1>3. /\ F \in Structures
      /\ \A d \in Convs : IF d = old THEN conv[d].stopping /\ Released(conv[d], F[d]) ELSE F[d] = conv[d]
  <2> DEFINE C == {old} \cap Convs
  <2>1. C \in SUBSET Convs
    OBVIOUS
  <2>2. \A d \in Convs : d \in C <=> d = old
    OBVIOUS
  <2> HIDE DEF C, old
  <2>3. /\ Freed(conv, C) \in Structures
        /\ \A d \in Convs \ C : Freed(conv, C)[d] = conv[d]
        /\ \A d \in C : conv[d].mem = "live" => Released(conv[d], Freed(conv, C)[d])
    BY <1>0, <2>1, FreedReleases
  <2>4. \A d \in Convs : IF d = old THEN conv[d].stopping /\ Released(conv[d], Freed(conv, C)[d])
                                    ELSE Freed(conv, C)[d] = conv[d]
    BY <1>1, <2>2, <2>3
  <2> QED BY <2>3, <2>4 DEF C
<1>4. CASE /\ spawned < MaxWorkers /\ spawned' = spawned + 1
           /\ conversations' = [conversations EXCEPT ![s] = spawned']
           /\ conv' = [F EXCEPT ![spawned'] = [Conversation(s) EXCEPT !.starting = b]]
  <2>1. spawned + 1 \in Convs
    BY <1>0, <1>4 DEF Convs
  <2> DEFINE r == [Conversation(s) EXCEPT !.starting = b]
  <2>2. /\ r \in ConversationTypes /\ r.mem = "live" /\ r.service = s /\ ~r.cancelled
        /\ r.stage = 0 /\ r.calls = <<>>
    <3>1. Autologin \in Services /\ 0 \in 0..Len(CallNames) /\ <<>> \in Seq(Range(CallNames))
          /\ <<>> \in Seq([call : Range(CallNames) \cup {"session_exited"}, ok : BOOLEAN])
      BY SessionAssumptions, Names, EmptySeq
    <3>2. /\ Unused \in ConversationTypes /\ Unused.stage = 0 /\ Unused.calls = <<>>
          /\ ~Unused.cancelled
      BY <3>1 DEF Unused, ConversationTypes
    <3>3. /\ Conversation(s) \in ConversationTypes /\ Conversation(s).mem = "live"
          /\ Conversation(s).service = s /\ Conversation(s).stage = 0
          /\ Conversation(s).calls = <<>> /\ ~Conversation(s).cancelled
      BY <3>2 DEF Conversation, ConversationTypes
    <3> QED BY <3>3 DEF ConversationTypes
  <2>3. ~Armed(r)
    <3> HIDE DEF r
    <3> QED BY <2>2 DEF Armed, Asked
  <2>4. conv' = [F EXCEPT ![spawned + 1] = r]
    BY <1>4
  <2> HIDE DEF r, F, old
  <2>5. conv' \in Structures /\ conv'[spawned + 1] = r
        /\ \A d \in Convs \ {spawned + 1} : conv'[d] = F[d]
    BY <1>3, <2>1, <2>2, <2>4 DEF Structures
  <2> QED BY <1>2, <1>3, <1>4, <2>1, <2>2, <2>3, <2>5 DEF PutsIn, old
<1>5. CASE /\ SpawnMayFail
           /\ conversations' = [conversations EXCEPT ![s] = NullConv]
           /\ conv' = F /\ spawned' = spawned
  <2> HIDE DEF F
  <2> QED BY <1>2, <1>3, <1>5 DEF PutsNull
<1> QED BY <1>4, <1>5 DEF StartConversation

\* gdm_session_start_session.
LEMMA StartSessionStep ==
    ASSUME TypeOK, ConvInv, TableInv, NEW s \in Services, StartSession(s),
           conversations' = conversations, spawned' = spawned,
           sessionConversation' = sessionConversation
    PROVE  Steady \/ \E c \in Convs : Chooses(c)
<1>0. conv \in Structures
  BY DEF TypeOK, Structures
<1>1. CASE sessionConversation # NoConv \/ conversations[s] \notin Convs
  BY <1>0, <1>1, AllKeptSame DEF StartSession, Steady
<1>2. CASE ~(sessionConversation # NoConv \/ conversations[s] \notin Convs)
  <2>1. PICK c \in Convs : c = conversations[s]
    BY <1>2
  <2> DEFINE C == (InTable \cap Convs) \ {c}
             cv == Stopped(conv, C)
  <2>2. conv' = Called(cv, c, "start_program") /\ crashed' = (NullConv \in InTable)
    BY <1>2, <2>1 DEF StartSession
  <2>3. C \in SUBSET Convs /\ \A d \in C : conv[d].mem = "live"
    BY DEF InTable, TableInv
  <2>4. conv[c].mem = "live"
    BY <2>1 DEF TableInv
  <2>5. \A d \in Convs \ {c} : d \in InTable => d \in C
    OBVIOUS
  <2> HIDE DEF C
  <2>6. AllKept(conv, cv) /\ \A d \in C : cv[d].stopping
    BY <1>0, <2>3, StoppedKept
  <2> HIDE DEF cv
  <2>7. cv \in Structures /\ \A d \in Convs : Kept(conv[d], cv[d])
    BY <2>6 DEF AllKept
  <2>8. cv[c].mem = "live"
    BY <2>4, <2>7 DEF Kept, SameConv
  <2>9. "start_program" \in Range(CallNames)
    BY Names
  <2>10. /\ conv' \in Structures
         /\ \A d \in Convs \ {c} : conv'[d] = cv[d]
         /\ SameConv(cv[c], conv'[c])
    BY <2>2, <2>7, <2>8, <2>9, CalledKept
  <2>11. SameConv(conv[c], conv'[c])
    <3>1. Kept(conv[c], cv[c])
      BY <2>7
    <3> QED BY <2>10, <3>1 DEF Kept, SameConv
  <2>12. \A d \in Convs \ {c} : Kept(conv[d], conv'[d]) /\ (d \in InTable => conv'[d].stopping)
    BY <2>5, <2>6, <2>7, <2>10
  <2>13. Chooses(c)
    BY <2>2, <2>10, <2>11, <2>12 DEF Chooses
  <2> QED BY <2>13
<1> QED BY <1>1, <1>2

\* What the greeter and the manager do.
LEMMA ManagerStep ==
    ASSUME TypeOK, ConvInv, TableInv, Greeter \/ Manager
    PROVE  \/ Steady \/ EmptiesTable
           \/ \E c \in Convs : Chooses(c)
           \/ \E s \in Services : PutsIn(s) \/ PutsNull(s)
<1>0. /\ conv \in Structures /\ Autologin \in Services
      /\ conversations \in [Services -> Convs \cup {NoConv, NullConv}]
  BY SessionAssumptions DEF TypeOK, Structures
<1>1. ASSUME NEW s \in Services, NEW b \in BOOLEAN, StartConversation(s, b)
      PROVE  \E t \in Services : PutsIn(t) \/ PutsNull(t)
  BY <1>1, StartStep
<1>2. ASSUME \/ \E s \in Services : BeginVerification(s)
             \/ StartAutologin
             \/ ClientConnects /\ ~(conv' = conv /\ conversations' = conversations)
      PROVE  \E t \in Services : PutsIn(t) \/ PutsNull(t)
  BY <1>0, <1>1, <1>2 DEF BeginVerification, StartAutologin, ClientConnects
<1>3. AllKept(conv, conv)
  BY <1>0, AllKeptSame
<1>4. CASE \/ \E s \in Services, ready \in BOOLEAN : StartSessionWhenReady(s, ready)
           \/ Cancel \/ ClientDisconnects
  BY <1>3, <1>4 DEF StartSessionWhenReady, Cancel, ClientDisconnects, sessionVars, Steady
<1>5. CASE BeginAutoLogin
  <2>1. PICK c \in Convs : c = conversations[Autologin]
    BY <1>5 DEF BeginAutoLogin
  <2>2. conv' = Called(conv, c, "initialize") /\ conv[c].mem = "live"
    BY <1>0, <1>5, <2>1 DEF BeginAutoLogin, TableInv
  <2>3. "initialize" \in Range(CallNames)
    BY Names
  <2>4. AllKept(conv, conv')
    BY <1>0, <2>2, <2>3, CalledKept
  <2> QED BY <1>5, <2>4 DEF BeginAutoLogin, sessionVars, Steady
<1>6. CASE ResetIdle \/ MigrateIdle
  <2>1. Reset(conv) /\ spawned' = spawned
    BY <1>6 DEF ResetIdle, MigrateIdle
  <2> QED BY <1>0, <1>3, <2>1, ResetStep
<1>7. CASE StartIdle
  <2>1. Head(idles) \in Services
    <3>1. idles \in Seq(Services \cup {"reset"}) /\ idles # <<>> /\ Head(idles) # "reset"
      BY <1>7 DEF StartIdle, IdleRuns, TypeOK
    <3>2. Head(idles) \in Services \cup {"reset"}
      BY <3>1, HeadTailProperties
    <3> QED BY <3>1, <3>2
  <2>2. /\ StartSession(Head(idles)) /\ conversations' = conversations /\ spawned' = spawned
        /\ sessionConversation' = sessionConversation
    BY <1>7 DEF StartIdle, sessionVars
  <2> QED BY <2>1, <2>2, StartSessionStep
<1>8. CASE ClientConnects /\ conv' = conv /\ conversations' = conversations
  <2>1. CASE StartConversation(Autologin, FALSE)
    BY <1>0, <1>1, <2>1
  <2>2. CASE UNCHANGED <<conversations, conv, spawned, sessionConversation, running, managerVars, crashed>>
    BY <1>3, <2>2 DEF Steady
  <2> QED BY <1>8, <2>1, <2>2 DEF ClientConnects
<1> QED BY <1>2, <1>4, <1>5, <1>6, <1>7, <1>8 DEF Greeter, Manager

\* Replies that only go on with the login, or end it.
LEMMA ReplyKept ==
    ASSUME TypeOK, ConvInv, NEW c \in Convs,
           \/ CancelledReply(c) \/ Initialized(c) \/ Proceeded(c) \/ Failed(c)
           \/ Opened(c) \/ Started(c)
    PROVE  AllKept(conv, conv')
<1>0. conv \in Structures
  BY DEF TypeOK, Structures
<1>1. conv[c].replies # <<>>
  BY DEF CancelledReply, Initialized, Proceeded, Failed, Opened, Started, Reply
<1>2. conv[c].mem # "unused" /\ (~conv[c].cancelled => conv[c].mem = "live")
  BY <1>0, <1>1, Allocated
<1>3. AllKept(conv, Taken(c))
  BY <1>0, <1>1, <1>2, TakenKept
<1>4. Taken(c) \in Structures /\ Taken(c)[c].mem # "unused"
  BY <1>2, <1>3 DEF AllKept, Kept, SameConv
<1>5. CASE CancelledReply(c)
  BY <1>3, <1>5 DEF CancelledReply
<1>6. CASE Opened(c) \/ Started(c)
  BY <1>2, <1>3, <1>6 DEF Opened, Started, Reply, Used
<1>7. CASE Proceeded(c)
  <2>1. PICK i \in 2..4 : /\ Reply(c, CallNames[i], TRUE)
                          /\ conv' = Used(c, Called(Taken(c), c, CallNames[i + 1]))
    BY <1>7 DEF Proceeded
  <2>2. conv' = Called(Taken(c), c, CallNames[i + 1])
    BY <1>2, <2>1 DEF Reply, Used
  <2>3. i + 1 \in 1..6 /\ i + 1 # 6
    OBVIOUS
  <2>4. CallNames[i + 1] \in Range(CallNames) /\ CallNames[i + 1] # "start_program"
    BY <2>3, Names
  <2>5. AllKept(Taken(c), conv')
    BY <1>4, <2>2, <2>4, CalledKept
  <2> QED BY <1>3, <2>5, AllKeptTwice
<1>8. CASE Initialized(c)
  <2> DEFINE cv == [Taken(c) EXCEPT ![c].starting = FALSE]
  <2>1. conv' = Called(cv, c, "authenticate")
    BY <1>2, <1>8 DEF Initialized, Reply, Used
  <2>2. AllKept(Taken(c), cv)
    BY <1>4, StartingKept
  <2> HIDE DEF cv
  <2>3. cv \in Structures /\ cv[c].mem # "unused"
    BY <1>4, <2>2 DEF AllKept, Kept, SameConv
  <2>4. "authenticate" \in Range(CallNames)
    BY Names
  <2>5. AllKept(cv, conv')
    BY <2>1, <2>3, <2>4, CalledKept
  <2> QED BY <1>3, <2>2, <2>5, AllKeptTwice
<1>9. CASE Failed(c)
  <2>1. PICK i \in 1..5 :
           /\ Reply(c, CallNames[i], FALSE)
           /\ conv' = Used(c, Stopped([Taken(c) EXCEPT
                                 ![c].starting = IF i = 1 THEN FALSE ELSE @], {c}))
    BY <1>9 DEF Failed
  <2>2. PICK b \in BOOLEAN : b = IF i = 1 THEN FALSE ELSE Taken(c)[c].starting
    BY <1>4 DEF Structures, ConversationTypes
  <2> DEFINE cv == [Taken(c) EXCEPT ![c].starting = b]
  <2>3. conv' = Stopped(cv, {c})
    BY <1>2, <2>1, <2>2 DEF Reply, Used
  <2>4. AllKept(Taken(c), cv)
    BY <1>4, StartingKept
  <2> HIDE DEF cv
  <2>5. cv \in Structures /\ cv[c].mem # "unused"
    BY <1>4, <2>4 DEF AllKept, Kept, SameConv
  <2>6. AllKept(cv, conv')
    BY <2>3, <2>5, StoppedKept
  <2> QED BY <1>3, <2>4, <2>6, AllKeptTwice
<1> QED BY <1>5, <1>6, <1>7, <1>8, <1>9

\* The end of a session, or of an attempt to start one.
LEMMA EndStep ==
    ASSUME TypeOK, ConvInv, TableInv, NEW c \in Convs, StartFailed(c) \/ SessionExited(c)
    PROVE  Steady \/ EmptiesTable
<1>0. /\ conv \in Structures
      /\ conversations \in [Services -> Convs \cup {NoConv, NullConv}]
  BY DEF TypeOK, Structures
<1>1. conv[c].replies # <<>> /\ ~conv[c].cancelled
  BY DEF StartFailed, SessionExited, Reply
<1>2. conv[c].mem = "live"
  BY <1>0, <1>1, Allocated
<1>3. AllKept(conv, Taken(c))
  BY <1>0, <1>1, <1>2, TakenKept
<1>4. Taken(c) \in Structures /\ Taken(c)[c].mem # "unused"
  BY <1>2, <1>3 DEF AllKept, Kept, SameConv
<1>5. AllKept(conv, Stopped(Taken(c), {c}))
  <2>1. AllKept(Taken(c), Stopped(Taken(c), {c}))
    BY <1>4, StoppedKept
  <2> QED BY <1>3, <2>1, AllKeptTwice
<1>6. CASE StartFailed(c)
  <2>1. RemoveUserSession(Stopped(Taken(c), {c})) /\ spawned' = spawned
    BY <1>2, <1>6 DEF StartFailed, Used
  <2> DEFINE cv == Stopped(Taken(c), {c})
  <2>2. AllKept(conv, cv)
    BY <1>5
  <2> HIDE DEF cv
  <2>3. CASE userSessions > 0
    BY <1>0, <2>1, <2>2, <2>3, ResetStep DEF RemoveUserSession, cv
  <2>4. CASE ~(userSessions > 0)
    BY <2>1, <2>2, <2>4 DEF RemoveUserSession, Steady, cv
  <2> QED BY <2>3, <2>4
<1>7. CASE SessionExited(c)
  <2>1. Used(c, Taken(c)) = Taken(c)
    BY <1>2 DEF Used
  <2>2. CASE userSessions > 0
    <3>1. Reset(Taken(c)) /\ spawned' = spawned
      BY <1>7, <2>1, <2>2 DEF SessionExited
    <3> QED BY <1>0, <1>3, <3>1, ResetStep
  <2>3. CASE ~(userSessions > 0)
    BY <1>3, <1>7, <2>1, <2>3 DEF SessionExited, Steady
  <2> QED BY <2>2, <2>3
<1> QED BY <1>6, <1>7

\* worker_exited and worker_died.
LEMMA GoneStep ==
    ASSUME TypeOK, ConvInv, TableInv, NEW c \in Convs, WorkerGone(c)
    PROVE  EmptiesTable \/ TakesOut(c)
<1>0. /\ conv \in Structures
      /\ conversations \in [Services -> Convs \cup {NoConv, NullConv}]
      /\ conv[c].service \in Services
      /\ NoConv \notin Convs /\ NullConv \notin Convs /\ NoConv # NullConv
  <2>1. conv[c].service \in Services
    BY DEF TypeOK, ConversationTypes
  <2>2. NoConv \notin Convs /\ NullConv \notin Convs /\ NoConv # NullConv
    BY SessionAssumptions DEF Convs, NoConv, NullConv
  <2> QED BY <2>1, <2>2 DEF TypeOK, Structures
<1>1. conv[c].mem = "live" /\ ~crashed /\ spawned' = spawned
  BY DEF WorkerGone, ChildWatched
<1>2. conversations[conv[c].service] = c
  BY <1>1 DEF TableInv
<1> DEFINE gone == Freed(conv, {c})
           others == [conversations EXCEPT ![conv[c].service] = NoConv]
           C == {others[t] : t \in Services} \cap Convs
<1>3. gone \in Structures /\ Released(conv[c], gone[c]) /\ \A d \in Convs \ {c} : gone[d] = conv[d]
  BY <1>0, <1>1, FreedReleases
<1>4. \A d \in Convs : d \in C <=> d \in InTable /\ d # c
  <2>1. ASSUME NEW d \in Convs, d \in C PROVE d \in InTable /\ d # c
    <3>1. PICK t \in Services : d = others[t]
      BY <2>1
    <3>2. t # conv[c].service /\ d = conversations[t]
      BY <1>0, <3>1
    <3>3. conv[d].service = t
      BY <3>2 DEF TableInv
    <3> QED BY <3>2, <3>3 DEF InTable
  <2>2. ASSUME NEW d \in Convs, d \in InTable, d # c PROVE d \in C
    <3>1. PICK t \in Services : d = conversations[t]
      BY <2>2 DEF InTable
    <3>2. others[t] = d
      BY <1>0, <1>2, <2>2, <3>1
    <3> QED BY <3>2
  <2> QED BY <2>1, <2>2
<1>5. CASE ~(sessionConversation = c /\ userSessions > 0)
  <2>1. /\ conversations' = others /\ conv' = gone /\ crashed' = crashed
        /\ sessionConversation' = IF sessionConversation = c THEN NoConv ELSE sessionConversation
    BY <1>5 DEF WorkerGone
  <2> HIDE DEF gone
  <2> QED BY <1>1, <1>3, <2>1 DEF TakesOut
<1>6. CASE sessionConversation = c /\ userSessions > 0
  <2>1. /\ conv' = Freed(gone, C) /\ sessionConversation' = NoConv
        /\ conversations' = [t \in Services |-> NoConv]
        /\ crashed' = (NullConv \in {others[t] : t \in Services})
    BY <1>6 DEF WorkerGone
  <2>2. crashed' => NullConv \in InTable
    <3>1. \A t \in Services : others[t] = NullConv => conversations[t] = NullConv
      BY <1>0
    <3> QED BY <2>1, <3>1 DEF InTable
  <2>3. C \in SUBSET Convs
    OBVIOUS
  <2>4. c \in InTable
    BY <1>0, <1>2 DEF InTable
  <2> HIDE DEF gone, others, C
  <2>5. /\ conv' \in Structures
        /\ \A d \in Convs \ C : conv'[d] = gone[d]
        /\ \A d \in C : gone[d].mem = "live" => Released(gone[d], conv'[d])
    BY <1>3, <2>1, <2>3, FreedReleases
  <2>6. Released(conv[c], conv'[c])
    BY <1>3, <1>4, <2>5
  <2>7. ASSUME NEW d \in Convs, d # c, d \in InTable PROVE Released(conv[d], conv'[d])
    <3>1. conv[d].mem = "live"
      BY <2>7 DEF InTable, TableInv
    <3>2. d \in C /\ gone[d] = conv[d]
      BY <1>3, <1>4, <2>7
    <3> QED BY <2>5, <3>1, <3>2
  <2>8. ASSUME NEW d \in Convs, d \notin InTable PROVE Kept(conv[d], conv'[d])
    <3>1. d \notin C /\ d # c
      BY <1>4, <2>4, <2>8
    <3>2. conv'[d] = conv[d]
      BY <1>3, <2>5, <3>1
    <3> QED BY <3>2, KeptSame
  <2> QED BY <1>1, <2>1, <2>2, <2>5, <2>6, <2>7, <2>8 DEF EmptiesTable
<1> QED BY <1>5, <1>6

\* Every step is of one of the six kinds.
LEMMA StepKinds ==
    ASSUME TypeOK, ConvInv, TableInv, [Next]_vars
    PROVE  \/ Steady \/ EmptiesTable
           \/ \E c \in Convs : TakesOut(c)
           \/ \E s \in Services : PutsIn(s)
           \/ \E s \in Services : PutsNull(s)
           \/ \E c \in Convs : Chooses(c)
<1>0. conv \in Structures
  BY DEF TypeOK, Structures
<1>1. CASE UNCHANGED vars
  BY <1>0, <1>1, AllKeptSame DEF vars, sessionVars, Steady
<1>2. CASE Greeter \/ Manager
  BY <1>2, ManagerStep
<1>3. ASSUME NEW c \in Convs, Worker(c) PROVE Steady
  <2>1. AllKept(conv, conv')
    <3>1. CASE Hello(c)
      BY <1>0, <3>1, HelloKept
    <3>2. CASE WorkerReplies(c)
      <4>1. conv[c].worker = "running"
        BY <3>2 DEF WorkerReplies, Answers, Talks
      <4> QED BY <1>0, <3>2, <4>1, Allocated, AnswersKept
    <3>3. CASE ProgramEnds(c) \/ WorkerEnds(c)
      <4>1. conv[c].worker \in {"running", "disowned"}
        BY <3>3 DEF ProgramEnds, WorkerEnds, Talks
      <4> QED BY <1>0, <3>3, <4>1, Allocated, EndsKept
    <3> QED BY <1>3, <3>1, <3>2, <3>3 DEF Worker
  <2>2. /\ conversations' = conversations /\ spawned' = spawned
        /\ sessionConversation' = sessionConversation
        /\ crashed' => crashed \/ NullConv \in InTable
    <3>1. CASE Hello(c)
      BY <3>1 DEF Hello, sessionVars
    <3>2. CASE WorkerReplies(c)
      BY <3>2 DEF WorkerReplies, Answers, sessionVars
    <3>3. CASE ProgramEnds(c) \/ WorkerEnds(c)
      BY <3>3 DEF ProgramEnds, WorkerEnds, sessionVars
    <3> QED BY <1>3, <3>1, <3>2, <3>3 DEF Worker
  <2> QED BY <2>1, <2>2 DEF Steady
<1>4. ASSUME NEW c \in Convs, Dispatch(c) PROVE Steady \/ EmptiesTable \/ TakesOut(c)
  <2>1. CASE \/ CancelledReply(c) \/ Initialized(c) \/ Proceeded(c) \/ Failed(c)
             \/ Opened(c) \/ Started(c)
    <3>1. AllKept(conv, conv')
      BY <2>1, ReplyKept
    <3>2. Started(c) => conv[c].mem = "live"
      BY <1>0, Allocated DEF Started, Reply
    <3>3. conversations' = conversations /\ spawned' = spawned /\ crashed' = crashed
      BY <2>1 DEF CancelledReply, Initialized, Proceeded, Failed, Opened, Started, Quiet
    <3>4. \/ sessionConversation' = sessionConversation
          \/ Started(c) /\ sessionConversation' = c
      BY <2>1 DEF CancelledReply, Initialized, Proceeded, Failed, Opened, Started, Quiet, sessionVars
    <3> QED BY <3>1, <3>2, <3>3, <3>4 DEF Steady
  <2>2. CASE StartFailed(c) \/ SessionExited(c)
    BY <2>2, EndStep
  <2>3. CASE WorkerGone(c)
    BY <2>3, GoneStep
  <2> QED BY <1>4, <2>1, <2>2, <2>3 DEF Dispatch
<1> QED BY <1>1, <1>2, <1>3, <1>4 DEF Next

\* No step marks a conversation as misread but by gdm_session_get_session_id.
LEMMA MisreadStep == ASSUME [Next]_vars PROVE misread' = misread \/ ReadSessionId
<1> HIDE DEF ReadSessionId
<1>1. CASE Greeter
  BY <1>1 DEF Greeter, BeginVerification, StartConversation, ClientConnects, ClientDisconnects,
              BeginAutoLogin, Cancel, StartSessionWhenReady
<1>2. CASE Manager
  BY <1>2 DEF Manager, StartAutologin, StartConversation, ResetIdle, MigrateIdle, StartIdle,
              LooksForSession
<1>3. ASSUME NEW c \in Convs, Worker(c) PROVE misread' = misread \/ ReadSessionId
  BY <1>3 DEF Worker, Hello, WorkerReplies, Answers, ProgramEnds, WorkerEnds
<1>4. ASSUME NEW c \in Convs, Dispatch(c) PROVE misread' = misread
  BY <1>4 DEF Dispatch, CancelledReply, Initialized, Proceeded, Failed, Opened, Started,
              StartFailed, SessionExited, WorkerGone, Quiet
<1> QED BY <1>1, <1>2, <1>3, <1>4 DEF Next, vars

-----------------------------------------------------------------------------
(* The invariant.                                                          *)

\* No conversation is taken for an empty or a NULL entry.
LEMMA Distinct == NoConv \notin Convs /\ NullConv \notin Convs /\ NoConv # NullConv
BY SessionAssumptions DEF Convs, NoConv, NullConv

\* The part of TypeOK that is about the conversations.
TableOK ==
    /\ conversations \in [Services -> Convs \cup {NoConv, NullConv}]
    /\ conv \in Structures
    /\ spawned \in 0..MaxWorkers
    /\ sessionConversation \in Convs \cup {NoConv}
    /\ misread \in SUBSET Convs

\* The part about the manager and the greeter.
ManagerOK ==
    /\ running \in BOOLEAN
    /\ client \in BOOLEAN /\ startWhenReady \in BOOLEAN /\ waitingToStart \in BOOLEAN
    /\ idles \in Seq(Services \cup {"reset"})
    /\ userSessions \in Nat
    /\ crashed \in BOOLEAN

\* Together they are TypeOK.
LEMMA TypeParts == TypeOK <=> TableOK /\ ManagerOK
BY DEF TypeOK, TableOK, ManagerOK, Structures

\* The manager's state keeps its types.
LEMMA NextManagerOK ==
    ASSUME TypeOK, [Next]_vars PROVE ManagerOK'
<1>0. ManagerOK /\ conv \in Structures /\ Autologin \in Services
  BY TypeParts, SessionAssumptions DEF TableOK
<1>1. \A s \in Services \cup {"reset"} : Append(idles, s) \in Seq(Services \cup {"reset"})
  BY <1>0, AppendProperties DEF ManagerOK
<1>2. idles # <<>> => Tail(idles) \in Seq(Services \cup {"reset"})
  BY <1>0, HeadTailProperties DEF ManagerOK
<1>3. \A c \in Convs : conv[c].service \in Services
  BY <1>0 DEF Structures, ConversationTypes
<1>4. ASSUME NEW s \in Services, NEW b \in BOOLEAN, StartConversation(s, b), client' \in BOOLEAN
      PROVE  ManagerOK'
  BY <1>0, <1>4 DEF StartConversation, managerVars, ManagerOK
<1>5. CASE \/ \E s \in Services : BeginVerification(s)
           \/ StartAutologin \/ ClientConnects \/ ClientDisconnects
  <2>1. CASE \E s \in Services : BeginVerification(s)
    BY <1>4, <2>1 DEF BeginVerification
  <2>2. CASE StartAutologin
    BY <1>0, <1>4, <2>2 DEF StartAutologin
  <2>3. CASE ClientConnects
    BY <1>0, <1>4, <2>3 DEF ClientConnects, managerVars, ManagerOK
  <2>4. CASE ClientDisconnects
    BY <1>0, <2>4 DEF ClientDisconnects, managerVars, ManagerOK
  <2> QED BY <1>5, <2>1, <2>2, <2>3, <2>4
<1>6. CASE \E s \in Services, ready \in BOOLEAN : StartSessionWhenReady(s, ready)
  BY <1>0, <1>1, <1>6 DEF StartSessionWhenReady, StartIfReady, sessionVars, ManagerOK
<1>7. CASE BeginAutoLogin \/ Cancel
  BY <1>0, <1>1, <1>7 DEF BeginAutoLogin, Cancel, sessionVars, managerVars, ManagerOK
<1>80. ASSUME NEW cv, Reset(cv) PROVE running' \in BOOLEAN /\ crashed' \in BOOLEAN
  BY <1>80 DEF Reset
<1>8. CASE ResetIdle \/ MigrateIdle \/ StartIdle
  <2>1. idles' \in Seq(Services \cup {"reset"})
    BY <1>2, <1>8 DEF ResetIdle, MigrateIdle, StartIdle, IdleRuns
  <2>2. UNCHANGED <<client, startWhenReady, waitingToStart, userSessions>>
    BY <1>8 DEF ResetIdle, MigrateIdle, StartIdle, sessionVars
  <2>3. CASE ResetIdle \/ MigrateIdle
    <3>1. running' \in BOOLEAN /\ crashed' \in BOOLEAN
      BY <1>80, <2>3 DEF ResetIdle, MigrateIdle
    <3> QED BY <1>0, <2>1, <2>2, <3>1 DEF ManagerOK
  <2>4. CASE StartIdle
    <3>1. running' = running
      BY <2>4 DEF StartIdle, sessionVars
    <3>2. crashed' \in BOOLEAN
      <4>1. crashed' = crashed \/ crashed' = (NullConv \in InTable)
        BY <2>4, Zenon DEF StartIdle, StartSession
      <4>2. (NullConv \in InTable) \in BOOLEAN
        OBVIOUS
      <4> HIDE DEF InTable
      <4> QED BY <1>0, <4>1, <4>2, Zenon DEF ManagerOK
    <3> QED BY <1>0, <2>1, <2>2, <3>1, <3>2 DEF ManagerOK
  <2> QED BY <1>8, <2>3, <2>4
<1>9. ASSUME NEW c \in Convs, Worker(c) PROVE ManagerOK'
  <2>1. CASE Hello(c)
    BY <1>0, <2>1 DEF Hello, sessionVars, managerVars, ManagerOK
  <2>2. CASE WorkerReplies(c)
    BY <1>0, <2>2 DEF WorkerReplies, Answers, sessionVars, managerVars, ManagerOK
  <2>3. CASE ProgramEnds(c) \/ WorkerEnds(c)
    BY <1>0, <2>3 DEF ProgramEnds, WorkerEnds, sessionVars, managerVars, ManagerOK
  <2> QED BY <1>9, <2>1, <2>2, <2>3 DEF Worker
<1>10. ASSUME NEW c \in Convs, Dispatch(c) PROVE ManagerOK'
  <2>1. CASE CancelledReply(c) \/ Initialized(c) \/ Proceeded(c) \/ Failed(c)
    BY <1>0, <2>1
    DEF CancelledReply, Initialized, Proceeded, Failed, Quiet, sessionVars, managerVars, ManagerOK
  <2>2. CASE Opened(c)
    <3>1. startWhenReady' \in BOOLEAN
      BY <2>2 DEF Opened
    <3>2. userSessions' \in Nat
      BY <1>0, <2>2 DEF Opened, ManagerOK
    <3>3. waitingToStart' \in BOOLEAN
      BY <2>2 DEF Opened, StartIfReady
    <3>4. idles' \in Seq(Services \cup {"reset"})
      BY <1>0, <1>1, <1>3, <2>2 DEF Opened, StartIfReady, ManagerOK
    <3>5. UNCHANGED <<running, client, crashed>>
      BY <2>2 DEF Opened
    <3> QED BY <1>0, <3>1, <3>2, <3>3, <3>4, <3>5 DEF ManagerOK
  <2>3. CASE Started(c)
    BY <1>0, <2>3 DEF Started, managerVars, ManagerOK
  <2>4. ASSUME UNCHANGED <<startWhenReady, waitingToStart, idles>>, NEW cv,
               \/ userSessions > 0 /\ userSessions' = userSessions - 1 /\ Reset(cv) /\ client' = FALSE
               \/ UNCHANGED <<userSessions, running, client, crashed>>
        PROVE  ManagerOK'
    <3>1. running' \in BOOLEAN /\ crashed' \in BOOLEAN /\ client' \in BOOLEAN
      BY <1>0, <1>80, <2>4 DEF ManagerOK
    <3>2. userSessions' \in Nat
      BY <1>0, <2>4 DEF ManagerOK
    <3> QED BY <1>0, <2>4, <3>1, <3>2 DEF ManagerOK
  <2>5. CASE StartFailed(c)
    BY <2>4, <2>5 DEF StartFailed, RemoveUserSession
  <2>6. CASE SessionExited(c)
    BY <2>4, <2>6 DEF SessionExited
  <2>7. CASE WorkerGone(c)
    <3>1. running' \in BOOLEAN /\ crashed' \in BOOLEAN /\ client' \in BOOLEAN
      <4>1. CASE sessionConversation = c /\ userSessions > 0
        <5> DEFINE others == [conversations EXCEPT ![conv[c].service] = NoConv]
                   B == NullConv \in {others[t] : t \in Services}
        <5>1. running' = FALSE /\ client' = FALSE /\ crashed' = B
          BY <2>7, <4>1 DEF WorkerGone
        <5>2. B \in BOOLEAN
          OBVIOUS
        <5> HIDE DEF B
        <5> QED BY <5>1, <5>2, Zenon
      <4>2. CASE ~(sessionConversation = c /\ userSessions > 0)
        BY <1>0, <2>7, <4>2, Zenon DEF WorkerGone, ManagerOK
      <4> QED BY <4>1, <4>2
    <3>2. userSessions' \in Nat
      BY <1>0, <2>7 DEF WorkerGone, ManagerOK
    <3>3. UNCHANGED <<startWhenReady, waitingToStart, idles>>
      BY <2>7 DEF WorkerGone
    <3> QED BY <1>0, <3>1, <3>2, <3>3 DEF ManagerOK
  <2> QED BY <1>10, <2>1, <2>2, <2>3, <2>5, <2>6, <2>7 DEF Dispatch
<1>11. CASE UNCHANGED vars
  BY <1>0, <1>11 DEF vars, sessionVars, managerVars, ManagerOK
<1> QED BY <1>5, <1>6, <1>7, <1>8, <1>9, <1>10, <1>11 DEF Next, Greeter, Manager

\* So do the conversations.
LEMMA NextTableOK ==
    ASSUME TypeOK, ConvInv, TableInv, [Next]_vars PROVE TableOK'
<1>0. TableOK /\ MaxWorkers \in Nat
  BY TypeParts, SessionAssumptions
<1>5. misread' \in SUBSET Convs
  BY <1>0, MisreadStep DEF ReadSessionId, TableOK
<1>1. CASE Steady \/ EmptiesTable
  BY <1>0, <1>1, <1>5 DEF Steady, EmptiesTable, AllKept, TableOK
<1>2. CASE \E c \in Convs : TakesOut(c) \/ Chooses(c)
  BY <1>0, <1>2, <1>5 DEF TakesOut, Chooses, TableOK
<1>3. ASSUME NEW s \in Services, PutsIn(s) PROVE TableOK'
  <2>1. spawned + 1 \in 0..MaxWorkers
    BY <1>0, <1>3 DEF PutsIn, Convs, TableOK
  <2>2. conversations' \in [Services -> Convs \cup {NoConv, NullConv}]
    BY <1>0, <1>3 DEF PutsIn, TableOK
  <2> QED BY <1>0, <1>3, <1>5, <2>1, <2>2 DEF PutsIn, TableOK
<1>4. CASE \E s \in Services : PutsNull(s)
  BY <1>0, <1>4, <1>5 DEF PutsNull, TableOK
<1> QED BY <1>1, <1>2, <1>3, <1>4, StepKinds

\* Structures are allocated, freed and cancelled in step.
LEMMA NextConvInv ==
    ASSUME TypeOK, ConvInv, TableInv, [Next]_vars PROVE ConvInv'
<1>0. /\ TableOK
      /\ \A d \in Convs : d \in Int
      /\ spawned \in Int
      /\ \A d \in Convs : conv[d].cancelled \in BOOLEAN
  <2>1. TableOK
    BY TypeParts
  <2>2. \A d \in Convs : conv[d].cancelled \in BOOLEAN
    BY <2>1 DEF TableOK, Structures, ConversationTypes
  <2>3. (\A d \in Convs : d \in Int) /\ spawned \in Int
    BY <2>1, SessionAssumptions DEF TableOK, Convs
  <2> QED BY <2>1, <2>2, <2>3
<1> DEFINE Good(r, n, d) ==
        /\ r.mem # "corrupt"
        /\ r.mem = "unused" <=> d > n
        /\ r.mem = "freed" <=> r.cancelled
        /\ r.mem = "unused" => r.replies = <<>> /\ r.worker = "none"
<1>1. \A d \in Convs : Good(conv[d], spawned, d)
  BY DEF ConvInv
<1>2. \A d \in Convs : Kept(conv[d], conv'[d]) => Good(conv'[d], spawned, d)
  BY <1>1 DEF Kept, SameConv
<1>3. \A d \in Convs : SameConv(conv[d], conv'[d]) => Good(conv'[d], spawned, d)
  BY <1>1 DEF SameConv
<1>4. \A d \in Convs : Released(conv[d], conv'[d]) => Good(conv'[d], spawned, d)
  BY <1>1 DEF Released
<1> HIDE DEF Good
<1>5. CASE spawned' = spawned /\ \A d \in Convs : Good(conv'[d], spawned, d)
  BY <1>5 DEF Good, ConvInv
<1>6. CASE Steady
  BY <1>2, <1>5, <1>6 DEF Steady, AllKept
<1>7. CASE EmptiesTable
  BY <1>2, <1>4, <1>5, <1>7 DEF EmptiesTable
<1>8. CASE \E c \in Convs : TakesOut(c)
  BY <1>1, <1>4, <1>5, <1>8 DEF TakesOut
<1>9. CASE \E c \in Convs : Chooses(c)
  BY <1>2, <1>3, <1>5, <1>9 DEF Chooses
<1>10. CASE \E s \in Services : PutsNull(s)
  BY <1>1, <1>4, <1>5, <1>10 DEF PutsNull
<1>11. ASSUME NEW s \in Services, PutsIn(s) PROVE ConvInv'
  <2>1. \A d \in Convs \ {spawned + 1} : Good(conv'[d], spawned, d)
    BY <1>1, <1>4, <1>11 DEF PutsIn
  <2>2. \A d \in Convs \ {spawned + 1} : d > spawned <=> d > spawned + 1
    BY <1>0
  <2>3. ASSUME NEW d \in Convs \ {spawned + 1} PROVE Good(conv'[d], spawned + 1, d)
    BY <2>1, <2>2 DEF Good
  <2>4. Good(conv'[spawned + 1], spawned + 1, spawned + 1)
    BY <1>0, <1>11 DEF PutsIn, Good
  <2>5. spawned' = spawned + 1 /\ \A d \in Convs : Good(conv'[d], spawned + 1, d)
    BY <1>11, <2>3, <2>4 DEF PutsIn
  <2> QED BY <2>5 DEF Good, ConvInv
<1> QED BY <1>6, <1>7, <1>8, <1>9, <1>10, <1>11, StepKinds

\* A live conversation is in the table, under its service.
LEMMA LiveInTable ==
    ASSUME TypeOK, TableInv
    PROVE  /\ \A d \in Convs : conv[d].mem = "live" <=> d \in InTable
           /\ \A d \in Convs : conv[d].service \in Services
<1>1. \A d \in Convs : conv[d].service \in Services
  BY DEF TypeOK, ConversationTypes
<1> QED BY <1>1 DEF TableInv, InTable

\* The table and the live conversations stay in step.
LEMMA NextTableInv ==
    ASSUME TypeOK, ConvInv, TableInv, [Next]_vars PROVE TableInv'
<1>0. /\ conversations \in [Services -> Convs \cup {NoConv, NullConv}]
      /\ spawned \in Int /\ \A d \in Convs : d \in Int
      /\ NoConv \notin Convs /\ NullConv \notin Convs
  BY TypeParts, SessionAssumptions, Distinct DEF TableOK, Convs
<1>1. /\ \A d \in Convs : conv[d].mem = "live" <=> d \in InTable
      /\ \A d \in Convs : conv[d].service \in Services
  BY LiveInTable
<1>2. \A d \in Convs : Kept(conv[d], conv'[d]) \/ SameConv(conv[d], conv'[d]) =>
         conv'[d].mem = conv[d].mem /\ conv'[d].service = conv[d].service
  BY DEF Kept, SameConv
<1>3. \A d \in Convs : Released(conv[d], conv'[d]) => conv'[d].mem # "live"
  BY DEF Released
<1>4. CASE Steady \/ \E c \in Convs : Chooses(c)
  <2>1. \A d \in Convs : conv'[d].mem = conv[d].mem /\ conv'[d].service = conv[d].service
    BY <1>2, <1>4 DEF Steady, AllKept, Chooses
  <2>2. conversations' = conversations
    BY <1>4 DEF Steady, Chooses
  <2> QED BY <1>0, <2>1, <2>2 DEF TableInv
<1>5. CASE EmptiesTable
  <2>1. \A d \in Convs : conv'[d].mem # "live"
    BY <1>1, <1>2, <1>3, <1>5 DEF EmptiesTable
  <2>2. \A t \in Services : conversations'[t] \notin Convs
    BY <1>0, <1>5 DEF EmptiesTable
  <2> QED BY <2>1, <2>2 DEF TableInv
<1>6. ASSUME NEW c \in Convs, TakesOut(c) PROVE TableInv'
  <2>1. PICK s \in Services : s = conv[c].service
    BY <1>1
  <2>2. conv[c].mem = "live" /\ conversations[s] = c
    BY <1>6, <2>1 DEF TakesOut, Released, TableInv
  <2>3. /\ \A t \in Services \ {s} : conversations'[t] = conversations[t]
        /\ conversations'[s] = NoConv
    BY <1>0, <1>6, <2>1 DEF TakesOut
  <2>4. /\ \A d \in Convs \ {c} : conv'[d] = conv[d]
        /\ conv'[c].mem # "live"
    BY <1>3, <1>6 DEF TakesOut
  <2>5. ASSUME NEW t \in Services, conversations'[t] \in Convs
        PROVE  conv'[conversations'[t]].mem = "live" /\ conv'[conversations'[t]].service = t
    <3>1. t # s /\ conversations'[t] = conversations[t]
      BY <1>0, <2>3, <2>5
    <3>2. conversations[t] # c
      BY <2>1, <2>2, <3>1 DEF TableInv
    <3> QED BY <2>4, <2>5, <3>1, <3>2 DEF TableInv
  <2>6. ASSUME NEW d \in Convs, conv'[d].mem = "live" PROVE conversations'[conv'[d].service] = d
    <3>1. d # c /\ conv'[d] = conv[d]
      BY <2>4, <2>6
    <3>2. conversations[conv[d].service] = d /\ conv[d].service \in Services
      BY <1>1, <2>6, <3>1 DEF TableInv
    <3>3. conv[d].service # s
      BY <2>2, <3>1, <3>2
    <3> QED BY <2>3, <3>1, <3>2, <3>3
  <2> QED BY <2>5, <2>6 DEF TableInv
<1>7. ASSUME NEW s \in Services, NEW x \in Convs \cup {NullConv},
             conversations' = [conversations EXCEPT ![s] = x],
             x \in Convs => conv[x].mem # "live" /\ conv'[x].mem = "live" /\ conv'[x].service = s,
             \A d \in Convs \ {x} : IF d = conversations[s] THEN Released(conv[d], conv'[d])
                                                           ELSE conv'[d] = conv[d]
      PROVE  TableInv'
  <2>1. conversations'[s] = x /\ \A t \in Services \ {s} : conversations'[t] = conversations[t]
    BY <1>0, <1>7
  <2>2. ASSUME NEW t \in Services, conversations'[t] \in Convs
        PROVE  conv'[conversations'[t]].mem = "live" /\ conv'[conversations'[t]].service = t
    <3>1. CASE t = s
      BY <1>7, <2>1, <2>2, <3>1
    <3>2. CASE t # s
      <4>1. PICK d \in Convs : d = conversations[t] /\ d = conversations'[t]
        BY <2>1, <2>2, <3>2
      <4>2. conv[d].mem = "live" /\ conv[d].service = t
        BY <4>1 DEF TableInv
      <4>3. d # conversations[s] /\ d # x
        BY <1>7, <3>2, <4>2 DEF TableInv
      <4> QED BY <1>7, <4>1, <4>2, <4>3
    <3> QED BY <3>1, <3>2
  <2>3. ASSUME NEW d \in Convs, conv'[d].mem = "live" PROVE conversations'[conv'[d].service] = d
    <3>1. CASE d = x
      BY <1>7, <2>1, <3>1
    <3>2. CASE d # x
      <4>1. d # conversations[s] /\ conv'[d] = conv[d]
        BY <1>3, <1>7, <2>3, <3>2
      <4>2. conversations[conv[d].service] = d /\ conv[d].service \in Services
        BY <1>1, <2>3, <4>1 DEF TableInv
      <4> QED BY <2>1, <4>1, <4>2
    <3> QED BY <3>1, <3>2
  <2> QED BY <2>2, <2>3 DEF TableInv
<1>8. ASSUME NEW s \in Services, PutsIn(s) PROVE TableInv'
  <2>1. PICK n \in Convs : n = spawned + 1
    BY <1>8 DEF PutsIn
  <2>2. conv[n].mem # "live"
    BY <1>0, <2>1 DEF ConvInv
  <2>3. /\ conversations' = [conversations EXCEPT ![s] = n]
        /\ conv'[n].mem = "live" /\ conv'[n].service = s
        /\ \A d \in Convs \ {n} : IF d = conversations[s] THEN Released(conv[d], conv'[d])
                                                         ELSE conv'[d] = conv[d]
    BY <1>8, <2>1 DEF PutsIn
  <2> QED BY <1>7, <2>2, <2>3
<1>9. ASSUME NEW s \in Services, PutsNull(s) PROVE TableInv'
  <2>1. /\ conversations' = [conversations EXCEPT ![s] = NullConv]
        /\ \A d \in Convs \ {NullConv} : IF d = conversations[s] THEN Released(conv[d], conv'[d])
                                                                ELSE conv'[d] = conv[d]
    BY <1>9 DEF PutsNull
  <2> QED BY <1>0, <1>7, <2>1
<1> QED BY <1>4, <1>5, <1>6, <1>8, <1>9, StepKinds

\* NULL is not put into the table while workers can be spawned.
LEMMA NextNullInv ==
    ASSUME TypeOK, ConvInv, TableInv, NullInv, [Next]_vars PROVE NullInv'
<1> SUFFICES ASSUME ~SpawnMayFail PROVE ~crashed' /\ \A s \in Services : conversations'[s] # NullConv
  BY DEF NullInv
<1>0. /\ conversations \in [Services -> Convs \cup {NoConv, NullConv}]
      /\ NoConv \notin Convs /\ NullConv \notin Convs /\ NoConv # NullConv
  BY Distinct DEF TypeOK
<1>1. ~crashed /\ (\A s \in Services : conversations[s] # NullConv) /\ NullConv \notin InTable
  BY DEF NullInv, InTable
<1>2. CASE Steady \/ EmptiesTable \/ \E c \in Convs : Chooses(c)
  BY <1>0, <1>1, <1>2 DEF Steady, EmptiesTable, Chooses
<1>3. CASE \E c \in Convs : TakesOut(c)
  BY <1>0, <1>1, <1>3 DEF TakesOut
<1>4. CASE \E s \in Services : PutsIn(s)
  BY <1>0, <1>1, <1>4 DEF PutsIn
<1>5. CASE \E s \in Services : PutsNull(s)
  BY <1>5 DEF PutsNull
<1> QED BY <1>2, <1>3, <1>4, <1>5, StepKinds

\* At most one conversation is on its way to a program.
LEMMA NextProgramInv ==
    ASSUME TypeOK, ConvInv, TableInv, ProgramInv, [Next]_vars PROVE ProgramInv'
<1>1. ASSUME \A d \in Convs : conv'[d].mem = "live" /\ Armed(conv'[d]) =>
                                 conv[d].mem = "live" /\ Armed(conv[d])
      PROVE  ProgramInv'
  <2> HIDE DEF Armed
  <2> QED BY <1>1 DEF ProgramInv
<1>2. ASSUME NEW c \in Convs,
             \A d \in Convs \ {c} : conv'[d].mem = "live" => ~Armed(conv'[d])
      PROVE  ProgramInv'
  <2> HIDE DEF Armed
  <2> QED BY <1>2 DEF ProgramInv
<1> DEFINE Back(d) == conv'[d].mem = "live" /\ Armed(conv'[d]) => conv[d].mem = "live" /\ Armed(conv[d])
<1>3. \A d \in Convs : Kept(conv[d], conv'[d]) => Back(d)
  <2> HIDE DEF Armed
  <2> QED BY DEF Kept, SameConv
<1>4. \A d \in Convs : Released(conv[d], conv'[d]) => Back(d)
  BY DEF Released
<1>5. \A d \in Convs : conv'[d] = conv[d] => Back(d)
  <2> HIDE DEF Armed
  <2> QED OBVIOUS
<1>6. CASE \/ Steady \/ EmptiesTable \/ \E c \in Convs : TakesOut(c)
           \/ \E s \in Services : PutsNull(s)
  <2> HIDE DEF Back
  <2>1. \A d \in Convs : Back(d)
    BY <1>3, <1>4, <1>5, <1>6 DEF Steady, AllKept, EmptiesTable, TakesOut, PutsNull
  <2> QED BY <1>1, <2>1 DEF Back
<1>7. ASSUME NEW s \in Services, PutsIn(s) PROVE ProgramInv'
  <2>1. Back(spawned + 1)
    BY <1>7 DEF PutsIn
  <2> HIDE DEF Back
  <2>2. \A d \in Convs : Back(d)
    BY <1>4, <1>5, <1>7, <2>1 DEF PutsIn
  <2> QED BY <1>1, <2>2 DEF Back
<1>8. ASSUME NEW c \in Convs, Chooses(c) PROVE ProgramInv'
  <2>1. \A d \in Convs \ {c} : conv'[d].mem = "live" => conv[d].mem = "live"
    BY <1>8 DEF Chooses, Kept, SameConv
  <2>2. \A d \in Convs \ {c} : conv'[d].mem = "live" => conv'[d].stopping
    BY <1>8, <2>1, LiveInTable DEF Chooses
  <2>3. \A d \in Convs \ {c} : conv'[d].mem = "live" => ~Armed(conv'[d])
    BY <2>2 DEF Armed
  <2> QED BY <1>2, <2>3
<1> QED BY <1>6, <1>7, <1>8, StepKinds

\* session_conversation stays alive, is cleared, or its service was started again.
LEMMA NextSessionInv ==
    ASSUME TypeOK, ConvInv, TableInv, NullInv, SessionInv, [Next]_vars PROVE SessionInv'
<1> SUFFICES ASSUME ~SpawnMayFail, sessionConversation' \in Convs
             PROVE  conv'[sessionConversation'].mem = "live" \/ Restarted(sessionConversation)'
  BY DEF SessionInv
<1>0. /\ spawned \in Int /\ Convs = 1..MaxWorkers /\ MaxWorkers \in Nat
      /\ spawned \in 0..MaxWorkers /\ NoConv \notin Convs
      /\ \A d \in Convs : conv[d].mem # "unused" <=> d <= spawned
  <2>1. spawned \in 0..MaxWorkers /\ MaxWorkers \in Nat /\ NoConv \notin Convs
    BY SessionAssumptions, Distinct DEF TypeOK
  <2>2. \A d \in Convs : d \in Int
    BY <2>1 DEF Convs
  <2> QED BY <2>1, <2>2 DEF Convs, ConvInv
<1>1. \A d \in Convs : Kept(conv[d], conv'[d]) \/ SameConv(conv[d], conv'[d]) =>
         conv'[d].mem = conv[d].mem /\ conv'[d].service = conv[d].service
  BY DEF Kept, SameConv
<1>2. \A d \in Convs : Released(conv[d], conv'[d]) => conv'[d].service = conv[d].service
  BY DEF Released
<1>3. ASSUME NEW c \in Convs, Restarted(c), spawned' \in Int, spawned <= spawned',
             \A d \in 1..spawned : conv'[d].service = conv[d].service
      PROVE  Restarted(c)'
  <2>1. PICK d \in (c + 1)..spawned : conv[d].service = conv[c].service
    BY <1>3 DEF Restarted
  <2>2. d \in 1..spawned /\ c \in 1..spawned /\ d \in (c + 1)..spawned'
    BY <1>0, <1>3
  <2>3. conv'[d].service = conv'[c].service
    BY <1>3, <2>1, <2>2
  <2> QED BY <2>2, <2>3 DEF Restarted
<1>4. \A d \in 1..spawned : d \in Convs
  BY <1>0
<1>5. CASE Steady \/ \E c \in Convs : Chooses(c)
  <2>1. /\ \A d \in Convs : conv'[d].mem = conv[d].mem /\ conv'[d].service = conv[d].service
        /\ spawned' = spawned
        /\ \/ sessionConversation' = sessionConversation
           \/ sessionConversation' = NoConv
           \/ conv[sessionConversation'].mem = "live"
    BY <1>1, <1>5 DEF Steady, AllKept, Chooses
  <2> QED BY <1>0, <1>3, <1>4, <2>1 DEF SessionInv
<1>6. CASE EmptiesTable
  BY <1>0, <1>6 DEF EmptiesTable
<1>7. ASSUME NEW c \in Convs, TakesOut(c)
      PROVE  conv'[sessionConversation'].mem = "live" \/ Restarted(sessionConversation)'
  <2>1. /\ sessionConversation' = sessionConversation /\ sessionConversation # c
        /\ spawned' = spawned
        /\ \A d \in Convs \ {c} : conv'[d] = conv[d]
        /\ conv'[c].service = conv[c].service
    BY <1>0, <1>2, <1>7 DEF TakesOut
  <2> QED BY <1>0, <1>3, <1>4, <2>1 DEF SessionInv
<1>8. ASSUME NEW s \in Services, PutsIn(s)
      PROVE  conv'[sessionConversation'].mem = "live" \/ Restarted(sessionConversation)'
  <2>1. PICK c \in Convs : c = sessionConversation /\ c = sessionConversation'
    BY <1>8 DEF PutsIn
  <2>2. /\ spawned' = spawned + 1 /\ spawned + 1 \in Convs
        /\ conv'[spawned + 1].service = s
        /\ \A d \in Convs \ {spawned + 1} :
              IF d = conversations[s] THEN Released(conv[d], conv'[d]) ELSE conv'[d] = conv[d]
    BY <1>8 DEF PutsIn
  <2>3. \A d \in 1..spawned : d \in Convs \ {spawned + 1}
    BY <1>0
  <2>4. \A d \in 1..spawned : conv'[d].service = conv[d].service
    BY <1>2, <2>2, <2>3
  <2>5. CASE Restarted(c)
    <3>1. Restarted(c)'
      BY <1>0, <1>3, <2>2, <2>4, <2>5
    <3> QED BY <2>1, <3>1 DEF Restarted
  <2>6. CASE conv[c].mem = "live" /\ c = conversations[s]
    <3>1. c \in 1..spawned
      BY <1>0, <2>6
    <3>2. conv[c].service = s
      BY <2>6 DEF TableInv
    <3>3. conv'[spawned + 1].service = conv'[c].service
      BY <2>2, <2>4, <3>1, <3>2
    <3>4. spawned + 1 \in (c + 1)..spawned'
      BY <1>0, <2>2, <3>1
    <3>5. \E d \in (c + 1)..spawned' : conv'[d].service = conv'[c].service
      BY <3>3, <3>4
    <3> QED BY <2>1, <3>5 DEF Restarted
  <2>7. CASE conv[c].mem = "live" /\ c # conversations[s]
    <3>1. c \in 1..spawned
      BY <1>0, <2>7
    <3> QED BY <2>1, <2>2, <2>3, <2>7, <3>1
  <2> QED BY <2>1, <2>5, <2>6, <2>7 DEF SessionInv
<1>9. CASE \E s \in Services : PutsNull(s)
  BY <1>9 DEF PutsNull
<1> QED BY <1>5, <1>6, <1>7, <1>8, <1>9, StepKinds

\* A service that was started again has been for good.
LEMMA RestartStays ==
    ASSUME TypeOK, ConvInv, TableInv, [Next]_vars, NEW c \in Convs, Restarted(c)
    PROVE  Restarted(c)'
<1>0. /\ spawned \in 0..MaxWorkers /\ MaxWorkers \in Nat /\ Convs = 1..MaxWorkers
  BY SessionAssumptions DEF TypeOK, Convs
<1>1. \A d \in Convs : \/ Kept(conv[d], conv'[d]) \/ SameConv(conv[d], conv'[d])
                       \/ Released(conv[d], conv'[d])
         => conv'[d].service = conv[d].service
  BY DEF Kept, SameConv, Released
<1>2. /\ spawned' \in {spawned, spawned + 1}
      /\ \A d \in 1..spawned : conv'[d].service = conv[d].service
  <2>1. \A d \in 1..spawned : d \in Convs /\ d # spawned + 1
    BY <1>0
  <2>2. CASE Steady
    BY <1>1, <2>1, <2>2 DEF Steady, AllKept
  <2>3. CASE EmptiesTable
    BY <1>1, <2>1, <2>3 DEF EmptiesTable
  <2>4. CASE \E d \in Convs : TakesOut(d)
    BY <1>1, <2>1, <2>4 DEF TakesOut
  <2>5. CASE \E s \in Services : PutsIn(s)
    BY <1>1, <2>1, <2>5 DEF PutsIn
  <2>6. CASE \E s \in Services : PutsNull(s)
    BY <1>1, <2>1, <2>6 DEF PutsNull
  <2>7. CASE \E d \in Convs : Chooses(d)
    BY <1>1, <2>1, <2>7 DEF Chooses
  <2> QED BY <2>2, <2>3, <2>4, <2>5, <2>6, <2>7, StepKinds
<1>3. PICK d \in (c + 1)..spawned : conv[d].service = conv[c].service
  BY DEF Restarted
<1>4. c \in 1..spawned /\ d \in 1..spawned /\ d \in (c + 1)..spawned'
  BY <1>0, <1>2, <1>3
<1>5. conv'[d].service = conv'[c].service
  BY <1>2, <1>3, <1>4
<1> QED BY <1>4, <1>5 DEF Restarted

\* A freed conversation that is read was replaced.
LEMMA NextMisreadInv ==
    ASSUME TypeOK, ConvInv, TableInv, SessionInv, MisreadInv, [Next]_vars PROVE MisreadInv'
<1> SUFFICES ASSUME ~SpawnMayFail, NEW c \in misread' PROVE Restarted(c)'
  BY DEF MisreadInv
<1>1. c \in Convs
  BY MisreadStep DEF ReadSessionId, TypeOK
<1>2. Restarted(c)
  BY MisreadStep DEF ReadSessionId, MisreadInv, SessionInv
<1> QED BY <1>1, <1>2, RestartStays

\* A session that was just made.
LEMMA InitInv == Init => TypeOK /\ SessionIndInv
<1> SUFFICES ASSUME Init PROVE TypeOK /\ SessionIndInv
  OBVIOUS
<1>0. Autologin \in Services /\ MaxWorkers \in Nat /\ 0 \in 0..Len(CallNames)
      /\ <<>> \in Seq(Range(CallNames)) /\ <<>> \in Seq(Services \cup {"reset"})
      /\ <<>> \in Seq([call : Range(CallNames) \cup {"session_exited"}, ok : BOOLEAN])
  BY SessionAssumptions, Names, EmptySeq
<1>1. /\ Unused \in ConversationTypes /\ Unused.mem = "unused" /\ ~Unused.cancelled
      /\ Unused.replies = <<>> /\ Unused.worker = "none"
  BY <1>0 DEF Unused, ConversationTypes
<1> HIDE DEF Unused
<1>2. \A c \in Convs : conv[c] = Unused /\ c > 0
  BY <1>0 DEF Init, Convs
<1>3. TypeOK
  <2>1. conv \in [Convs -> ConversationTypes]
    BY <1>1 DEF Init
  <2>2. conversations \in [Services -> Convs \cup {NoConv, NullConv}]
    BY DEF Init
  <2>3. spawned \in 0..MaxWorkers /\ userSessions \in Nat
    BY <1>0 DEF Init
  <2> QED BY <1>0, <2>1, <2>2, <2>3 DEF Init, TypeOK
<1>4. ConvInv
  BY <1>1, <1>2 DEF Init, ConvInv
<1>5. TableInv /\ SessionInv /\ MisreadInv /\ ProgramInv /\ NullInv
  BY <1>1, <1>2, Distinct DEF Init, TableInv, SessionInv, MisreadInv, ProgramInv, NullInv
<1> QED BY <1>3, <1>4, <1>5 DEF SessionIndInv

\* The invariant is inductive.
LEMMA NextInv ==
    ASSUME TypeOK, SessionIndInv, [Next]_vars PROVE TypeOK' /\ SessionIndInv'
<1>1. ConvInv /\ TableInv /\ SessionInv /\ MisreadInv /\ ProgramInv /\ NullInv
  BY DEF SessionIndInv
<1>2. TypeOK'
  <2>1. TableOK' /\ ManagerOK'
    BY <1>1, NextTableOK, NextManagerOK
  <2> QED BY <2>1 DEF TypeOK, TableOK, ManagerOK, Structures
<1>3. ConvInv' /\ TableInv' /\ SessionInv' /\ MisreadInv' /\ ProgramInv' /\ NullInv'
  BY <1>1, NextConvInv, NextTableInv, NextSessionInv, NextMisreadInv, NextProgramInv, NextNullInv
<1> QED BY <1>2, <1>3 DEF SessionIndInv

\* It always holds.
LEMMA Inductive == Spec => [](TypeOK /\ SessionIndInv)
<1>1. (TypeOK /\ SessionIndInv) /\ [Next]_vars => (TypeOK /\ SessionIndInv)'
  BY NextInv
<1> QED BY InitInv, <1>1, PTL DEF Spec

-----------------------------------------------------------------------------
(* Theorems.                                                               *)

\* The variables of a session object, its conversations and the manager's idles keep
\* their types, whatever the order of replies, deaths, resets and starts.
THEOREM SessionTypeCorrect == Spec => []TypeOK
<1>1. TypeOK /\ SessionIndInv => TypeOK
  OBVIOUS
<1> QED BY Inductive, <1>1, PTL

\* While workers can be spawned, no callback or handler uses a conversation that
\* free_conversation has released, none is freed twice, and no handler walks over NULL;
\* what gdm_session_get_session_id reads was freed only for a restart of its service.
THEOREM ConversationsAreSafe == ASSUME ~SpawnMayFail PROVE Spec => []MemorySafe
<1>1. TypeOK /\ SessionIndInv => MemorySafe
  BY DEF SessionIndInv, NullInv, ConvInv, MisreadInv, MemorySafe
<1> QED BY Inductive, <1>1, PTL

\* While workers can be spawned, the hash table holds exactly the conversations that
\* exist, and session_conversation names one of them unless its service was restarted.
THEOREM TableHoldsTheLiving == ASSUME ~SpawnMayFail PROVE Spec => []TableIsExact
<1>1. TypeOK /\ SessionIndInv => TableIsExact
  <2> SUFFICES ASSUME TypeOK, SessionIndInv PROVE TableIsExact
    OBVIOUS
  <2>1. \A d \in Convs : conv[d].mem = "live" <=> d \in InTable
    BY LiveInTable DEF SessionIndInv
  <2>2. sessionConversation \in Convs \cup {NoConv}
    BY DEF TypeOK
  <2>3. sessionConversation # NoConv =>
           sessionConversation \in InTable \/ Restarted(sessionConversation)
    BY <2>1, <2>2 DEF SessionIndInv, SessionInv
  <2> QED BY <2>1, <2>3 DEF TableIsExact
<1> QED BY Inductive, <1>1, PTL

\* Of the workers the session still talks to at most one runs a program, however many
\* conversations were opened and however many starts are queued.
THEOREM OneProgramAtATime == Spec => []OneProgram
<1>1. TypeOK /\ SessionIndInv => OneProgram
  BY Names DEF SessionIndInv, ProgramInv, Armed, OneProgram
<1> QED BY Inductive, <1>1, PTL
====
