-------------------------- MODULE QueryRelay_proofs --------------------------
(***************************************************************************)
(* Proofs about the relay of PAM's questions, for every number of          *)
(* services, conversations and questions.  That the session never asserts  *)
(* and loses no question follows from what session and workers do alone.   *)
(* That an answer reaches the question it was given for needs the client   *)
(* too: answers name a service only, and what keeps an old one away from a *)
(* new conversation is the order of signals and messages.                  *)
(***************************************************************************)
EXTENDS QueryRelay, SequenceTheorems, TLAPS

-----------------------------------------------------------------------------
(* Types.                                                                  *)

States == {"none", "idle", "message", "asking", "batch", "error", "dead"}
Answers == [query : Queries, ok : BOOLEAN]
Ends == {"failed", "stopped", "refused"}
WorkerSet == [state : States, batch : Seq(Styles), got : Seq(Queries \cup {None})]
ConvSet == [service : Services \cup {None}, pending : Queries \cup {None},
            life : {"unused", "live", "stopping", "freed"}]
MessageSet ==
    {m \in [what : {"begin", "answer", "cancel"}, service : Services \cup {None},
            style : Styles \cup {None}, answer : Answers \cup {None}] :
        /\ m.what = "answer" => m.service \in Services /\ m.answer \in Answers
        /\ m.what = "begin" => m.service \in Services \ {Autologin}}
QuestionSet == [what : Styles, service : Services, query : Queries]
SignalSet ==
    QuestionSet \cup [what : Ends, service : Services, query : {None}]
                \cup [what : {"reset"}, service : {None}, query : {None}]

RelayTypes ==
    /\ current \in [Services -> Convs \cup {None}]
    /\ conv \in [Convs -> ConvSet]
    /\ worker \in [Convs -> WorkerSet]
    /\ call \in [Convs -> Queries \cup {None}]
    /\ reply \in [Convs -> Answers \cup {None}]
    /\ convOf \in [Queries -> Convs \cup {None}]
    /\ started \in 0..MaxConvs /\ asked \in 0..MaxQueries
    /\ enabled \subseteq Extensions /\ client \in BOOLEAN /\ reset \in BOOLEAN /\ aborted \in BOOLEAN
    /\ signals \in Seq(SignalSet)
    /\ messages \in Seq(MessageSet)
    /\ shown \in [Services -> QuestionSet \cup {None}]
    /\ view \in [Services -> {"none", "begun", "failed", "cancelling"}]

-----------------------------------------------------------------------------
(* Session and workers.                                                    *)

\* The table holds exactly the conversations that are not over.
ConvInv ==
    /\ \A s \in Services : current[s] # None =>
          conv[current[s]].service = s /\ conv[current[s]].life \in {"live", "stopping"}
    /\ \A g \in Convs : conv[g].life \in {"live", "stopping"} =>
          conv[g].service \in Services /\ current[conv[g].service] = g
    /\ \A g \in Convs : g > started => conv[g].life = "unused"
    /\ \A g \in Convs : conv[g].life = "unused" => worker[g].state = "none" /\ conv[g].pending = None

\* q is the last question of conversation g.
Latest(g, q) == convOf[q] = g /\ \A p \in Queries : convOf[p] = g => p <= q

\* A question that is under way is in one place: on its way to the session, pending
\* there, or on its way back.
QueryInv ==
    /\ \A q \in Queries : convOf[q] # None => q <= asked
    /\ \A g \in Convs :
          /\ worker[g].state \in {"message", "asking"} => worker[g].batch # <<>>
          /\ call[g] # None \/ reply[g] # None => Connected(g) /\ worker[g].state = "asking"
          /\ call[g] # None => Latest(g, call[g]) /\ reply[g] = None /\ conv[g].pending = None
          /\ reply[g] # None => conv[g].pending = None
          /\ conv[g].pending # None => convOf[conv[g].pending] = g
          /\ conv[g].pending # None /\ Connected(g) =>
                worker[g].state = "asking" /\ Latest(g, conv[g].pending)
          /\ worker[g].state = "asking" /\ Connected(g) =>
                call[g] # None \/ reply[g] # None \/ conv[g].pending # None

SessionInv == ConvInv /\ QueryInv /\ ~aborted

-----------------------------------------------------------------------------
(* The client.                                                             *)

IsSignal(i, s) == i \in DOMAIN signals /\ signals[i].service = s
IsQuestion(i, s) == IsSignal(i, s) /\ signals[i].query # None
IsBegin(i, s) == i \in DOMAIN messages /\ messages[i].what = "begin" /\ messages[i].service = s
IsAnswer(i, s) == i \in DOMAIN messages /\ messages[i].what = "answer" /\ messages[i].service = s
IsCancel(i) == i \in DOMAIN messages /\ messages[i].what = "cancel"
IsReset(i) == i \in DOMAIN signals /\ signals[i].what = "reset"

\* Where nothing is under way, or has only been asked for, the session has nothing and
\* nothing is on its way to the client; it has been asked for once, and what the client
\* has answered before that is ahead of it.
NothingHeard(s) ==
    current[s] = None /\ shown[s] = None /\ \A i \in DOMAIN signals : ~IsSignal(i, s)

BeginInv ==
    /\ \A s \in Services \ {Autologin} : view[s] = "none" => NothingHeard(s)
    /\ \A s \in Services, i \in DOMAIN messages : IsBegin(i, s) =>
          /\ NothingHeard(s) /\ view[s] # "none"
          /\ \A j \in DOMAIN messages :
                (i # j => ~IsBegin(j, s)) /\ (i < j => ~IsAnswer(j, s))

\* "stopped" is the last that is heard of a service, "refused" is not heard at all.
StoppedInv ==
    \A i \in DOMAIN signals :
        /\ signals[i].what # "refused"
        /\ signals[i].what = "stopped" =>
              /\ current[signals[i].service] = None
              /\ \A j \in DOMAIN signals : i < j => ~IsSignal(j, signals[i].service)

\* A cancellation is on its way to the session, to the idle that resets it, or back.
CancelInv ==
    /\ \A s \in Services : view[s] = "cancelling" => shown[s] = None
    /\ (reset \/ (\E i \in DOMAIN messages : IsCancel(i)) \/ (\E i \in DOMAIN signals : IsReset(i))) =>
          \A s \in Services : view[s] = "cancelling"
    /\ \A i \in DOMAIN messages : IsCancel(i) =>
          /\ ~reset
          /\ \A j \in DOMAIN signals : ~IsReset(j)
          /\ \A j \in DOMAIN messages : i < j => messages[j].what \notin {"cancel", "begin"}
    /\ reset => (\A j \in DOMAIN signals : ~IsReset(j)) /\ (\A j \in DOMAIN messages : messages[j].what # "begin")
    /\ \A i \in DOMAIN signals : IsReset(i) =>
          /\ i = Len(signals)
          /\ \A j \in DOMAIN messages : messages[j].what # "begin"
          /\ \A s \in Services : current[s] = None

\* The query that is pending at a service.
Pending(s) == conv[current[s]].pending

\* What a client may answer, or has answered, is what is pending at the service.
TokenInv ==
    \A s \in Services : current[s] # None =>
        /\ \A i \in DOMAIN signals : IsQuestion(i, s) =>
              /\ signals[i].query = Pending(s) /\ shown[s] = None
              /\ \A j \in DOMAIN signals : i # j => ~IsQuestion(j, s)
              /\ \A j \in DOMAIN messages : ~IsAnswer(j, s)
        /\ shown[s] # None =>
              shown[s].query = Pending(s) /\ \A j \in DOMAIN messages : ~IsAnswer(j, s)
        /\ \A i \in DOMAIN messages : IsAnswer(i, s) =>
              /\ messages[i].answer.query = Pending(s)
              /\ \A j \in DOMAIN messages : i # j => ~IsAnswer(j, s)

\* Without a client nothing is said to it, nor by it.
QuietInv ==
    ~client => signals = <<>> /\ messages = <<>> /\ \A s \in Services : shown[s] = None

\* A reply is to the last question.
ReplyInv == \A g \in Convs : reply[g] # None => Latest(g, reply[g].query)

TurnInv == QuietInv /\ BeginInv /\ StoppedInv /\ CancelInv /\ TokenInv /\ ReplyInv

-----------------------------------------------------------------------------
(* Every step is one of these, each with all that it changes.              *)

\* Conversation g is the only one whose worker changes.
OnlyWorker(g) == worker' \in [Convs -> WorkerSet] /\ \A h \in Convs \ {g} : worker'[h] = worker[h]

\* A worker goes on by itself.
Works(g) ==
    /\ OnlyWorker(g)
    /\ worker[g].state # "dead"
    /\ worker[g].state = "none" => conv[g].life = "live"
    /\ worker[g].state = "asking" => ~Connected(g)
    /\ worker'[g].state \in {"idle", "message", "batch", "error"}
    /\ worker'[g].state = "message" => worker'[g].batch # <<>>
    /\ UNCHANGED <<sessionVars, call, reply, convOf, asked, clientVars, signals, messages, aborted>>

\* It asks.
Asks(g) ==
    /\ OnlyWorker(g)
    /\ worker[g].state = "message" /\ Connected(g)
    /\ worker'[g].state = "asking" /\ worker'[g].batch # <<>>
    /\ asked < MaxQueries /\ asked' = asked + 1
    /\ convOf' = [convOf EXCEPT ![asked'] = g]
    /\ call' = [call EXCEPT ![g] = asked']
    /\ UNCHANGED <<sessionVars, reply, clientVars, signals, messages, aborted>>

\* It gets its answer.
IsAnswered(g) ==
    /\ OnlyWorker(g)
    /\ worker[g].state = "asking" /\ reply[g] # None
    /\ worker'[g].state \in {"batch", "error"}
    /\ reply' = [reply EXCEPT ![g] = None]
    /\ UNCHANGED <<sessionVars, call, convOf, asked, clientVars, signals, messages, aborted>>

\* A question cannot be shown, and fails.
RefusesQuery(g) ==
    /\ call[g] # None
    /\ call' = [call EXCEPT ![g] = None]
    /\ reply' = [reply EXCEPT ![g] = [query |-> call[g], ok |-> FALSE]]
    /\ UNCHANGED <<sessionVars, worker, convOf, asked, clientVars, signals, messages, aborted>>

\* It is put to the client.
PutsQuery(g) ==
    /\ client /\ call[g] # None /\ conv[g].pending = None
    /\ current[conv[g].service] = g
    /\ call' = [call EXCEPT ![g] = None]
    /\ conv' = [conv EXCEPT ![g].pending = call[g]]
    /\ \E style \in Styles :
          signals' = Append(signals, [what |-> style, service |-> conv[g].service, query |-> call[g]])
    /\ UNCHANGED <<current, enabled, client, reset, started, worker, reply, convOf, asked,
                   clientVars, messages, aborted>>

\* An answer comes to nothing.
IgnoresAnswer ==
    /\ Arrived("answer") /\ Take
    /\ UNCHANGED <<sessionVars, workerVars, clientVars, signals, aborted>>

\* An answer goes to the conversation g.
GivesAnswer(g) ==
    /\ Arrived("answer") /\ Take
    /\ current[Head(messages).service] = g
    /\ conv[g].pending # None
    /\ conv' = [conv EXCEPT ![g].pending = None]
    /\ reply' = [reply EXCEPT ![g] = IF Connected(g) THEN Head(messages).answer ELSE None]
    /\ UNCHANGED <<current, enabled, client, reset, started, worker, call, convOf, asked,
                   clientVars, signals, aborted>>

\* A conversation is begun, or refused.
Begins(s) ==
    /\ Arrived("begin") /\ Take /\ s = Head(messages).service
    /\ CanStart(s) /\ StartConversation(s)
    /\ UNCHANGED <<enabled, client, reset, convOf, asked, clientVars, signals, aborted>>

Refuses(s) ==
    /\ Arrived("begin") /\ Take /\ s = Head(messages).service
    /\ ~CanStart(s) /\ Signal("refused", s, None)
    /\ UNCHANGED <<sessionVars, workerVars, clientVars, aborted>>

\* The client hears of a reset, of the end of a conversation, or of a question.
HearsReset ==
    /\ signals # <<>> /\ Head(signals).what = "reset"
    /\ signals' = Tail(signals)
    /\ shown' = [t \in Services |-> None]
    /\ view' = [t \in Services |-> "none"]
    /\ UNCHANGED <<sessionVars, workerVars, messages, aborted>>

HearsEnd(s) ==
    /\ signals # <<>> /\ Head(signals).what \in Ends /\ s = Head(signals).service
    /\ signals' = Tail(signals)
    /\ shown' = [shown EXCEPT ![s] = None]
    /\ view' = [view EXCEPT ![s] = IF @ = "cancelling" THEN @
                                   ELSE IF Head(signals).what = "failed" THEN "failed" ELSE "none"]
    /\ UNCHANGED <<sessionVars, workerVars, messages, aborted>>

HearsQuestion(s) ==
    /\ signals # <<>> /\ Head(signals) \in QuestionSet /\ s = Head(signals).service
    /\ signals' = Tail(signals)
    /\ shown' = [shown EXCEPT ![s] = IF view[s] = "cancelling" THEN None ELSE Head(signals)]
    /\ UNCHANGED <<sessionVars, workerVars, view, messages, aborted>>

\* What is appended to a sequence, and what is left of one.
LEMMA Appended ==
    ASSUME NEW S, NEW q \in Seq(S), NEW e \in S
    PROVE  /\ Append(q, e) \in Seq(S) /\ Len(q) \in Nat
           /\ DOMAIN q = 1..Len(q) /\ DOMAIN Append(q, e) = 1..(Len(q) + 1)
           /\ \A i \in 1..Len(q) : Append(q, e)[i] = q[i]
           /\ Append(q, e)[Len(q) + 1] = e
           /\ Len(Append(q, e)) = Len(q) + 1 /\ Append(q, e) # <<>>
BY AppendProperties, LenProperties

\* What is left when the first element is taken.
LEMMA Taken ==
    ASSUME NEW S, NEW q \in Seq(S), q # <<>>
    PROVE  /\ Tail(q) \in Seq(S) /\ Head(q) \in S /\ Head(q) = q[1]
           /\ Len(q) \in Nat /\ Len(q) > 0 /\ Len(Tail(q)) = Len(q) - 1
           /\ DOMAIN q = 1..Len(q) /\ DOMAIN Tail(q) = 1..(Len(q) - 1)
           /\ \A i \in 1..(Len(q) - 1) : Tail(q)[i] = q[i + 1]
BY HeadTailProperties, LenProperties, EmptySeq

\* Workers are records.
LEMMA WorkerRecords ==
    /\ Idle \in WorkerSet /\ Idle.state = "idle"
    /\ Dead \in WorkerSet /\ Dead.state = "dead"
<1>1. <<>> \in Seq(Styles) /\ <<>> \in Seq(Queries \cup {None})
  BY EmptySeq
<1>2. /\ Idle = [state |-> "idle", batch |-> <<>>, got |-> <<>>]
      /\ Dead = [state |-> "dead", batch |-> <<>>, got |-> <<>>]
  BY DEF Idle, Dead, Absent
<1> QED BY <1>1, <1>2 DEF WorkerSet, States

\* Only the state of a worker changes.
LEMMA WorkerState ==
    ASSUME NEW w \in WorkerSet, NEW x \in States
    PROVE  /\ [w EXCEPT !.state = x] \in WorkerSet
           /\ [w EXCEPT !.state = x].state = x /\ [w EXCEPT !.state = x].batch = w.batch
BY DEF WorkerSet

\* A worker turns to its next question.
LEMMA WorkerBatch ==
    ASSUME NEW w \in WorkerSet, NEW x \in States, NEW y \in Seq(Styles)
    PROVE  /\ [w EXCEPT !.state = x, !.batch = y] \in WorkerSet
           /\ [w EXCEPT !.state = x, !.batch = y].state = x
           /\ [w EXCEPT !.state = x, !.batch = y].batch = y
BY DEF WorkerSet

\* A worker notes what it was told.
LEMMA WorkerGot ==
    ASSUME NEW w \in WorkerSet, NEW x \in States, NEW y \in Seq(Queries \cup {None})
    PROVE  /\ [w EXCEPT !.state = x, !.got = y] \in WorkerSet
           /\ [w EXCEPT !.state = x, !.got = y].state = x
BY DEF WorkerSet

\* Conversations are records, too.
LEMMA ConvRecords ==
    ASSUME NEW c \in ConvSet
    PROVE  /\ \A q \in Queries \cup {None} : [c EXCEPT !.pending = q] \in ConvSet
           /\ [c EXCEPT !.life = "stopping"] \in ConvSet
           /\ [c EXCEPT !.life = "freed", !.pending = None] \in ConvSet
           /\ \A s \in Services : NewConv(s) \in ConvSet
BY DEF ConvSet, NewConv

\* What is sent.
LEMMA EndSignal ==
    ASSUME NEW s \in Services, NEW e \in Ends
    PROVE  [what |-> e, service |-> s, query |-> None] \in SignalSet
BY DEF SignalSet

\* The signal that the session was reset.
LEMMA ResetSignal == [what |-> "reset", service |-> None, query |-> None] \in SignalSet
BY DEF SignalSet

\* The signal that puts a question to the client.
LEMMA QuestionSignal ==
    ASSUME NEW s \in Services, NEW e \in Styles, NEW q \in Queries
    PROVE  [what |-> e, service |-> s, query |-> q] \in SignalSet
BY DEF SignalSet, QuestionSet

\* The signals stay well formed when one is sent.
LEMMA Signalled ==
    ASSUME RelayTypes, NEW w, NEW s, NEW q, [what |-> w, service |-> s, query |-> q] \in SignalSet,
           Signal(w, s, q)
    PROVE  signals' \in Seq(SignalSet)
BY Appended DEF Signal, RelayTypes

\* So do the client's messages.
LEMMA Sent ==
    ASSUME RelayTypes, NEW w, NEW s, NEW y, NEW a,
           [what |-> w, service |-> s, style |-> y, answer |-> a] \in MessageSet, Send(w, s, y, a)
    PROVE  messages' \in Seq(MessageSet)
BY Appended DEF Send, RelayTypes

\* In turn the client answers what it shows.
LEMMA AnswersShown ==
    ASSUME InTurn, RelayTypes, NEW s \in Services, ClientAnswers(s)
    PROVE  /\ shown[s] # None /\ shown[s].what \in Styles /\ shown[s].query \in Queries
           /\ \E ok \in BOOLEAN :
                 messages' = Append(messages, [what |-> "answer", service |-> s, style |-> shown[s].what,
                                               answer |-> [query |-> shown[s].query, ok |-> ok]])
<1>1. shown[s] # None
  BY DEF ClientAnswers
<1>2. shown[s].what \in Styles /\ shown[s].query \in Queries
  BY <1>1 DEF RelayTypes, QuestionSet
<1> QED BY <1>1, <1>2 DEF ClientAnswers, Send

\* What is closed and freed.
LEMMA Closed ==
    ASSUME RelayTypes, NEW D, Close(D)
    PROVE  call' \in [Convs -> Queries \cup {None}] /\ reply' \in [Convs -> Answers \cup {None}]
BY DEF Close, RelayTypes

\* The conversations that are stopped for another keep their service and their query, and
\* nothing is under way on their connections.
LEMMA OthersStop ==
    ASSUME RelayTypes, NEW g \in Convs, StopOtherConversations(g)
    PROVE  /\ conv' \in [Convs -> ConvSet]
           /\ call' \in [Convs -> Queries \cup {None}] /\ reply' \in [Convs -> Answers \cup {None}]
           /\ UNCHANGED <<current, enabled, client, reset, started, worker, convOf, asked, shown, view,
                          signals, messages, aborted>>
           /\ \A h \in Convs :
                 /\ conv'[h].service = conv[h].service /\ conv'[h].pending = conv[h].pending
                 /\ \/ conv'[h].life = conv[h].life /\ call'[h] = call[h] /\ reply'[h] = reply[h]
                    \/ /\ conv[h].life = "live" /\ conv'[h].life = "stopping"
                       /\ call'[h] = None /\ reply'[h] = None
<1>1. \A h \in Convs : conv[h] \in ConvSet /\ [conv[h] EXCEPT !.life = "stopping"] \in ConvSet
  BY ConvRecords DEF RelayTypes
<1>2. call' \in [Convs -> Queries \cup {None}] /\ reply' \in [Convs -> Answers \cup {None}]
  BY Closed DEF StopOtherConversations
<1>3. conv' \in [Convs -> ConvSet]
  BY <1>1 DEF StopOtherConversations
<1>4. UNCHANGED <<current, enabled, client, reset, started, worker, convOf, asked, shown, view,
                  signals, messages, aborted>>
  BY DEF StopOtherConversations, clientVars
<1>5. ASSUME NEW h \in Convs
      PROVE  /\ conv'[h].service = conv[h].service /\ conv'[h].pending = conv[h].pending
             /\ \/ conv'[h].life = conv[h].life /\ call'[h] = call[h] /\ reply'[h] = reply[h]
                \/ /\ conv[h].life = "live" /\ conv'[h].life = "stopping"
                   /\ call'[h] = None /\ reply'[h] = None
  BY <1>1 DEF StopOtherConversations, Close, ConvSet
<1> QED BY <1>2, <1>3, <1>4, <1>5

\* A freed conversation is still a record.
LEMMA FreedConvs ==
    ASSUME RelayTypes, NEW D, Free(D)
    PROVE  /\ worker' \in [Convs -> WorkerSet]
           /\ [g \in Convs |-> IF g \in D THEN Freed(g) ELSE conv[g]] \in [Convs -> ConvSet]
<1>1. worker' \in [Convs -> WorkerSet]
  BY WorkerRecords DEF Free, RelayTypes
<1>2. \A g \in Convs : conv[g] \in ConvSet /\ Freed(g) \in ConvSet
  BY ConvRecords DEF RelayTypes, Freed
<1> QED BY <1>1, <1>2

\* A conversation is started.
LEMMA StartedTypes ==
    ASSUME RelayTypes, NEW s \in Services, StartConversation(s)
    PROVE  /\ current' \in [Services -> Convs \cup {None}] /\ conv' \in [Convs -> ConvSet]
           /\ worker' \in [Convs -> WorkerSet]
           /\ call' \in [Convs -> Queries \cup {None}] /\ reply' \in [Convs -> Answers \cup {None}]
           /\ started' \in 0..MaxConvs /\ started' \in Convs
<1> DEFINE old == {current[s]} \ {None}
           c == [g \in Convs |-> IF g \in old THEN Freed(g) ELSE conv[g]]
<1>1. started' \in 0..MaxConvs /\ started' \in Convs
  BY RelayAssumptions DEF StartConversation, RelayTypes, Convs
<1>2. Free(old)
  BY DEF StartConversation
<1>3. worker' \in [Convs -> WorkerSet] /\ c \in [Convs -> ConvSet]
  BY <1>2, FreedConvs
<1>4. call' \in [Convs -> Queries \cup {None}] /\ reply' \in [Convs -> Answers \cup {None}]
  BY <1>2, Closed DEF Free
<1>5. conv' = [c EXCEPT ![started'] = NewConv(s)] /\ current' = [current EXCEPT ![s] = started']
  BY DEF StartConversation
<1>6. NewConv(s) \in ConvSet
  BY DEF NewConv, ConvSet
<1> HIDE DEF c
<1>7. conv' \in [Convs -> ConvSet]
  BY <1>3, <1>5, <1>6
<1>8. current' \in [Services -> Convs \cup {None}]
  BY <1>1, <1>5 DEF RelayTypes
<1> QED BY <1>1, <1>3, <1>4, <1>7, <1>8

\* What freeing a conversation leaves of it.
LEMMA FreedFields ==
    ASSUME RelayTypes, NEW g \in Convs
    PROVE  /\ Freed(g).service = conv[g].service
           /\ Freed(g).life = "freed" /\ Freed(g).pending = None
BY DEF Freed, RelayTypes, ConvSet

\* What a start does to each conversation.
LEMMA Started ==
    ASSUME RelayTypes, ConvInv, NEW s \in Services, StartConversation(s)
    PROVE  /\ started' = started + 1 /\ started' \in Convs
           /\ current' = [current EXCEPT ![s] = started']
           /\ conv[started'].life = "unused" /\ \A t \in Services : current[t] # started'
           /\ conv'[started'] = NewConv(s)
           /\ worker'[started'] = worker[started'] /\ worker[started'].state = "none"
           /\ call'[started'] = call[started'] /\ reply'[started'] = reply[started']
           /\ \A h \in Convs \ {started'} :
                 IF h = current[s]
                 THEN /\ conv'[h] = Freed(h) /\ worker'[h] = Dead
                      /\ call'[h] = None /\ reply'[h] = None
                 ELSE /\ conv'[h] = conv[h] /\ worker'[h] = worker[h]
                      /\ call'[h] = call[h] /\ reply'[h] = reply[h]
<1> DEFINE n == started + 1
           old == {current[s]} \ {None}
           c == [g \in Convs |-> IF g \in old THEN Freed(g) ELSE conv[g]]
<1>1. n \in Convs /\ started' = n /\ current' = [current EXCEPT ![s] = n]
  BY RelayAssumptions DEF StartConversation, RelayTypes, Convs
<1>2. conv[n].life = "unused" /\ worker[n].state = "none"
  BY <1>1, RelayAssumptions DEF ConvInv, RelayTypes, Convs
<1>22. n # None
  BY <1>1, RelayAssumptions DEF Convs
<1>23. \A t \in Services : current[t] # n
  BY <1>2, <1>22 DEF ConvInv
<1>3. conv' = [c EXCEPT ![n] = NewConv(s)]
  BY <1>1 DEF StartConversation
<1>4. /\ worker' = [g \in Convs |-> IF g \in old THEN Dead ELSE worker[g]]
      /\ call' = [g \in Convs |-> IF g \in old THEN None ELSE call[g]]
      /\ reply' = [g \in Convs |-> IF g \in old THEN None ELSE reply[g]]
  BY DEF StartConversation, Free, Close
<1>5. \A h \in Convs : h \in old <=> h = current[s]
  BY RelayAssumptions DEF Convs
<1> HIDE DEF n, old
<1>6. conv'[n] = NewConv(s) /\ \A h \in Convs \ {n} : conv'[h] = IF h \in old THEN Freed(h) ELSE conv[h]
  BY <1>1, <1>3
<1>7. worker'[n] = worker[n] /\ call'[n] = call[n] /\ reply'[n] = reply[n]
  BY <1>1, <1>23, <1>4, <1>5
<1>8. ASSUME NEW h \in Convs \ {n}, h = current[s]
      PROVE  conv'[h] = Freed(h) /\ worker'[h] = Dead /\ call'[h] = None /\ reply'[h] = None
  BY <1>4, <1>5, <1>6, <1>8
<1>9. ASSUME NEW h \in Convs \ {n}, h # current[s]
      PROVE  /\ conv'[h] = conv[h] /\ worker'[h] = worker[h]
             /\ call'[h] = call[h] /\ reply'[h] = reply[h]
  BY <1>4, <1>5, <1>6, <1>9
<1> HIDE DEF c
<1>10. started' = started + 1
  BY <1>1 DEF n
<1> QED BY <1>1, <1>2, <1>6, <1>7, <1>8, <1>9, <1>10, <1>23, Zenon

\* What a reset does to each conversation.
LEMMA ResetFrees ==
    ASSUME RelayTypes, ConvInv, OnResetSession
    PROVE  \A h \in Convs :
              IF conv[h].life \in {"live", "stopping"}
              THEN /\ conv'[h] = Freed(h) /\ worker'[h] = Dead
                   /\ call'[h] = None /\ reply'[h] = None
              ELSE /\ conv'[h] = conv[h] /\ worker'[h] = worker[h]
                   /\ call'[h] = call[h] /\ reply'[h] = reply[h]
<1> DEFINE all == {current[t] : t \in Services} \ {None}
<1>1. \A h \in Convs : h \in all <=> conv[h].life \in {"live", "stopping"}
  BY RelayAssumptions DEF ConvInv, Convs
<1>2. /\ conv' = [g \in Convs |-> IF g \in all THEN Freed(g) ELSE conv[g]]
      /\ worker' = [g \in Convs |-> IF g \in all THEN Dead ELSE worker[g]]
      /\ call' = [g \in Convs |-> IF g \in all THEN None ELSE call[g]]
      /\ reply' = [g \in Convs |-> IF g \in all THEN None ELSE reply[g]]
  BY DEF OnResetSession, Free, Close
<1> HIDE DEF all
<1> QED BY <1>1, <1>2

\* The steps of a worker.
LEMMA WorkerCases ==
    ASSUME RelayTypes, SessionInv, NEW g \in Convs, WorkerStep(g)
    PROVE  Works(g) \/ Asks(g) \/ IsAnswered(g) \/ WorkerEnds(g)
<1> USE DEF RelayTypes
<1>0. /\ worker[g] \in WorkerSet /\ worker[g].state \in States /\ worker[g].batch \in Seq(Styles)
      /\ worker[g].got \in Seq(Queries \cup {None})
  BY DEF WorkerSet
<1>00. "message" \in States /\ "asking" \in States /\ "batch" \in States /\ "error" \in States
  BY DEF States
<1>1. ASSUME NEW w \in WorkerSet, worker' = [worker EXCEPT ![g] = w]
      PROVE  OnlyWorker(g) /\ worker'[g] = w
  BY <1>1 DEF OnlyWorker
<1>2. CASE WorkerConnects(g)
  <2>1. Idle \in WorkerSet /\ Idle.state = "idle"
    BY WorkerRecords
  <2> QED BY <1>1, <1>2, <2>1 DEF WorkerConnects, Works
<1>3. ASSUME NEW style \in Styles, NextMessage(g, style) PROVE Works(g)
  <2> DEFINE b == Append(worker[g].batch, style)
             w == [worker[g] EXCEPT !.state = "message", !.batch = b]
  <2>1. b \in Seq(Styles) /\ b # <<>>
    BY <1>0, Appended
  <2>2. worker' = [worker EXCEPT ![g] = w]
    BY <1>3 DEF NextMessage
  <2> HIDE DEF b
  <2>3. worker[g] \in WorkerSet /\ "message" \in States /\ b \in Seq(Styles)
    BY <1>0, <1>00, <2>1
  <2>4. w \in WorkerSet /\ w.state = "message" /\ w.batch = b
    <3>1. w \in WorkerSet
      BY <2>3, WorkerBatch, Zenon
    <3>2. w.state = "message" /\ w.batch = b
      BY <2>3 DEF WorkerSet
    <3> QED BY <3>1, <3>2
  <2> HIDE DEF w
  <2> QED BY <1>1, <1>3, <2>1, <2>2, <2>4 DEF NextMessage, Works
<1>4. CASE Ask(g)
  <2> DEFINE w == [worker[g] EXCEPT !.state = "asking"]
  <2>1. w \in WorkerSet /\ w.state = "asking" /\ w.batch = worker[g].batch
    BY <1>0, <1>00, WorkerState, Zenon
  <2>2. worker' = [worker EXCEPT ![g] = w]
    BY <1>4 DEF Ask
  <2>3. worker[g].batch # <<>>
    BY <1>4 DEF Ask, At, SessionInv, QueryInv
  <2> HIDE DEF w
  <2> QED BY <1>1, <1>4, <2>1, <2>2, <2>3 DEF Ask, At, Asks
<1>5. ASSUME NEW y \in Queries \cup {None},
             worker' = [worker EXCEPT ![g].state = "batch", ![g].got = Append(@, y)]
      PROVE  OnlyWorker(g) /\ worker'[g].state = "batch"
  <2> DEFINE b == Append(worker[g].got, y)
             w == [worker[g] EXCEPT !.state = "batch", !.got = b]
  <2>1. b \in Seq(Queries \cup {None})
    BY <1>0, Appended
  <2>2. worker' = [worker EXCEPT ![g] = w]
    BY <1>5
  <2> HIDE DEF b
  <2>3. w \in WorkerSet /\ w.state = "batch"
    BY <1>0, <2>1, <1>00, WorkerGot, Zenon
  <2> HIDE DEF w
  <2> QED BY <1>1, <2>2, <2>3
<1>55. CASE Tell(g)
  BY <1>5, <1>55 DEF Tell, At, Works
<1>6. ASSUME Fail(g) PROVE OnlyWorker(g) /\ worker'[g].state = "error"
  <2> DEFINE w == [worker[g] EXCEPT !.state = "error", !.got = <<>>]
  <2>1. w \in WorkerSet /\ w.state = "error"
    BY <1>0, EmptySeq, <1>00, WorkerGot, Zenon
  <2>2. worker' = [worker EXCEPT ![g] = w]
    BY <1>6 DEF Fail
  <2> HIDE DEF w
  <2> QED BY <1>1, <2>1, <2>2
<1>7. CASE CannotAsk(g)
  BY <1>6, <1>7 DEF CannotAsk, At, Works
<1>8. CASE AnswerArrives(g)
  <2>1. ASSUME reply[g].ok PROVE IsAnswered(g)
    <3>1. reply[g].query \in Queries \cup {None}
      BY <1>8 DEF AnswerArrives, Answers
    <3> QED BY <1>5, <1>8, <2>1, <3>1 DEF AnswerArrives, IsAnswered
  <2>2. ASSUME ~reply[g].ok PROVE IsAnswered(g)
    BY <1>6, <1>8, <2>2 DEF AnswerArrives, IsAnswered
  <2> QED BY <2>1, <2>2
<1>9. CASE PamContinues(g)
  <2>1. Idle \in WorkerSet /\ Idle.state = "idle"
    BY WorkerRecords
  <2> QED BY <1>1, <1>9, <2>1 DEF PamContinues, Works
<1> QED BY <1>2, <1>3, <1>4, <1>55, <1>7, <1>8, <1>9, Zenon DEF WorkerStep

\* A question arrives at the session.
LEMMA QueryCases ==
    ASSUME RelayTypes, SessionInv, NEW g \in Convs, HandleQuery(g)
    PROVE  RefusesQuery(g) \/ PutsQuery(g)
<1>1. call[g] # None /\ Connected(g) /\ worker[g].state = "asking" /\ conv[g].pending = None
  BY DEF HandleQuery, SessionInv, QueryInv
<1>2. conv[g].service \in Services /\ current[conv[g].service] = g /\ g # None
  BY <1>1, RelayAssumptions DEF SessionInv, ConvInv, Connected, Convs
<1>3. Message(g) \in Styles
  <2>1. worker[g].batch \in Seq(Styles) /\ worker[g].batch # <<>>
    BY <1>1 DEF RelayTypes, WorkerSet, SessionInv, QueryInv
  <2> QED BY <2>1, LenProperties, EmptySeq, ElementOfSeq DEF Message
<1>4. CASE ~client \/ Message(g) \in Extensions \ enabled
  BY <1>1, <1>4 DEF HandleQuery, RefusesQuery, sessionVars
<1>5. CASE ~(~client \/ Message(g) \in Extensions \ enabled)
  <2>1. signals' = Append(signals, [what |-> Message(g), service |-> conv[g].service, query |-> call[g]])
    BY <1>2, <1>5 DEF HandleQuery, Signal
  <2>2. /\ conv' = [conv EXCEPT ![g].pending = call[g]]
        /\ aborted' = aborted
    BY <1>1, <1>2, <1>5 DEF HandleQuery, SetPendingQuery, SessionInv, RelayTypes
  <2>3. /\ call' = [call EXCEPT ![g] = None]
        /\ UNCHANGED <<current, enabled, client, reset, started, worker, reply, convOf, asked,
                       clientVars, messages>>
    BY <1>5 DEF HandleQuery
  <2> QED BY <1>1, <1>2, <1>3, <1>5, <2>1, <2>2, <2>3 DEF PutsQuery
<1> QED BY <1>4, <1>5

\* What the session makes of the client's messages.
LEMMA MessageCases ==
    ASSUME RelayTypes, SessionInv, HandleAnswer \/ HandleBegin
    PROVE  \/ IgnoresAnswer \/ \E g \in Convs : GivesAnswer(g)
           \/ \E s \in Services \ {Autologin} : Begins(s) \/ Refuses(s)
<1> DEFINE m == Head(messages)
<1>0. messages # <<>> /\ m \in MessageSet
  BY Taken DEF HandleAnswer, HandleBegin, Arrived, RelayTypes
<1>1. CASE HandleAnswer
  <2>0. m.service \in Services
    BY <1>0, <1>1 DEF HandleAnswer, Arrived, MessageSet
  <2>1. CASE UNCHANGED <<conv, reply>>
    BY <1>1, <2>1 DEF HandleAnswer, IgnoresAnswer, sessionVars, workerVars
  <2>2. CASE ~ UNCHANGED <<conv, reply>>
    <3>1. /\ current[m.service] # None /\ conv[current[m.service]].pending # None
          /\ AnswerQuery(m.service, m.answer)
      BY <1>1, <2>2 DEF HandleAnswer, AnswerQuery
    <3>2. current[m.service] \in Convs
      BY <2>0, <3>1 DEF RelayTypes
    <3>3. convOf[conv[current[m.service]].pending] = current[m.service]
      BY <3>1, <3>2 DEF SessionInv, QueryInv
    <3>4. GivesAnswer(current[m.service])
      BY <1>1, <3>1, <3>3 DEF HandleAnswer, AnswerQuery, GivesAnswer
    <3> QED BY <3>2, <3>4
  <2> QED BY <2>1, <2>2
<1>2. CASE HandleBegin
  <2>1. m.service \in Services \ {Autologin}
    BY <1>0, <1>2 DEF HandleBegin, Arrived, MessageSet
  <2>2. Begins(m.service) \/ Refuses(m.service)
    BY <1>2 DEF HandleBegin, Begins, Refuses, sessionVars, workerVars
  <2> QED BY <2>1, <2>2
<1> QED BY <1>1, <1>2

\* What the client makes of the session's signals.
LEMMA SignalCases ==
    ASSUME RelayTypes, ClientReceives
    PROVE  HearsReset \/ \E s \in Services : HearsEnd(s) \/ HearsQuestion(s)
<1> DEFINE m == Head(signals)
<1>0. signals # <<>> /\ m \in SignalSet
  BY Taken DEF ClientReceives, RelayTypes
<1>00. Styles \cap {"failed", "stopped", "refused", "reset"} = {}
  BY RelayAssumptions DEF Styles
<1>1. CASE m \in QuestionSet
  <2>1. m.service \in Services /\ m.what \in Styles
    BY <1>1 DEF QuestionSet
  <2>2. m.what # "reset" /\ m.what \notin {"stopped", "failed", "refused"}
    BY <1>00, <2>1
  <2>3. HearsQuestion(m.service)
    BY <1>0, <1>1, <2>2 DEF ClientReceives, HearsQuestion
  <2> QED BY <2>1, <2>3
<1>2. CASE m \in [what : Ends, service : Services, query : {None}]
  <2>1. m.service \in Services /\ m.what \in Ends
    BY <1>2
  <2>2. m.what # "reset" /\ m.what \in {"stopped", "failed", "refused"}
    BY <2>1 DEF Ends
  <2>3. HearsEnd(m.service)
    BY <1>0, <2>1, <2>2 DEF ClientReceives, HearsEnd
  <2> QED BY <2>1, <2>3
<1>3. CASE m \in [what : {"reset"}, service : {None}, query : {None}]
  <2>1. m.what = "reset"
    BY <1>3
  <2> QED BY <1>0, <2>1 DEF ClientReceives, HearsReset
<1> QED BY <1>0, <1>1, <1>2, <1>3 DEF SignalSet

\* Every step is one of the cases.
LEMMA StepCases ==
    ASSUME RelayTypes, SessionInv, [Next]_vars
    PROVE  \/ \E g \in Convs : Works(g) \/ Asks(g) \/ IsAnswered(g) \/ WorkerEnds(g)
           \/ \E g \in Convs : RefusesQuery(g) \/ PutsQuery(g) \/ WorkerExited(g) \/ ConversationFails(g)
                                \/ StopOtherConversations(g)
           \/ IgnoresAnswer \/ \E g \in Convs : GivesAnswer(g)
           \/ \E s \in Services \ {Autologin} : Begins(s) \/ Refuses(s)
           \/ HandleCancel \/ OnResetSession
           \/ HearsReset \/ \E s \in Services : HearsEnd(s) \/ HearsQuestion(s)
           \/ ClientCancels \/ \E s \in Services : ClientBegins(s) \/ ClientAnswers(s)
           \/ \E names \in SUBSET Extensions : ClientConnects(names)
           \/ StartByManager
           \/ UNCHANGED vars
BY WorkerCases, QueryCases, MessageCases, SignalCases, Zenon DEF Next, SessionStep, ClientStep

-----------------------------------------------------------------------------
\* Every step keeps the types.
LEMMA NextTypes ==
    ASSUME RelayTypes, SessionInv, [Next]_vars PROVE RelayTypes'
<1> USE RelayAssumptions DEF RelayTypes
<1>1. ASSUME NEW g \in Convs, Works(g) PROVE RelayTypes'
  BY <1>1 DEF Works, OnlyWorker, sessionVars, clientVars, workerVars
<1>2. ASSUME NEW g \in Convs, Asks(g) PROVE RelayTypes'
  <2>1. asked' \in Queries /\ asked' \in 0..MaxQueries
    BY <1>2 DEF Asks, Queries
  <2> QED BY <1>2, <2>1 DEF Asks, OnlyWorker, sessionVars, clientVars, workerVars
<1>3. ASSUME NEW g \in Convs, IsAnswered(g) PROVE RelayTypes'
  BY <1>3 DEF IsAnswered, OnlyWorker, sessionVars, clientVars, workerVars
<1>4. ASSUME NEW g \in Convs, WorkerEnds(g) PROVE RelayTypes'
  <2>1. call' \in [Convs -> Queries \cup {None}] /\ reply' \in [Convs -> Answers \cup {None}]
    BY <1>4, Closed DEF WorkerEnds
  <2>2. worker' \in [Convs -> WorkerSet]
    BY <1>4, WorkerRecords DEF WorkerEnds
  <2> QED BY <1>4, <2>1, <2>2 DEF WorkerEnds, sessionVars, clientVars
<1>5. ASSUME NEW g \in Convs, RefusesQuery(g) PROVE RelayTypes'
  <2>1. [query |-> call[g], ok |-> FALSE] \in Answers
    BY <1>5 DEF RefusesQuery, Answers
  <2>2. call' \in [Convs -> Queries \cup {None}] /\ reply' \in [Convs -> Answers \cup {None}]
    BY <1>5, <2>1 DEF RefusesQuery
  <2> QED BY <1>5, <2>1, <2>2 DEF RefusesQuery, sessionVars, clientVars
<1>6. ASSUME NEW g \in Convs, PutsQuery(g) PROVE RelayTypes'
  <2>1. conv[g].service \in Services /\ call[g] \in Queries
    BY <1>6 DEF PutsQuery, SessionInv, QueryInv, ConvInv, Connected
  <2>2. signals' \in Seq(SignalSet)
    BY <1>6, <2>1, QuestionSignal, Appended DEF PutsQuery
  <2>3. conv' \in [Convs -> ConvSet]
    BY <1>6, <2>1, ConvRecords DEF PutsQuery
  <2>4. call' \in [Convs -> Queries \cup {None}]
    BY <1>6 DEF PutsQuery
  <2> QED BY <1>6, <2>1, <2>2, <2>3, <2>4 DEF PutsQuery, sessionVars, workerVars, clientVars
<1>7. ASSUME NEW g \in Convs, WorkerExited(g) PROVE RelayTypes'
  <2>1. conv[g].service \in Services
    BY <1>7 DEF WorkerExited, SessionInv, ConvInv
  <2>2. signals' \in Seq(SignalSet)
    BY <1>7, <2>1, EndSignal, Signalled DEF WorkerExited, Ends
  <2>3. conv' \in [Convs -> ConvSet]
    BY <1>7, ConvRecords DEF WorkerExited, Freed
  <2>4. current' \in [Services -> Convs \cup {None}]
    BY <1>7, <2>1 DEF WorkerExited
  <2> QED BY <1>7, <2>1, <2>2, <2>3, <2>4 DEF WorkerExited, sessionVars, workerVars, clientVars
<1>8. ASSUME NEW g \in Convs, ConversationFails(g) PROVE RelayTypes'
  <2>1. conv[g].service \in Services
    BY <1>8 DEF ConversationFails, SessionInv, ConvInv
  <2>2. signals' \in Seq(SignalSet)
    BY <1>8, <2>1, EndSignal, Signalled DEF ConversationFails, Ends
  <2>3. conv' \in [Convs -> ConvSet]
    BY <1>8, ConvRecords DEF ConversationFails
  <2>4. call' \in [Convs -> Queries \cup {None}] /\ reply' \in [Convs -> Answers \cup {None}]
    BY <1>8, Closed DEF ConversationFails
  <2> QED BY <1>8, <2>1, <2>2, <2>3, <2>4 DEF ConversationFails, sessionVars, workerVars, clientVars
<1>81. ASSUME NEW g \in Convs, StopOtherConversations(g) PROVE RelayTypes'
  BY <1>81, OthersStop
<1>9. CASE IgnoresAnswer
  BY <1>9 DEF IgnoresAnswer, Arrived, Take, sessionVars, clientVars, workerVars
<1>10. ASSUME NEW g \in Convs, GivesAnswer(g) PROVE RelayTypes'
  <2>1. messages' \in Seq(MessageSet) /\ Head(messages) \in MessageSet /\ messages # <<>>
    BY <1>10, Taken DEF GivesAnswer, Arrived, Take
  <2>2. Head(messages).answer \in Answers
    BY <1>10, <2>1 DEF GivesAnswer, Arrived, MessageSet
  <2>3. conv' \in [Convs -> ConvSet]
    BY <1>10, ConvRecords DEF GivesAnswer
  <2>4. reply' \in [Convs -> Answers \cup {None}]
    BY <1>10, <2>2 DEF GivesAnswer
  <2> QED BY <1>10, <2>1, <2>2, <2>3, <2>4 DEF GivesAnswer, clientVars
<1>11. ASSUME NEW s \in Services \ {Autologin}, Begins(s) PROVE RelayTypes'
  <2>1. messages' \in Seq(MessageSet) /\ Head(messages) \in MessageSet /\ messages # <<>>
    BY <1>11, Taken DEF Begins, Arrived, Take
  <2>2. /\ current' \in [Services -> Convs \cup {None}] /\ conv' \in [Convs -> ConvSet]
        /\ worker' \in [Convs -> WorkerSet]
        /\ call' \in [Convs -> Queries \cup {None}] /\ reply' \in [Convs -> Answers \cup {None}]
        /\ started' \in 0..MaxConvs
    BY <1>11, StartedTypes DEF Begins
  <2> QED BY <1>11, <2>1, <2>2 DEF Begins, clientVars
<1>12. ASSUME NEW s \in Services \ {Autologin}, Refuses(s) PROVE RelayTypes'
  <2>1. messages' \in Seq(MessageSet) /\ Head(messages) \in MessageSet /\ messages # <<>>
    BY <1>12, Taken DEF Refuses, Arrived, Take
  <2>2. signals' \in Seq(SignalSet)
    BY <1>12, EndSignal, Signalled DEF Refuses, Ends
  <2> QED BY <1>12, <2>1, <2>2 DEF Refuses, sessionVars, workerVars, clientVars
<1>13. CASE HandleCancel
  BY <1>13 DEF HandleCancel, Arrived, Take, sessionVars, clientVars, workerVars
<1>14. CASE OnResetSession
  <2> DEFINE all == {current[t] : t \in Services} \ {None}
  <2>1. Free(all) /\ conv' = [g \in Convs |-> IF g \in all THEN Freed(g) ELSE conv[g]]
    BY <1>14 DEF OnResetSession
  <2>2. worker' \in [Convs -> WorkerSet] /\ conv' \in [Convs -> ConvSet]
    BY <2>1, FreedConvs
  <2>3. call' \in [Convs -> Queries \cup {None}] /\ reply' \in [Convs -> Answers \cup {None}]
    BY <2>1, Closed DEF Free
  <2>4. signals' \in Seq(SignalSet)
    BY <1>14, ResetSignal, Signalled DEF OnResetSession
  <2> QED BY <1>14, <2>1, <2>2, <2>3, <2>4 DEF OnResetSession, clientVars
<1>15. CASE HearsReset
  BY <1>15 DEF HearsReset, sessionVars, clientVars, workerVars
<1>16. ASSUME NEW s \in Services, HearsEnd(s) PROVE RelayTypes'
  BY <1>16 DEF HearsEnd, sessionVars, clientVars, workerVars
<1>17. ASSUME NEW s \in Services, HearsQuestion(s) PROVE RelayTypes'
  BY <1>17 DEF HearsQuestion, sessionVars, clientVars, workerVars
<1>18. CASE ClientCancels
  <2>1. [what |-> "cancel", service |-> None, style |-> None, answer |-> None] \in MessageSet
    BY DEF MessageSet
  <2>2. messages' \in Seq(MessageSet)
    BY <1>18, <2>1, Sent DEF ClientCancels
  <2> QED BY <1>18, <2>1, <2>2 DEF ClientCancels, sessionVars, workerVars
<1>19. ASSUME NEW s \in Services, ClientBegins(s) PROVE RelayTypes'
  <2>1. [what |-> "begin", service |-> s, style |-> None, answer |-> None] \in MessageSet
    BY <1>19 DEF ClientBegins, MessageSet
  <2>2. messages' \in Seq(MessageSet)
    BY <1>19, <2>1, Sent DEF ClientBegins
  <2> QED BY <1>19, <2>1, <2>2 DEF ClientBegins, sessionVars, workerVars
<1>20. ASSUME NEW s \in Services, ClientAnswers(s) PROVE RelayTypes'
  <2>1. PICK style \in Styles, q \in Queries, ok \in BOOLEAN :
          Send("answer", s, style, [query |-> q, ok |-> ok])
    BY <1>20 DEF ClientAnswers
  <2>2. [what |-> "answer", service |-> s, style |-> style, answer |-> [query |-> q, ok |-> ok]] \in MessageSet
    BY DEF MessageSet, Answers
  <2>3. messages' \in Seq(MessageSet)
    BY <2>1, <2>2, Sent
  <2> QED BY <1>20, <2>3 DEF ClientAnswers, sessionVars, workerVars
<1>21. ASSUME NEW names \in SUBSET Extensions, ClientConnects(names) PROVE RelayTypes'
  BY <1>21 DEF ClientConnects, EnableExtensions, sessionVars, clientVars, workerVars
<1>22. CASE StartByManager
  <2>1. /\ current' \in [Services -> Convs \cup {None}] /\ conv' \in [Convs -> ConvSet]
        /\ worker' \in [Convs -> WorkerSet]
        /\ call' \in [Convs -> Queries \cup {None}] /\ reply' \in [Convs -> Answers \cup {None}]
        /\ started' \in 0..MaxConvs
    BY <1>22, StartedTypes DEF StartByManager
  <2> QED BY <1>22, <2>1 DEF StartByManager, clientVars
<1>23. CASE UNCHANGED vars
  BY <1>23 DEF vars, sessionVars, workerVars, clientVars
<1> HIDE DEF RelayTypes
<1> QED BY <1>1, <1>2, <1>3, <1>4, <1>5, <1>6, <1>7, <1>8, <1>81, <1>9, <1>10, <1>11, <1>12,
           <1>13, <1>14, <1>15, <1>16, <1>17, <1>18, <1>19, <1>20, <1>21, <1>22, <1>23,
           StepCases, Zenon

\* The table stays exact.
LEMMA NextConvInv ==
    ASSUME RelayTypes, SessionInv, [Next]_vars PROVE ConvInv'
<1> USE RelayAssumptions DEF RelayTypes, ConvInv
<1>0. ConvInv /\ (\A t \in Services : current[t] \in Convs \cup {None}) /\ None \notin Convs
  BY DEF SessionInv, Convs
<1> USE <1>0 DEF ConvSet
<1>1. ASSUME NEW g \in Convs, Works(g) PROVE ConvInv'
  BY <1>1 DEF Works, OnlyWorker, sessionVars, clientVars, workerVars
<1>2. ASSUME NEW g \in Convs, Asks(g) PROVE ConvInv'
  <2>1. UNCHANGED <<current, conv, started>>
    BY <1>2 DEF Asks, sessionVars
  <2>2. conv[g].life # "unused"
    BY <1>2 DEF Asks, Connected
  <2>3. \A h \in Convs : h # g => worker'[h] = worker[h]
    BY <1>2 DEF Asks, OnlyWorker
  <2> HIDE DEF RelayTypes, ConvSet
  <2> QED BY <2>1, <2>2, <2>3
<1>3. ASSUME NEW g \in Convs, IsAnswered(g) PROVE ConvInv'
  <2>1. UNCHANGED <<current, conv, started>>
    BY <1>3 DEF IsAnswered, sessionVars
  <2>2. conv[g].life # "unused"
    BY <1>3 DEF IsAnswered, SessionInv, QueryInv, Connected
  <2>3. \A h \in Convs : h # g => worker'[h] = worker[h]
    BY <1>3 DEF IsAnswered, OnlyWorker
  <2> HIDE DEF RelayTypes, ConvSet
  <2> QED BY <2>1, <2>2, <2>3
<1>4. ASSUME NEW g \in Convs, WorkerEnds(g) PROVE ConvInv'
  BY <1>4 DEF WorkerEnds, Close, Dead, Absent, sessionVars, clientVars, workerVars
<1>5. ASSUME NEW g \in Convs, RefusesQuery(g) PROVE ConvInv'
  BY <1>5 DEF RefusesQuery, sessionVars, clientVars, workerVars
<1>6. ASSUME NEW g \in Convs, PutsQuery(g) PROVE ConvInv'
  <2>1. UNCHANGED <<current, started, worker>>
    BY <1>6 DEF PutsQuery
  <2>2. \A h \in Convs : conv'[h].service = conv[h].service /\ conv'[h].life = conv[h].life
    BY <1>6 DEF PutsQuery
  <2>3. \A h \in Convs : h # g => conv'[h] = conv[h]
    BY <1>6 DEF PutsQuery
  <2>4. conv[g].life # "unused"
    BY <1>6 DEF PutsQuery, SessionInv, QueryInv, Connected
  <2> HIDE DEF RelayTypes, ConvSet
  <2> QED BY <2>1, <2>2, <2>3, <2>4
<1>7. ASSUME NEW g \in Convs, WorkerExited(g) PROVE ConvInv'
  <2>1. conv[g].service \in Services /\ current[conv[g].service] = g
    BY <1>7 DEF WorkerExited
  <2>2. \A h \in Convs : h # g => conv'[h] = conv[h]
    BY <1>7 DEF WorkerExited
  <2>3. conv'[g] = Freed(g) /\ UNCHANGED <<worker, started>>
    BY <1>7 DEF WorkerExited, workerVars
  <2>4. conv'[g].service = conv[g].service /\ conv'[g].life = "freed"
    BY <2>3, FreedFields
  <2>5. \A t \in Services : current'[t] = IF t = conv[g].service THEN None ELSE current[t]
    BY <1>7 DEF WorkerExited
  <2> HIDE DEF RelayTypes, ConvSet
  <2> QED BY <2>1, <2>2, <2>3, <2>4, <2>5
<1>8. ASSUME NEW g \in Convs, ConversationFails(g) PROVE ConvInv'
  BY <1>8 DEF ConversationFails, Close, Signal, sessionVars, clientVars, workerVars
<1>81. ASSUME NEW g \in Convs, StopOtherConversations(g) PROVE ConvInv'
  <2>1. /\ UNCHANGED <<current, started, worker>>
        /\ \A h \in Convs :
              /\ conv'[h].service = conv[h].service /\ conv'[h].pending = conv[h].pending
              /\ \/ conv'[h].life = conv[h].life
                 \/ conv[h].life = "live" /\ conv'[h].life = "stopping"
    BY <1>81, OthersStop
  <2> QED BY <2>1
<1>9. CASE IgnoresAnswer
  BY <1>9 DEF IgnoresAnswer, Arrived, Take, sessionVars, clientVars, workerVars
<1>10. ASSUME NEW g \in Convs, GivesAnswer(g) PROVE ConvInv'
  BY <1>10 DEF GivesAnswer, Arrived, Take, sessionVars, clientVars, workerVars
<1>11. ASSUME NEW s \in Services \ {Autologin}, Begins(s) PROVE ConvInv'
  <2>1. NewConv(s).service = s /\ NewConv(s).life = "live" /\ NewConv(s).pending = None
    BY DEF NewConv
  <2>2. StartConversation(s) /\ UNCHANGED <<convOf, asked>>
    BY <1>11 DEF Begins
  <2>3. /\ started' = started + 1 /\ started' \in Convs
        /\ \A t \in Services : current'[t] = IF t = s THEN started' ELSE current[t]
        /\ conv'[started'] = NewConv(s) /\ worker'[started'].state = "none"
        /\ call'[started'] = call[started'] /\ reply'[started'] = reply[started']
    BY <2>2, Started
  <2>4. ASSUME NEW h \in Convs, h # started', h = current[s]
        PROVE  /\ conv'[h].life = "freed" /\ conv'[h].pending = None
               /\ worker'[h].state = "dead" /\ call'[h] = None /\ reply'[h] = None
    BY <2>2, <2>4, Started, FreedFields, WorkerRecords
  <2>5. ASSUME NEW h \in Convs, h # started', h # current[s]
        PROVE  /\ conv'[h] = conv[h] /\ worker'[h] = worker[h]
               /\ call'[h] = call[h] /\ reply'[h] = reply[h]
    BY <2>2, <2>5, Started
  <2>6. started \in Nat /\ \A h \in Convs : h \in Nat
    BY DEF Convs
  <2>7. conv[started'].life = "unused"
    BY <2>2, Started
  <2>8. \A t \in Services : current[t] # started'
    BY <2>2, Started
  <2> HIDE DEF RelayTypes, ConvSet
  <2>9. ASSUME NEW t \in Services, current'[t] # None
        PROVE  conv'[current'[t]].service = t /\ conv'[current'[t]].life \in {"live", "stopping"}
    <3>1. CASE t = s
      BY <2>1, <2>3, <3>1
    <3>2. CASE t # s
      <4>1. current'[t] = current[t] /\ current[t] # None /\ current[t] \in Convs
        BY <2>3, <2>9, <3>2
      <4>2. current[t] # started' /\ current[t] # current[s]
        BY <2>8, <3>2, <4>1
      <4> QED BY <2>5, <4>1, <4>2
    <3> QED BY <3>1, <3>2
  <2>10. ASSUME NEW h \in Convs, conv'[h].life \in {"live", "stopping"}
        PROVE  conv'[h].service \in Services /\ current'[conv'[h].service] = h
    <3>1. CASE h = started'
      BY <2>1, <2>3, <3>1
    <3>2. CASE h # started'
      BY <2>3, <2>4, <2>5, <2>10, <3>2
    <3> QED BY <3>1, <3>2
  <2>11. ASSUME NEW h \in Convs, h > started' PROVE conv'[h].life = "unused"
    <3>0. h \in Nat /\ started \in Nat /\ started' = started + 1 /\ h > started'
      BY <2>3, <2>6, <2>11
    <3>1. h > started /\ h # started'
      BY ONLY <3>0
    <3>2. conv[h].life = "unused" /\ h # current[s]
      BY <3>1
    <3> QED BY <2>5, <3>1, <3>2
  <2>12. ASSUME NEW h \in Convs, conv'[h].life = "unused"
        PROVE  worker'[h].state = "none" /\ conv'[h].pending = None
    BY <2>1, <2>3, <2>4, <2>5, <2>12
  <2> QED BY <2>9, <2>10, <2>11, <2>12
<1>12. ASSUME NEW s \in Services \ {Autologin}, Refuses(s) PROVE ConvInv'
  BY <1>12 DEF Refuses, Arrived, Take, CanStart, Signal, sessionVars, clientVars, workerVars
<1>13. CASE HandleCancel
  BY <1>13 DEF HandleCancel, Arrived, Take, sessionVars, clientVars, workerVars
<1>14. CASE OnResetSession
  <2>1. Dead.state = "dead"
    BY WorkerRecords
  <2>2. current' = [t \in Services |-> None] /\ UNCHANGED started
    BY <1>14 DEF OnResetSession
  <2>3. ASSUME NEW h \in Convs, conv[h].life \in {"live", "stopping"}
        PROVE  conv'[h].life = "freed" /\ conv'[h].service = conv[h].service
    BY <1>14, <2>3, ResetFrees, FreedFields
  <2>4. ASSUME NEW h \in Convs, conv[h].life \notin {"live", "stopping"}
        PROVE  conv'[h] = conv[h] /\ worker'[h] = worker[h]
    BY <1>14, <2>4, ResetFrees
  <2> HIDE DEF RelayTypes, ConvSet
  <2> QED BY <2>2, <2>3, <2>4
<1>15. CASE HearsReset
  BY <1>15 DEF HearsReset, sessionVars, clientVars, workerVars
<1>16. ASSUME NEW s \in Services, HearsEnd(s) PROVE ConvInv'
  BY <1>16 DEF HearsEnd, sessionVars, clientVars, workerVars
<1>17. ASSUME NEW s \in Services, HearsQuestion(s) PROVE ConvInv'
  BY <1>17 DEF HearsQuestion, sessionVars, clientVars, workerVars
<1>18. CASE ClientCancels
  BY <1>18 DEF ClientCancels, Send, sessionVars, clientVars, workerVars
<1>19. ASSUME NEW s \in Services, ClientBegins(s) PROVE ConvInv'
  BY <1>19 DEF ClientBegins, Send, sessionVars, clientVars, workerVars
<1>20. ASSUME NEW s \in Services, ClientAnswers(s) PROVE ConvInv'
  BY <1>20 DEF ClientAnswers, Send, sessionVars, clientVars, workerVars
<1>21. ASSUME NEW names \in SUBSET Extensions, ClientConnects(names) PROVE ConvInv'
  BY <1>21 DEF ClientConnects, EnableExtensions, sessionVars, clientVars, workerVars
<1>22. CASE StartByManager
  <2>1. NewConv(Autologin).service = Autologin /\ NewConv(Autologin).life = "live" /\ NewConv(Autologin).pending = None
    BY DEF NewConv
  <2>2. StartConversation(Autologin) /\ UNCHANGED <<convOf, asked>>
    BY <1>22 DEF StartByManager
  <2>3. /\ started' = started + 1 /\ started' \in Convs
        /\ \A t \in Services : current'[t] = IF t = Autologin THEN started' ELSE current[t]
        /\ conv'[started'] = NewConv(Autologin) /\ worker'[started'].state = "none"
        /\ call'[started'] = call[started'] /\ reply'[started'] = reply[started']
    BY <2>2, Started
  <2>4. ASSUME NEW h \in Convs, h # started', h = current[Autologin]
        PROVE  /\ conv'[h].life = "freed" /\ conv'[h].pending = None
               /\ worker'[h].state = "dead" /\ call'[h] = None /\ reply'[h] = None
    BY <2>2, <2>4, Started, FreedFields, WorkerRecords
  <2>5. ASSUME NEW h \in Convs, h # started', h # current[Autologin]
        PROVE  /\ conv'[h] = conv[h] /\ worker'[h] = worker[h]
               /\ call'[h] = call[h] /\ reply'[h] = reply[h]
    BY <2>2, <2>5, Started
  <2>6. started \in Nat /\ \A h \in Convs : h \in Nat
    BY DEF Convs
  <2>7. conv[started'].life = "unused"
    BY <2>2, Started
  <2>8. \A t \in Services : current[t] # started'
    BY <2>2, Started
  <2> HIDE DEF RelayTypes, ConvSet
  <2>9. ASSUME NEW t \in Services, current'[t] # None
        PROVE  conv'[current'[t]].service = t /\ conv'[current'[t]].life \in {"live", "stopping"}
    <3>1. CASE t = Autologin
      BY <2>1, <2>3, <3>1
    <3>2. CASE t # Autologin
      <4>1. current'[t] = current[t] /\ current[t] # None /\ current[t] \in Convs
        BY <2>3, <2>9, <3>2
      <4>2. current[t] # started' /\ current[t] # current[Autologin]
        BY <2>8, <3>2, <4>1
      <4> QED BY <2>5, <4>1, <4>2
    <3> QED BY <3>1, <3>2
  <2>10. ASSUME NEW h \in Convs, conv'[h].life \in {"live", "stopping"}
        PROVE  conv'[h].service \in Services /\ current'[conv'[h].service] = h
    <3>1. CASE h = started'
      BY <2>1, <2>3, <3>1
    <3>2. CASE h # started'
      BY <2>3, <2>4, <2>5, <2>10, <3>2
    <3> QED BY <3>1, <3>2
  <2>11. ASSUME NEW h \in Convs, h > started' PROVE conv'[h].life = "unused"
    <3>0. h \in Nat /\ started \in Nat /\ started' = started + 1 /\ h > started'
      BY <2>3, <2>6, <2>11
    <3>1. h > started /\ h # started'
      BY ONLY <3>0
    <3>2. conv[h].life = "unused" /\ h # current[Autologin]
      BY <3>1
    <3> QED BY <2>5, <3>1, <3>2
  <2>12. ASSUME NEW h \in Convs, conv'[h].life = "unused"
        PROVE  worker'[h].state = "none" /\ conv'[h].pending = None
    BY <2>1, <2>3, <2>4, <2>5, <2>12
  <2> QED BY <2>9, <2>10, <2>11, <2>12
<1>23. CASE UNCHANGED vars
  BY <1>23 DEF vars, sessionVars, workerVars, clientVars
<1> HIDE <1>0 DEF RelayTypes, ConvInv, ConvSet
<1> QED BY <1>1, <1>2, <1>3, <1>4, <1>5, <1>6, <1>7, <1>8, <1>81, <1>9, <1>10, <1>11, <1>12,
           <1>13, <1>14, <1>15, <1>16, <1>17, <1>18, <1>19, <1>20, <1>21, <1>22, <1>23,
           StepCases, Zenon

\* A question under way stays in one place.
LEMMA NextQueryInv ==
    ASSUME RelayTypes, SessionInv, [Next]_vars PROVE QueryInv'
<1> USE RelayAssumptions DEF RelayTypes, QueryInv, Connected, Latest
<1>0. QueryInv /\ ConvInv /\ (\A t \in Services : current[t] \in Convs \cup {None}) /\ None \notin Convs
  BY DEF SessionInv, Convs
<1> USE <1>0 DEF ConvSet
<1>1. ASSUME NEW g \in Convs, Works(g) PROVE QueryInv'
  BY <1>1 DEF Works, OnlyWorker, sessionVars, clientVars, workerVars
<1>2. ASSUME NEW g \in Convs, Asks(g) PROVE QueryInv'
  <2>1. \A p \in Queries : convOf[p] # None => p <= asked
    OBVIOUS
  <2>2. PICK n \in Queries : n = asked + 1 /\ asked' = n /\ asked \in Nat
    BY <1>2 DEF Asks, Queries
  <2>3. \A p \in Queries : convOf'[p] = IF p = n THEN g ELSE convOf[p]
    BY <1>2, <2>2 DEF Asks
  <2> HIDE DEF RelayTypes, ConvSet, QueryInv
  <2>4. \A p \in Queries : convOf'[p] # None => p <= asked'
    BY <2>1, <2>2, <2>3 DEF Queries
  <2>5. ASSUME NEW h \in Convs, h # g PROVE \A p \in Queries : Latest(h, p) => Latest(h, p)'
    <3>1. \A p \in Queries : convOf'[p] = h <=> convOf[p] = h
      BY <2>1, <2>2, <2>3, <2>5 DEF Queries
    <3> QED BY <3>1
  <2>6. Latest(g, n)'
    <3>1. convOf'[n] = g /\ \A p \in Queries : convOf'[p] = g => p <= n
      BY <2>2, <2>3, <2>4
    <3> QED BY <3>1
  <2>7. call[g] = None /\ reply[g] = None /\ conv[g].pending = None
    BY <1>2 DEF Asks, QueryInv
  <2>8. /\ UNCHANGED <<conv, reply>> /\ call'[g] = n /\ n # None
        /\ worker'[g].state = "asking" /\ worker'[g].batch # <<>> /\ Connected(g)
        /\ \A h \in Convs : h # g => worker'[h] = worker[h] /\ call'[h] = call[h]
    BY <1>2, <2>2 DEF Asks, OnlyWorker, sessionVars, RelayTypes, Queries
  <2>9. \A h \in Convs : (call[h] # None => call[h] \in Queries)
                         /\ (conv[h].pending # None => conv[h].pending \in Queries)
    BY DEF RelayTypes, ConvSet
  <2>10. ASSUME NEW h \in Convs, h # g, conv[h].pending # None
        PROVE convOf'[conv[h].pending] = convOf[conv[h].pending]
    BY <2>2, <2>3, <2>9, <2>10 DEF QueryInv
  <2> HIDE DEF Latest
  <2> USE DEF QueryInv
  <2> QED BY <2>4, <2>5, <2>6, <2>7, <2>8, <2>9, <2>10
<1>3. ASSUME NEW g \in Convs, IsAnswered(g) PROVE QueryInv'
  BY <1>3 DEF IsAnswered, OnlyWorker, sessionVars, clientVars, workerVars
<1>4. ASSUME NEW g \in Convs, WorkerEnds(g) PROVE QueryInv'
  BY <1>4 DEF WorkerEnds, Close, Dead, Absent, sessionVars, clientVars, workerVars
<1>5. ASSUME NEW g \in Convs, RefusesQuery(g) PROVE QueryInv'
  <2>1. [query |-> call[g], ok |-> FALSE] # None
    <3>1. [query |-> call[g], ok |-> FALSE] \in [query : Nat, ok : BOOLEAN]
      BY <1>5 DEF RefusesQuery, Queries
    <3> QED BY <3>1
  <2> QED BY <1>5, <2>1 DEF RefusesQuery, sessionVars
<1>6. ASSUME NEW g \in Convs, PutsQuery(g) PROVE QueryInv'
  BY <1>6 DEF PutsQuery, sessionVars, clientVars, workerVars
<1>7. ASSUME NEW g \in Convs, WorkerExited(g) PROVE QueryInv'
  BY <1>7 DEF WorkerExited, Freed, Signal, sessionVars, clientVars, workerVars
<1>8. ASSUME NEW g \in Convs, ConversationFails(g) PROVE QueryInv'
  BY <1>8 DEF ConversationFails, Close, Signal, sessionVars, clientVars, workerVars
<1>81. ASSUME NEW g \in Convs, StopOtherConversations(g) PROVE QueryInv'
  <2>1. /\ UNCHANGED <<current, worker, convOf, asked>>
        /\ \A h \in Convs :
              /\ conv'[h].pending = conv[h].pending
              /\ \/ conv'[h].life = conv[h].life /\ call'[h] = call[h] /\ reply'[h] = reply[h]
                 \/ conv'[h].life = "stopping" /\ call'[h] = None /\ reply'[h] = None
    BY <1>81, OthersStop
  <2> QED BY <2>1
<1>9. CASE IgnoresAnswer
  BY <1>9 DEF IgnoresAnswer, Arrived, Take, sessionVars, clientVars, workerVars
<1>10. ASSUME NEW g \in Convs, GivesAnswer(g) PROVE QueryInv'
  <2>1. Head(messages) \in MessageSet
    BY <1>10, Taken DEF GivesAnswer, Arrived
  <2>2. Head(messages).answer \in Answers
    BY <1>10, <2>1 DEF GivesAnswer, Arrived, MessageSet
  <2>3. Head(messages).answer # None
    BY <2>2 DEF Answers, Queries
  <2>4. /\ \A h \in Convs : h # g => conv'[h] = conv[h] /\ reply'[h] = reply[h]
        /\ conv'[g].life = conv[g].life /\ conv'[g].pending = None
        /\ reply'[g] = IF Connected(g) THEN Head(messages).answer ELSE None
    BY <1>10 DEF GivesAnswer
  <2>5. UNCHANGED <<worker, call, convOf, asked>> /\ conv[g].pending # None
    BY <1>10 DEF GivesAnswer
  <2> QED BY <2>3, <2>4, <2>5
<1>11. ASSUME NEW s \in Services \ {Autologin}, Begins(s) PROVE QueryInv'
  <2>1. NewConv(s).service = s /\ NewConv(s).life = "live" /\ NewConv(s).pending = None
    BY DEF NewConv
  <2>2. StartConversation(s) /\ UNCHANGED <<convOf, asked>>
    BY <1>11 DEF Begins
  <2>3. /\ started' = started + 1 /\ started' \in Convs
        /\ \A t \in Services : current'[t] = IF t = s THEN started' ELSE current[t]
        /\ conv'[started'] = NewConv(s) /\ worker'[started'].state = "none"
        /\ call'[started'] = call[started'] /\ reply'[started'] = reply[started']
    BY <2>2, Started
  <2>4. ASSUME NEW h \in Convs, h # started', h = current[s]
        PROVE  /\ conv'[h].life = "freed" /\ conv'[h].pending = None
               /\ worker'[h].state = "dead" /\ call'[h] = None /\ reply'[h] = None
    BY <2>2, <2>4, Started, FreedFields, WorkerRecords
  <2>5. ASSUME NEW h \in Convs, h # started', h # current[s]
        PROVE  /\ conv'[h] = conv[h] /\ worker'[h] = worker[h]
               /\ call'[h] = call[h] /\ reply'[h] = reply[h]
    BY <2>2, <2>5, Started
  <2>6. started \in Nat /\ \A h \in Convs : h \in Nat
    BY DEF Convs
  <2>7. conv[started'].life = "unused"
    BY <2>2, Started
  <2>8. \A t \in Services : current[t] # started'
    BY <2>2, Started
  <2> HIDE DEF RelayTypes, ConvSet
  <2>9. call[started'] = None /\ reply[started'] = None /\ worker[started'].state = "none"
    BY <2>3, <2>7 DEF ConvInv
  <2> QED BY <2>1, <2>2, <2>3, <2>4, <2>5, <2>7, <2>9
<1>12. ASSUME NEW s \in Services \ {Autologin}, Refuses(s) PROVE QueryInv'
  BY <1>12 DEF Refuses, Arrived, Take, CanStart, Signal, sessionVars, clientVars, workerVars
<1>13. CASE HandleCancel
  BY <1>13 DEF HandleCancel, Arrived, Take, sessionVars, clientVars, workerVars
<1>14. CASE OnResetSession
  <2>1. Dead.state = "dead"
    BY WorkerRecords
  <2>2. UNCHANGED <<convOf, asked>>
    BY <1>14 DEF OnResetSession
  <2> QED BY <1>14, <2>1, <2>2, ResetFrees, FreedFields
<1>15. CASE HearsReset
  BY <1>15 DEF HearsReset, sessionVars, clientVars, workerVars
<1>16. ASSUME NEW s \in Services, HearsEnd(s) PROVE QueryInv'
  BY <1>16 DEF HearsEnd, sessionVars, clientVars, workerVars
<1>17. ASSUME NEW s \in Services, HearsQuestion(s) PROVE QueryInv'
  BY <1>17 DEF HearsQuestion, sessionVars, clientVars, workerVars
<1>18. CASE ClientCancels
  BY <1>18 DEF ClientCancels, Send, sessionVars, clientVars, workerVars
<1>19. ASSUME NEW s \in Services, ClientBegins(s) PROVE QueryInv'
  BY <1>19 DEF ClientBegins, Send, sessionVars, clientVars, workerVars
<1>20. ASSUME NEW s \in Services, ClientAnswers(s) PROVE QueryInv'
  BY <1>20 DEF ClientAnswers, Send, sessionVars, clientVars, workerVars
<1>21. ASSUME NEW names \in SUBSET Extensions, ClientConnects(names) PROVE QueryInv'
  BY <1>21 DEF ClientConnects, EnableExtensions, sessionVars, clientVars, workerVars
<1>22. CASE StartByManager
  <2>1. NewConv(Autologin).service = Autologin /\ NewConv(Autologin).life = "live" /\ NewConv(Autologin).pending = None
    BY DEF NewConv
  <2>2. StartConversation(Autologin) /\ UNCHANGED <<convOf, asked>>
    BY <1>22 DEF StartByManager
  <2>3. /\ started' = started + 1 /\ started' \in Convs
        /\ \A t \in Services : current'[t] = IF t = Autologin THEN started' ELSE current[t]
        /\ conv'[started'] = NewConv(Autologin) /\ worker'[started'].state = "none"
        /\ call'[started'] = call[started'] /\ reply'[started'] = reply[started']
    BY <2>2, Started
  <2>4. ASSUME NEW h \in Convs, h # started', h = current[Autologin]
        PROVE  /\ conv'[h].life = "freed" /\ conv'[h].pending = None
               /\ worker'[h].state = "dead" /\ call'[h] = None /\ reply'[h] = None
    BY <2>2, <2>4, Started, FreedFields, WorkerRecords
  <2>5. ASSUME NEW h \in Convs, h # started', h # current[Autologin]
        PROVE  /\ conv'[h] = conv[h] /\ worker'[h] = worker[h]
               /\ call'[h] = call[h] /\ reply'[h] = reply[h]
    BY <2>2, <2>5, Started
  <2>6. started \in Nat /\ \A h \in Convs : h \in Nat
    BY DEF Convs
  <2>7. conv[started'].life = "unused"
    BY <2>2, Started
  <2>8. \A t \in Services : current[t] # started'
    BY <2>2, Started
  <2> HIDE DEF RelayTypes, ConvSet
  <2>9. call[started'] = None /\ reply[started'] = None /\ worker[started'].state = "none"
    BY <2>3, <2>7 DEF ConvInv
  <2> QED BY <2>1, <2>2, <2>3, <2>4, <2>5, <2>7, <2>9
<1>23. CASE UNCHANGED vars
  BY <1>23 DEF vars, sessionVars, workerVars, clientVars
<1> HIDE <1>0 DEF RelayTypes, QueryInv, Connected, Latest, ConvSet
<1> QED BY <1>1, <1>2, <1>3, <1>4, <1>5, <1>6, <1>7, <1>8, <1>81, <1>9, <1>10, <1>11, <1>12,
           <1>13, <1>14, <1>15, <1>16, <1>17, <1>18, <1>19, <1>20, <1>21, <1>22, <1>23,
           StepCases, Zenon

\* No step aborts.
LEMMA NextNotAborted ==
    ASSUME RelayTypes, SessionInv, [Next]_vars PROVE ~aborted'
<1>0. ~aborted
  BY DEF SessionInv
<1> USE <1>0
<1>1. ASSUME NEW g \in Convs, Works(g) PROVE ~aborted'
  BY <1>1 DEF Works, OnlyWorker, sessionVars, clientVars, workerVars
<1>2. ASSUME NEW g \in Convs, Asks(g) PROVE ~aborted'
  BY <1>2 DEF Asks, OnlyWorker, sessionVars, clientVars, workerVars
<1>3. ASSUME NEW g \in Convs, IsAnswered(g) PROVE ~aborted'
  BY <1>3 DEF IsAnswered, OnlyWorker, sessionVars, clientVars, workerVars
<1>4. ASSUME NEW g \in Convs, WorkerEnds(g) PROVE ~aborted'
  BY <1>4 DEF WorkerEnds, Close, Dead, Absent, sessionVars, clientVars, workerVars
<1>5. ASSUME NEW g \in Convs, RefusesQuery(g) PROVE ~aborted'
  BY <1>5 DEF RefusesQuery, sessionVars, clientVars, workerVars
<1>6. ASSUME NEW g \in Convs, PutsQuery(g) PROVE ~aborted'
  BY <1>6 DEF PutsQuery, sessionVars, clientVars, workerVars
<1>7. ASSUME NEW g \in Convs, WorkerExited(g) PROVE ~aborted'
  BY <1>7 DEF WorkerExited, Freed, Signal, sessionVars, clientVars, workerVars
<1>8. ASSUME NEW g \in Convs, ConversationFails(g) PROVE ~aborted'
  BY <1>8 DEF ConversationFails, Close, Signal, sessionVars, clientVars, workerVars
<1>81. ASSUME NEW g \in Convs, StopOtherConversations(g) PROVE ~aborted'
  BY <1>81, OthersStop
<1>9. CASE IgnoresAnswer
  BY <1>9 DEF IgnoresAnswer, Arrived, Take, sessionVars, clientVars, workerVars
<1>10. ASSUME NEW g \in Convs, GivesAnswer(g) PROVE ~aborted'
  BY <1>10 DEF GivesAnswer, Arrived, Take, sessionVars, clientVars, workerVars
<1>11. ASSUME NEW s \in Services \ {Autologin}, Begins(s) PROVE ~aborted'
  BY <1>11 DEF Begins, Arrived, Take, CanStart, StartConversation, Free, Close, Freed, NewConv,
     Dead, Absent, sessionVars, clientVars, workerVars
<1>12. ASSUME NEW s \in Services \ {Autologin}, Refuses(s) PROVE ~aborted'
  BY <1>12 DEF Refuses, Arrived, Take, CanStart, Signal, sessionVars, clientVars, workerVars
<1>13. CASE HandleCancel
  BY <1>13 DEF HandleCancel, Arrived, Take, sessionVars, clientVars, workerVars
<1>14. CASE OnResetSession
  BY <1>14 DEF OnResetSession, Free, Close, Freed, Dead, Absent, Signal, sessionVars, clientVars,
     workerVars
<1>15. CASE HearsReset
  BY <1>15 DEF HearsReset, sessionVars, clientVars, workerVars
<1>16. ASSUME NEW s \in Services, HearsEnd(s) PROVE ~aborted'
  BY <1>16 DEF HearsEnd, sessionVars, clientVars, workerVars
<1>17. ASSUME NEW s \in Services, HearsQuestion(s) PROVE ~aborted'
  BY <1>17 DEF HearsQuestion, sessionVars, clientVars, workerVars
<1>18. CASE ClientCancels
  BY <1>18 DEF ClientCancels, Send, sessionVars, clientVars, workerVars
<1>19. ASSUME NEW s \in Services, ClientBegins(s) PROVE ~aborted'
  BY <1>19 DEF ClientBegins, Send, sessionVars, clientVars, workerVars
<1>20. ASSUME NEW s \in Services, ClientAnswers(s) PROVE ~aborted'
  BY <1>20 DEF ClientAnswers, Send, sessionVars, clientVars, workerVars
<1>21. ASSUME NEW names \in SUBSET Extensions, ClientConnects(names) PROVE ~aborted'
  BY <1>21 DEF ClientConnects, EnableExtensions, sessionVars, clientVars, workerVars
<1>22. CASE StartByManager
  BY <1>22 DEF StartByManager, StartConversation, Free, Close, Freed, NewConv, Dead, Absent,
     sessionVars, clientVars, workerVars
<1>23. CASE UNCHANGED vars
  BY <1>23 DEF vars, sessionVars, workerVars, clientVars
<1> HIDE <1>0 
<1> QED BY <1>1, <1>2, <1>3, <1>4, <1>5, <1>6, <1>7, <1>8, <1>81, <1>9, <1>10, <1>11, <1>12,
           <1>13, <1>14, <1>15, <1>16, <1>17, <1>18, <1>19, <1>20, <1>21, <1>22, <1>23,
           StepCases, Zenon

-----------------------------------------------------------------------------
\* Workers and the session alone: the inductive invariant, and what follows.
LEMMA InitSessionInv == ASSUME Init PROVE RelayTypes /\ SessionInv
<1> USE RelayAssumptions
<1>1. Absent \in WorkerSet /\ NoConv \in ConvSet /\ NoConv.life = "unused" /\ NoConv.pending = None
      /\ Absent.state = "none"
  <2>1. <<>> \in Seq(Styles) /\ <<>> \in Seq(Queries \cup {None})
    BY EmptySeq
  <2> QED BY <2>1 DEF Absent, NoConv, WorkerSet, ConvSet, States
<1>2. RelayTypes
  <2>1. <<>> \in Seq(SignalSet) /\ <<>> \in Seq(MessageSet)
    BY EmptySeq
  <2>2. /\ signals \in Seq(SignalSet) /\ messages \in Seq(MessageSet)
        /\ conv \in [Convs -> ConvSet] /\ worker \in [Convs -> WorkerSet]
    BY <1>1, <2>1 DEF Init
  <2>0. started \in 0..MaxConvs /\ asked \in 0..MaxQueries
    BY DEF Init
  <2>3. /\ enabled \subseteq Extensions /\ client \in BOOLEAN /\ reset \in BOOLEAN /\ aborted \in BOOLEAN
    BY DEF Init
  <2>4. /\ current \in [Services -> Convs \cup {None}] /\ call \in [Convs -> Queries \cup {None}]
        /\ reply \in [Convs -> Answers \cup {None}] /\ convOf \in [Queries -> Convs \cup {None}]
        /\ shown \in [Services -> QuestionSet \cup {None}]
        /\ view \in [Services -> {"none", "begun", "failed", "cancelling"}]
    BY DEF Init
  <2> QED BY <2>0, <2>2, <2>3, <2>4 DEF RelayTypes
<1>3. ConvInv
  BY <1>1 DEF Init, ConvInv
<1>4. QueryInv
  BY <1>1 DEF Init, QueryInv
<1> QED BY <1>2, <1>3, <1>4 DEF SessionInv, Init

\* Together they hold in every reachable state.
LEMMA SessionInvariant == Spec => [](RelayTypes /\ SessionInv)
<1>1. RelayTypes /\ SessionInv /\ [Next]_vars => (RelayTypes /\ SessionInv)'
  BY NextTypes, NextConvInv, NextQueryInv, NextNotAborted DEF SessionInv
<1> QED BY <1>1, InitSessionInv, PTL DEF Spec

\* The assertion of set_pending_query never fails, whatever the client does and
\* whenever workers die: what was answered is forgotten before the next question.
THEOREM PendingQueryIsFree == Spec => []NeverAborts
<1>1. RelayTypes /\ SessionInv => NeverAborts
  BY DEF SessionInv, NeverAborts
<1> QED BY <1>1, SessionInvariant, PTL

\* A worker's synchronous call, which has no time-out, is always on its way, pending in
\* the conversation that the client's answers go to, or answered.
THEOREM EveryQueryIsHeld == Spec => []NoQueryLost
<1>1. RelayTypes /\ SessionInv => NoQueryLost
  <2> SUFFICES ASSUME RelayTypes, SessionInv, NEW g \in Convs, NEW q \in Queries, Waiting(g, q)
               PROVE  \/ call[g] = q
                      \/ reply[g] # None
                      \/ current[conv[g].service] = g /\ conv[g].pending = q
    BY DEF NoQueryLost
  <2>1. Connected(g) /\ worker[g].state = "asking" /\ current[conv[g].service] = g
    BY DEF Waiting, Connected, SessionInv, ConvInv
  <2>2. ASSUME NEW p \in Queries, Latest(g, p) PROVE p = q
    BY <2>2 DEF Waiting, Latest, Queries
  <2>3. CASE call[g] # None
    <3>1. call[g] \in Queries /\ Latest(g, call[g])
      BY <2>3 DEF RelayTypes, SessionInv, QueryInv
    <3> QED BY <2>2, <3>1
  <2>4. CASE conv[g].pending # None
    <3>1. conv[g].pending \in Queries /\ Latest(g, conv[g].pending)
      BY <2>1, <2>4 DEF RelayTypes, ConvSet, SessionInv, QueryInv
    <3> QED BY <2>1, <2>2, <3>1
  <2> QED BY <2>1, <2>3, <2>4 DEF SessionInv, QueryInv
<1> QED BY <1>1, SessionInvariant, PTL

-----------------------------------------------------------------------------
(* A client that begins in turn.                                           *)

\* What a signal says.
LEMMA SignalMeaning ==
    ASSUME NEW m \in SignalSet
    PROVE  /\ m.what \in Ends => m.service \in Services /\ m.query = None
           /\ m.what = "reset" => m.service = None /\ m.query = None
           /\ m.query # None => m \in QuestionSet
           /\ m.what \notin Ends \cup {"reset"} => m \in QuestionSet
           /\ m \in QuestionSet => /\ m.what \notin Ends \cup {"reset"} /\ m.service \in Services
                                   /\ m.query \in Queries /\ m.query # None
<1>1. Styles \cap (Ends \cup {"reset"}) = {} /\ None \notin Queries
  BY RelayAssumptions DEF Styles, Ends, Queries
<1>2. "reset" \notin Ends
  BY DEF Ends
<1> QED BY <1>1, <1>2 DEF SignalSet, QuestionSet

\* A worker that asks has its conversation in the table.
LEMMA ServiceOf ==
    ASSUME RelayTypes, SessionInv, NEW g \in Convs, call[g] # None
    PROVE  /\ conv[g].service \in Services /\ current[conv[g].service] = g
           /\ g # None /\ call[g] \in Queries /\ Latest(g, call[g])
<1>1. Connected(g) /\ Latest(g, call[g])
  BY DEF SessionInv, QueryInv
<1>2. g # None /\ call[g] \in Queries
  BY RelayAssumptions DEF RelayTypes, Convs
<1> QED BY <1>1, <1>2 DEF SessionInv, ConvInv, Connected

\* In turn, what is begun is not under way.
LEMMA NeverRefused ==
    ASSUME RelayTypes, BeginInv, NEW s \in Services \ {Autologin}, Refuses(s) PROVE FALSE
<1>1. 1 \in DOMAIN messages /\ Head(messages) = messages[1]
  BY Taken DEF Refuses, Arrived, RelayTypes
<1>2. IsBegin(1, s)
  BY <1>1 DEF Refuses, Arrived, IsBegin
<1>3. current[s] = None
  BY <1>1, <1>2 DEF BeginInv, NothingHeard
<1> QED BY <1>3 DEF Refuses, CanStart

\* An answer on its way names a question that was asked.
LEMMA AnswerNamesQuery ==
    ASSUME RelayTypes, NEW i \in DOMAIN messages, messages[i].what = "answer"
    PROVE  messages[i].answer.query \in Queries
<1>1. messages[i] \in MessageSet
  BY LenProperties, ElementOfSeq DEF RelayTypes
<1> QED BY <1>1 DEF MessageSet, Answers

\* What is not under way stays quiet.
LEMMA NextBeginInv ==
    ASSUME InTurn, RelayTypes, SessionInv, TurnInv, [Next]_vars PROVE BeginInv'
<1> USE RelayAssumptions DEF BeginInv, NothingHeard, IsSignal, IsQuestion, IsBegin, IsAnswer,
         IsCancel, IsReset
<1>0. BeginInv /\ StoppedInv /\ CancelInv
  BY DEF TurnInv
<1> USE <1>0
<1>1. ASSUME NEW g \in Convs, PutsQuery(g) PROVE BeginInv'
  <2>1. conv[g].service \in Services /\ current[conv[g].service] = g /\ g # None /\ call[g] \in Queries
    BY <1>1, ServiceOf DEF PutsQuery
  <2>2. PICK style \in Styles : signals' = Append(signals, [what |-> style, service |-> conv[g].service, query |-> call[g]])
    BY <1>1 DEF PutsQuery
  <2>3. /\ Len(signals) \in Nat /\ DOMAIN signals = 1..Len(signals)
        /\ Len(signals') = Len(signals) + 1 /\ DOMAIN signals' = 1..(Len(signals) + 1)
        /\ \A i \in 1..Len(signals) : signals'[i] = signals[i]
        /\ signals'[Len(signals) + 1] = [what |-> style, service |-> conv[g].service, query |-> call[g]]
    BY <2>1, <2>2, QuestionSignal, Appended DEF RelayTypes
  <2>4. client /\ UNCHANGED <<current, reset, messages, shown, view, client>>
    BY <1>1 DEF PutsQuery, clientVars
  <2> QED BY <2>1, <2>2, <2>3, <2>4
<1>2. ASSUME NEW g \in Convs, WorkerExited(g) PROVE BeginInv'
  <2>1. conv[g].service \in Services /\ current[conv[g].service] = g /\ g # None
    BY <1>2 DEF WorkerExited, SessionInv, ConvInv, Convs
  <2>2. client => /\ Len(signals) \in Nat /\ DOMAIN signals = 1..Len(signals)
                  /\ Len(signals') = Len(signals) + 1 /\ DOMAIN signals' = 1..(Len(signals) + 1)
                  /\ \A i \in 1..Len(signals) : signals'[i] = signals[i]
                  /\ signals'[Len(signals) + 1] = [what |-> "stopped", service |-> conv[g].service, query |-> None]
    BY <1>2, <2>1, EndSignal, Appended DEF WorkerExited, Signal, RelayTypes, Ends
  <2>3. ~client => signals' = signals
    BY <1>2 DEF WorkerExited, Signal
  <2>4. UNCHANGED <<reset, messages, shown, view, client>>
    BY <1>2 DEF WorkerExited, clientVars
  <2>5. \A t \in Services : current'[t] = IF t = conv[g].service THEN None ELSE current[t]
    BY <1>2 DEF WorkerExited, RelayTypes
  <2> QED BY <2>1, <2>2, <2>3, <2>4, <2>5
<1>3. ASSUME NEW g \in Convs, ConversationFails(g) PROVE BeginInv'
  <2>1. conv[g].service \in Services /\ current[conv[g].service] = g /\ g # None
    BY <1>3 DEF ConversationFails, SessionInv, ConvInv, Convs
  <2>2. client => /\ Len(signals) \in Nat /\ DOMAIN signals = 1..Len(signals)
                  /\ Len(signals') = Len(signals) + 1 /\ DOMAIN signals' = 1..(Len(signals) + 1)
                  /\ \A i \in 1..Len(signals) : signals'[i] = signals[i]
                  /\ signals'[Len(signals) + 1] = [what |-> "failed", service |-> conv[g].service, query |-> None]
    BY <1>3, <2>1, EndSignal, Appended DEF ConversationFails, Signal, RelayTypes, Ends
  <2>3. ~client => signals' = signals
    BY <1>3 DEF ConversationFails, Signal
  <2>4. UNCHANGED <<reset, messages, shown, view, client>>
    BY <1>3 DEF ConversationFails, clientVars
  <2>5. UNCHANGED current
    BY <1>3 DEF ConversationFails
  <2> QED BY <2>1, <2>2, <2>3, <2>4, <2>5
<1>4. CASE IgnoresAnswer
  <2>1. /\ Len(messages) \in Nat /\ DOMAIN messages = 1..Len(messages) /\ DOMAIN messages' = 1..(Len(messages) - 1)
        /\ 1 \in DOMAIN messages /\ Head(messages) = messages[1] /\ Len(messages') = Len(messages) - 1
        /\ \A i \in DOMAIN messages' : i \in Nat /\ i > 0 /\ i + 1 \in DOMAIN messages /\ messages'[i] = messages[i + 1]
    BY <1>4, Taken DEF IgnoresAnswer, Arrived, Take, RelayTypes
  <2>2. messages[1].what = "answer"
    BY <1>4, <2>1 DEF IgnoresAnswer, Arrived
  <2>3. UNCHANGED <<current, reset, signals, shown, view, client>>
    BY <1>4 DEF IgnoresAnswer, sessionVars, clientVars
  <2> QED BY <2>1, <2>2, <2>3
<1>5. ASSUME NEW g \in Convs, GivesAnswer(g) PROVE BeginInv'
  <2>1. /\ Len(messages) \in Nat /\ DOMAIN messages = 1..Len(messages) /\ DOMAIN messages' = 1..(Len(messages) - 1)
        /\ 1 \in DOMAIN messages /\ Head(messages) = messages[1] /\ Len(messages') = Len(messages) - 1
        /\ \A i \in DOMAIN messages' : i \in Nat /\ i > 0 /\ i + 1 \in DOMAIN messages /\ messages'[i] = messages[i + 1]
    BY <1>5, Taken DEF GivesAnswer, Arrived, Take, RelayTypes
  <2>2. messages[1].what = "answer"
    BY <1>5, <2>1 DEF GivesAnswer, Arrived
  <2>3. UNCHANGED <<current, reset, signals, shown, view, client>>
    BY <1>5 DEF GivesAnswer, sessionVars, clientVars
  <2> QED BY <2>1, <2>2, <2>3
<1>6. ASSUME NEW s \in Services \ {Autologin}, Begins(s) PROVE BeginInv'
  <2>1. /\ Len(messages) \in Nat /\ DOMAIN messages = 1..Len(messages) /\ DOMAIN messages' = 1..(Len(messages) - 1)
        /\ 1 \in DOMAIN messages /\ Head(messages) = messages[1] /\ Len(messages') = Len(messages) - 1
        /\ \A i \in DOMAIN messages' : i \in Nat /\ i > 0 /\ i + 1 \in DOMAIN messages /\ messages'[i] = messages[i + 1]
    BY <1>6, Taken DEF Begins, Arrived, Take, RelayTypes
  <2>2. messages[1].what = "begin" /\ messages[1].service = s
    BY <1>6, <2>1 DEF Begins, Arrived
  <2>3. UNCHANGED <<reset, signals, shown, view, client>>
    BY <1>6 DEF Begins, clientVars
  <2>4. /\ started' \in Convs /\ started' # None /\ \A t \in Services : current'[t] = IF t = s THEN started' ELSE current[t]
    BY <1>6, Started DEF Begins, SessionInv, Convs, RelayTypes
  <2> QED BY <2>1, <2>2, <2>3, <2>4
<1>7. ASSUME NEW s \in Services \ {Autologin}, Refuses(s) PROVE BeginInv'
  <2>1. FALSE
    BY <1>7, NeverRefused DEF TurnInv
  <2> QED BY <2>1
<1>8. CASE HandleCancel
  <2>1. /\ Len(messages) \in Nat /\ DOMAIN messages = 1..Len(messages) /\ DOMAIN messages' = 1..(Len(messages) - 1)
        /\ 1 \in DOMAIN messages /\ Head(messages) = messages[1] /\ Len(messages') = Len(messages) - 1
        /\ \A i \in DOMAIN messages' : i \in Nat /\ i > 0 /\ i + 1 \in DOMAIN messages /\ messages'[i] = messages[i + 1]
    BY <1>8, Taken DEF HandleCancel, Arrived, Take, RelayTypes
  <2>2. messages[1].what = "cancel"
    BY <1>8, <2>1 DEF HandleCancel, Arrived
  <2>3. reset' /\ UNCHANGED <<current, signals, shown, view, client>>
    BY <1>8 DEF HandleCancel, clientVars
  <2> QED BY <2>1, <2>2, <2>3
<1>9. CASE OnResetSession
  <2>1. reset /\ ~reset' /\ \A t \in Services : current'[t] = None
    BY <1>9 DEF OnResetSession
  <2>2. client => /\ Len(signals) \in Nat /\ DOMAIN signals = 1..Len(signals)
                  /\ Len(signals') = Len(signals) + 1 /\ DOMAIN signals' = 1..(Len(signals) + 1)
                  /\ \A i \in 1..Len(signals) : signals'[i] = signals[i]
                  /\ signals'[Len(signals) + 1] = [what |-> "reset", service |-> None, query |-> None]
    BY <1>9, ResetSignal, Appended DEF OnResetSession, Signal, RelayTypes
  <2>3. ~client => signals' = signals
    BY <1>9 DEF OnResetSession, Signal
  <2>4. UNCHANGED <<messages, shown, view, client>>
    BY <1>9 DEF OnResetSession, clientVars
  <2> QED BY <2>1, <2>2, <2>3, <2>4 DEF CancelInv
<1>10. CASE HearsReset
  <2>1. /\ Len(signals) \in Nat /\ DOMAIN signals = 1..Len(signals) /\ DOMAIN signals' = 1..(Len(signals) - 1)
        /\ 1 \in DOMAIN signals /\ Head(signals) = signals[1] /\ Len(signals') = Len(signals) - 1
        /\ \A i \in DOMAIN signals' : i \in Nat /\ i > 0 /\ i + 1 \in DOMAIN signals /\ signals'[i] = signals[i + 1]
    BY <1>10, Taken DEF HearsReset, RelayTypes
  <2>2. signals[1].what = "reset"
    BY <1>10, <2>1 DEF HearsReset
  <2>3. \A t \in Services : shown'[t] = None /\ view'[t] = "none"
    BY <1>10 DEF HearsReset
  <2>4. UNCHANGED <<current, reset, messages, client>>
    BY <1>10 DEF HearsReset, sessionVars
  <2> QED BY <2>1, <2>2, <2>3, <2>4 DEF CancelInv
<1>11. ASSUME NEW s \in Services, HearsEnd(s) PROVE BeginInv'
  <2>1. /\ Len(signals) \in Nat /\ DOMAIN signals = 1..Len(signals) /\ DOMAIN signals' = 1..(Len(signals) - 1)
        /\ 1 \in DOMAIN signals /\ Head(signals) = signals[1] /\ Len(signals') = Len(signals) - 1
        /\ \A i \in DOMAIN signals' : i \in Nat /\ i > 0 /\ i + 1 \in DOMAIN signals /\ signals'[i] = signals[i + 1]
    BY <1>11, Taken DEF HearsEnd, RelayTypes
  <2>2. signals[1].what \in Ends /\ signals[1].service = s
    BY <1>11, <2>1 DEF HearsEnd
  <2>3. \A t \in Services : shown'[t] = IF t = s THEN None ELSE shown[t]
    BY <1>11 DEF HearsEnd, RelayTypes
  <2>4. \A t \in Services : view'[t] = IF t # s \/ view[t] = "cancelling" THEN view[t]
                                 ELSE IF signals[1].what = "failed" THEN "failed" ELSE "none"
    BY <1>11, <2>1 DEF HearsEnd, RelayTypes
  <2>5. UNCHANGED <<current, reset, messages, client>>
    BY <1>11 DEF HearsEnd, sessionVars
  <2> QED BY <2>1, <2>2, <2>3, <2>4, <2>5 DEF StoppedInv, Ends
<1>12. ASSUME NEW s \in Services, HearsQuestion(s) PROVE BeginInv'
  <2>1. /\ Len(signals) \in Nat /\ DOMAIN signals = 1..Len(signals) /\ DOMAIN signals' = 1..(Len(signals) - 1)
        /\ 1 \in DOMAIN signals /\ Head(signals) = signals[1] /\ Len(signals') = Len(signals) - 1
        /\ \A i \in DOMAIN signals' : i \in Nat /\ i > 0 /\ i + 1 \in DOMAIN signals /\ signals'[i] = signals[i + 1]
    BY <1>12, Taken DEF HearsQuestion, RelayTypes
  <2>2. signals[1] \in QuestionSet /\ signals[1].service = s
    BY <1>12, <2>1 DEF HearsQuestion
  <2>3. \A t \in Services : shown'[t] = IF t # s THEN shown[t]
                                  ELSE IF view[t] = "cancelling" THEN None ELSE signals[1]
    BY <1>12, <2>1 DEF HearsQuestion, RelayTypes
  <2>4. UNCHANGED <<current, reset, messages, view, client>>
    BY <1>12 DEF HearsQuestion, sessionVars
  <2> QED BY <2>1, <2>2, <2>3, <2>4
<1>13. CASE ClientCancels
  <2>1. [what |-> "cancel", service |-> None, style |-> None, answer |-> None] \in MessageSet
    BY DEF MessageSet
  <2>2. /\ Len(messages) \in Nat /\ DOMAIN messages = 1..Len(messages)
        /\ Len(messages') = Len(messages) + 1 /\ DOMAIN messages' = 1..(Len(messages) + 1)
        /\ \A i \in 1..Len(messages) : messages'[i] = messages[i]
        /\ messages'[Len(messages) + 1] = [what |-> "cancel", service |-> None, style |-> None, answer |-> None]
    BY <1>13, <2>1, Appended DEF ClientCancels, Send, RelayTypes
  <2>3. \A t \in Services : shown'[t] = None /\ view'[t] = "cancelling"
    BY <1>13 DEF ClientCancels
  <2>4. client /\ (\E t \in Services : view[t] = "begun") /\ UNCHANGED <<current, reset, signals, client>>
    BY <1>13 DEF ClientCancels, sessionVars
  <2> QED BY <2>1, <2>2, <2>3, <2>4
<1>14. ASSUME NEW s \in Services, ClientBegins(s) PROVE BeginInv'
  <2>1. [what |-> "begin", service |-> s, style |-> None, answer |-> None] \in MessageSet /\ s # Autologin /\ client /\ view[s] = "none"
    BY <1>14 DEF ClientBegins, MessageSet
  <2>2. /\ Len(messages) \in Nat /\ DOMAIN messages = 1..Len(messages)
        /\ Len(messages') = Len(messages) + 1 /\ DOMAIN messages' = 1..(Len(messages) + 1)
        /\ \A i \in 1..Len(messages) : messages'[i] = messages[i]
        /\ messages'[Len(messages) + 1] = [what |-> "begin", service |-> s, style |-> None, answer |-> None]
    BY <1>14, <2>1, Appended DEF ClientBegins, Send, RelayTypes
  <2>3. \A t \in Services : view'[t] = IF t = s THEN "begun" ELSE view[t]
    BY <1>14 DEF ClientBegins, RelayTypes
  <2>4. UNCHANGED <<current, reset, signals, shown, client>>
    BY <1>14 DEF ClientBegins, sessionVars
  <2> QED BY <2>1, <2>2, <2>3, <2>4
<1>15. ASSUME NEW s \in Services, ClientAnswers(s) PROVE BeginInv'
  <2>1. shown[s] # None /\ shown[s].what \in Styles /\ shown[s].query \in Queries
    BY <1>15, AnswersShown
  <2>2. PICK ok \in BOOLEAN :
          messages' = Append(messages, [what |-> "answer", service |-> s, style |-> shown[s].what, answer |-> [query |-> shown[s].query, ok |-> ok]])
    BY <1>15, AnswersShown
  <2>3. [what |-> "answer", service |-> s, style |-> shown[s].what, answer |-> [query |-> shown[s].query, ok |-> ok]] \in MessageSet
    BY <2>1 DEF MessageSet, Answers
  <2>4. /\ Len(messages) \in Nat /\ DOMAIN messages = 1..Len(messages)
        /\ Len(messages') = Len(messages) + 1 /\ DOMAIN messages' = 1..(Len(messages) + 1)
        /\ \A i \in 1..Len(messages) : messages'[i] = messages[i]
        /\ messages'[Len(messages) + 1] = [what |-> "answer", service |-> s, style |-> shown[s].what, answer |-> [query |-> shown[s].query, ok |-> ok]]
    BY <2>2, <2>3, Appended DEF RelayTypes
  <2>5. \A t \in Services : shown'[t] = IF t = s THEN None ELSE shown[t]
    BY <1>15 DEF ClientAnswers, RelayTypes
  <2>6. UNCHANGED <<current, reset, signals, view, client>>
    BY <1>15 DEF ClientAnswers, sessionVars
  <2> QED BY <2>1, <2>2, <2>3, <2>4, <2>5, <2>6
<1>16. CASE StartByManager
  <2>1. ~client /\ UNCHANGED <<reset, signals, messages, shown, view, client>>
    BY <1>16 DEF StartByManager, clientVars
  <2>2. /\ started' \in Convs /\ started' # None /\ \A t \in Services : current'[t] = IF t = Autologin THEN started' ELSE current[t]
    BY <1>16, Started DEF StartByManager, SessionInv, Convs, RelayTypes
  <2>3. signals = <<>> /\ messages = <<>> /\ \A t \in Services : shown[t] = None
    BY <2>1 DEF TurnInv, QuietInv
  <2> QED BY <2>1, <2>2, <2>3
<1>17. CASE UNCHANGED <<current, reset, signals, messages, shown, view>>
  BY <1>17
<1> HIDE <1>0 DEF BeginInv, NothingHeard, IsSignal, IsQuestion, IsBegin, IsAnswer, IsCancel, IsReset
<1>18. \/ (\E g \in Convs : PutsQuery(g))
       \/ (\E g \in Convs : WorkerExited(g))
       \/ (\E g \in Convs : ConversationFails(g))
       \/ IgnoresAnswer
       \/ (\E g \in Convs : GivesAnswer(g))
       \/ (\E s \in Services \ {Autologin} : Begins(s))
       \/ (\E s \in Services \ {Autologin} : Refuses(s))
       \/ HandleCancel
       \/ OnResetSession
       \/ HearsReset
       \/ (\E s \in Services : HearsEnd(s))
       \/ (\E s \in Services : HearsQuestion(s))
       \/ ClientCancels
       \/ (\E s \in Services : ClientBegins(s))
       \/ (\E s \in Services : ClientAnswers(s))
       \/ StartByManager
       \/ UNCHANGED <<current, reset, signals, messages, shown, view>>
  BY StepCases, Zenon DEF StopOtherConversations, Works, Asks, IsAnswered, WorkerEnds, RefusesQuery, ClientConnects, vars,
     sessionVars,
     workerVars, clientVars
<1> QED BY <1>1, <1>2, <1>3, <1>4, <1>5, <1>6, <1>7, <1>8, <1>9, <1>10, <1>11, <1>12,
           <1>13, <1>14, <1>15, <1>16, <1>17, <1>18, Zenon

\* "stopped" stays the last that is heard.
LEMMA NextStoppedInv ==
    ASSUME InTurn, RelayTypes, SessionInv, TurnInv, [Next]_vars PROVE StoppedInv'
<1> USE RelayAssumptions DEF StoppedInv, IsSignal, Ends
<1>0. StoppedInv /\ BeginInv
  BY DEF TurnInv
<1> USE <1>0
<1>1. ASSUME NEW g \in Convs, PutsQuery(g) PROVE StoppedInv'
  <2>1. conv[g].service \in Services /\ current[conv[g].service] = g /\ g # None /\ call[g] \in Queries
    BY <1>1, ServiceOf DEF PutsQuery
  <2>2. PICK style \in Styles : signals' = Append(signals, [what |-> style, service |-> conv[g].service, query |-> call[g]])
    BY <1>1 DEF PutsQuery
  <2>3. /\ Len(signals) \in Nat /\ DOMAIN signals = 1..Len(signals)
        /\ Len(signals') = Len(signals) + 1 /\ DOMAIN signals' = 1..(Len(signals) + 1)
        /\ \A i \in 1..Len(signals) : signals'[i] = signals[i]
        /\ signals'[Len(signals) + 1] = [what |-> style, service |-> conv[g].service, query |-> call[g]]
    BY <2>1, <2>2, QuestionSignal, Appended DEF RelayTypes
  <2>4. client /\ UNCHANGED <<current, reset, messages, shown, view, client>>
    BY <1>1 DEF PutsQuery, clientVars
  <2> QED BY <2>1, <2>2, <2>3, <2>4 DEF Styles
<1>2. ASSUME NEW g \in Convs, WorkerExited(g) PROVE StoppedInv'
  <2>1. conv[g].service \in Services /\ current[conv[g].service] = g /\ g # None
    BY <1>2 DEF WorkerExited, SessionInv, ConvInv, Convs
  <2>2. client => /\ Len(signals) \in Nat /\ DOMAIN signals = 1..Len(signals)
                  /\ Len(signals') = Len(signals) + 1 /\ DOMAIN signals' = 1..(Len(signals) + 1)
                  /\ \A i \in 1..Len(signals) : signals'[i] = signals[i]
                  /\ signals'[Len(signals) + 1] = [what |-> "stopped", service |-> conv[g].service, query |-> None]
    BY <1>2, <2>1, EndSignal, Appended DEF WorkerExited, Signal, RelayTypes, Ends
  <2>3. ~client => signals' = signals
    BY <1>2 DEF WorkerExited, Signal
  <2>4. UNCHANGED <<reset, messages, shown, view, client>>
    BY <1>2 DEF WorkerExited, clientVars
  <2>5. \A t \in Services : current'[t] = IF t = conv[g].service THEN None ELSE current[t]
    BY <1>2 DEF WorkerExited, RelayTypes
  <2>6. \A i \in DOMAIN signals : signals[i].what \in Ends => signals[i].service \in Services /\ signals[i].service # None
    BY SignalMeaning, ElementOfSeq, LenProperties DEF RelayTypes
  <2> QED BY <2>1, <2>2, <2>3, <2>4, <2>5, <2>6
<1>3. ASSUME NEW g \in Convs, ConversationFails(g) PROVE StoppedInv'
  <2>1. conv[g].service \in Services /\ current[conv[g].service] = g /\ g # None
    BY <1>3 DEF ConversationFails, SessionInv, ConvInv, Convs
  <2>2. client => /\ Len(signals) \in Nat /\ DOMAIN signals = 1..Len(signals)
                  /\ Len(signals') = Len(signals) + 1 /\ DOMAIN signals' = 1..(Len(signals) + 1)
                  /\ \A i \in 1..Len(signals) : signals'[i] = signals[i]
                  /\ signals'[Len(signals) + 1] = [what |-> "failed", service |-> conv[g].service, query |-> None]
    BY <1>3, <2>1, EndSignal, Appended DEF ConversationFails, Signal, RelayTypes, Ends
  <2>3. ~client => signals' = signals
    BY <1>3 DEF ConversationFails, Signal
  <2>4. UNCHANGED <<reset, messages, shown, view, client>>
    BY <1>3 DEF ConversationFails, clientVars
  <2>5. UNCHANGED current
    BY <1>3 DEF ConversationFails
  <2> QED BY <2>1, <2>2, <2>3, <2>4, <2>5
<1>4. CASE IgnoresAnswer
  <2>1. /\ Len(messages) \in Nat /\ DOMAIN messages = 1..Len(messages) /\ DOMAIN messages' = 1..(Len(messages) - 1)
        /\ 1 \in DOMAIN messages /\ Head(messages) = messages[1] /\ Len(messages') = Len(messages) - 1
        /\ \A i \in DOMAIN messages' : i \in Nat /\ i > 0 /\ i + 1 \in DOMAIN messages /\ messages'[i] = messages[i + 1]
    BY <1>4, Taken DEF IgnoresAnswer, Arrived, Take, RelayTypes
  <2>2. messages[1].what = "answer"
    BY <1>4, <2>1 DEF IgnoresAnswer, Arrived
  <2>3. UNCHANGED <<current, reset, signals, shown, view, client>>
    BY <1>4 DEF IgnoresAnswer, sessionVars, clientVars
  <2> QED BY <2>1, <2>2, <2>3
<1>5. ASSUME NEW g \in Convs, GivesAnswer(g) PROVE StoppedInv'
  <2>1. /\ Len(messages) \in Nat /\ DOMAIN messages = 1..Len(messages) /\ DOMAIN messages' = 1..(Len(messages) - 1)
        /\ 1 \in DOMAIN messages /\ Head(messages) = messages[1] /\ Len(messages') = Len(messages) - 1
        /\ \A i \in DOMAIN messages' : i \in Nat /\ i > 0 /\ i + 1 \in DOMAIN messages /\ messages'[i] = messages[i + 1]
    BY <1>5, Taken DEF GivesAnswer, Arrived, Take, RelayTypes
  <2>2. messages[1].what = "answer"
    BY <1>5, <2>1 DEF GivesAnswer, Arrived
  <2>3. UNCHANGED <<current, reset, signals, shown, view, client>>
    BY <1>5 DEF GivesAnswer, sessionVars, clientVars
  <2> QED BY <2>1, <2>2, <2>3
<1>6. ASSUME NEW s \in Services \ {Autologin}, Begins(s) PROVE StoppedInv'
  <2>1. /\ Len(messages) \in Nat /\ DOMAIN messages = 1..Len(messages) /\ DOMAIN messages' = 1..(Len(messages) - 1)
        /\ 1 \in DOMAIN messages /\ Head(messages) = messages[1] /\ Len(messages') = Len(messages) - 1
        /\ \A i \in DOMAIN messages' : i \in Nat /\ i > 0 /\ i + 1 \in DOMAIN messages /\ messages'[i] = messages[i + 1]
    BY <1>6, Taken DEF Begins, Arrived, Take, RelayTypes
  <2>2. messages[1].what = "begin" /\ messages[1].service = s
    BY <1>6, <2>1 DEF Begins, Arrived
  <2>3. UNCHANGED <<reset, signals, shown, view, client>>
    BY <1>6 DEF Begins, clientVars
  <2>4. /\ started' \in Convs /\ started' # None /\ \A t \in Services : current'[t] = IF t = s THEN started' ELSE current[t]
    BY <1>6, Started DEF Begins, SessionInv, Convs, RelayTypes
  <2>5. \A i \in DOMAIN signals : signals[i].what \in Ends => signals[i].service \in Services /\ signals[i].service # None
    BY SignalMeaning, ElementOfSeq, LenProperties DEF RelayTypes
  <2> QED BY <2>1, <2>2, <2>3, <2>4, <2>5 DEF BeginInv, NothingHeard, IsBegin
<1>7. ASSUME NEW s \in Services \ {Autologin}, Refuses(s) PROVE StoppedInv'
  <2>1. FALSE
    BY <1>7, NeverRefused DEF TurnInv
  <2> QED BY <2>1
<1>8. CASE HandleCancel
  <2>1. /\ Len(messages) \in Nat /\ DOMAIN messages = 1..Len(messages) /\ DOMAIN messages' = 1..(Len(messages) - 1)
        /\ 1 \in DOMAIN messages /\ Head(messages) = messages[1] /\ Len(messages') = Len(messages) - 1
        /\ \A i \in DOMAIN messages' : i \in Nat /\ i > 0 /\ i + 1 \in DOMAIN messages /\ messages'[i] = messages[i + 1]
    BY <1>8, Taken DEF HandleCancel, Arrived, Take, RelayTypes
  <2>2. messages[1].what = "cancel"
    BY <1>8, <2>1 DEF HandleCancel, Arrived
  <2>3. reset' /\ UNCHANGED <<current, signals, shown, view, client>>
    BY <1>8 DEF HandleCancel, clientVars
  <2> QED BY <2>1, <2>2, <2>3
<1>9. CASE OnResetSession
  <2>1. reset /\ ~reset' /\ \A t \in Services : current'[t] = None
    BY <1>9 DEF OnResetSession
  <2>2. client => /\ Len(signals) \in Nat /\ DOMAIN signals = 1..Len(signals)
                  /\ Len(signals') = Len(signals) + 1 /\ DOMAIN signals' = 1..(Len(signals) + 1)
                  /\ \A i \in 1..Len(signals) : signals'[i] = signals[i]
                  /\ signals'[Len(signals) + 1] = [what |-> "reset", service |-> None, query |-> None]
    BY <1>9, ResetSignal, Appended DEF OnResetSession, Signal, RelayTypes
  <2>3. ~client => signals' = signals
    BY <1>9 DEF OnResetSession, Signal
  <2>4. UNCHANGED <<messages, shown, view, client>>
    BY <1>9 DEF OnResetSession, clientVars
  <2>5. \A i \in DOMAIN signals : signals[i].what \in Ends => signals[i].service \in Services /\ signals[i].service # None
    BY SignalMeaning, ElementOfSeq, LenProperties DEF RelayTypes
  <2> QED BY <2>1, <2>2, <2>3, <2>4, <2>5
<1>10. CASE HearsReset
  <2>1. /\ Len(signals) \in Nat /\ DOMAIN signals = 1..Len(signals) /\ DOMAIN signals' = 1..(Len(signals) - 1)
        /\ 1 \in DOMAIN signals /\ Head(signals) = signals[1] /\ Len(signals') = Len(signals) - 1
        /\ \A i \in DOMAIN signals' : i \in Nat /\ i > 0 /\ i + 1 \in DOMAIN signals /\ signals'[i] = signals[i + 1]
    BY <1>10, Taken DEF HearsReset, RelayTypes
  <2>2. signals[1].what = "reset"
    BY <1>10, <2>1 DEF HearsReset
  <2>3. \A t \in Services : shown'[t] = None /\ view'[t] = "none"
    BY <1>10 DEF HearsReset
  <2>4. UNCHANGED <<current, reset, messages, client>>
    BY <1>10 DEF HearsReset, sessionVars
  <2> QED BY <2>1, <2>2, <2>3, <2>4
<1>11. ASSUME NEW s \in Services, HearsEnd(s) PROVE StoppedInv'
  <2>1. /\ Len(signals) \in Nat /\ DOMAIN signals = 1..Len(signals) /\ DOMAIN signals' = 1..(Len(signals) - 1)
        /\ 1 \in DOMAIN signals /\ Head(signals) = signals[1] /\ Len(signals') = Len(signals) - 1
        /\ \A i \in DOMAIN signals' : i \in Nat /\ i > 0 /\ i + 1 \in DOMAIN signals /\ signals'[i] = signals[i + 1]
    BY <1>11, Taken DEF HearsEnd, RelayTypes
  <2>2. signals[1].what \in Ends /\ signals[1].service = s
    BY <1>11, <2>1 DEF HearsEnd
  <2>3. \A t \in Services : shown'[t] = IF t = s THEN None ELSE shown[t]
    BY <1>11 DEF HearsEnd, RelayTypes
  <2>4. \A t \in Services : view'[t] = IF t # s \/ view[t] = "cancelling" THEN view[t]
                                 ELSE IF signals[1].what = "failed" THEN "failed" ELSE "none"
    BY <1>11, <2>1 DEF HearsEnd, RelayTypes
  <2>5. UNCHANGED <<current, reset, messages, client>>
    BY <1>11 DEF HearsEnd, sessionVars
  <2> QED BY <2>1, <2>2, <2>3, <2>4, <2>5
<1>12. ASSUME NEW s \in Services, HearsQuestion(s) PROVE StoppedInv'
  <2>1. /\ Len(signals) \in Nat /\ DOMAIN signals = 1..Len(signals) /\ DOMAIN signals' = 1..(Len(signals) - 1)
        /\ 1 \in DOMAIN signals /\ Head(signals) = signals[1] /\ Len(signals') = Len(signals) - 1
        /\ \A i \in DOMAIN signals' : i \in Nat /\ i > 0 /\ i + 1 \in DOMAIN signals /\ signals'[i] = signals[i + 1]
    BY <1>12, Taken DEF HearsQuestion, RelayTypes
  <2>2. signals[1] \in QuestionSet /\ signals[1].service = s
    BY <1>12, <2>1 DEF HearsQuestion
  <2>3. \A t \in Services : shown'[t] = IF t # s THEN shown[t]
                                  ELSE IF view[t] = "cancelling" THEN None ELSE signals[1]
    BY <1>12, <2>1 DEF HearsQuestion, RelayTypes
  <2>4. UNCHANGED <<current, reset, messages, view, client>>
    BY <1>12 DEF HearsQuestion, sessionVars
  <2> QED BY <2>1, <2>2, <2>3, <2>4
<1>13. CASE ClientCancels
  <2>1. [what |-> "cancel", service |-> None, style |-> None, answer |-> None] \in MessageSet
    BY DEF MessageSet
  <2>2. /\ Len(messages) \in Nat /\ DOMAIN messages = 1..Len(messages)
        /\ Len(messages') = Len(messages) + 1 /\ DOMAIN messages' = 1..(Len(messages) + 1)
        /\ \A i \in 1..Len(messages) : messages'[i] = messages[i]
        /\ messages'[Len(messages) + 1] = [what |-> "cancel", service |-> None, style |-> None, answer |-> None]
    BY <1>13, <2>1, Appended DEF ClientCancels, Send, RelayTypes
  <2>3. \A t \in Services : shown'[t] = None /\ view'[t] = "cancelling"
    BY <1>13 DEF ClientCancels
  <2>4. client /\ (\E t \in Services : view[t] = "begun") /\ UNCHANGED <<current, reset, signals, client>>
    BY <1>13 DEF ClientCancels, sessionVars
  <2> QED BY <2>1, <2>2, <2>3, <2>4
<1>14. ASSUME NEW s \in Services, ClientBegins(s) PROVE StoppedInv'
  <2>1. [what |-> "begin", service |-> s, style |-> None, answer |-> None] \in MessageSet /\ s # Autologin /\ client /\ view[s] = "none"
    BY <1>14 DEF ClientBegins, MessageSet
  <2>2. /\ Len(messages) \in Nat /\ DOMAIN messages = 1..Len(messages)
        /\ Len(messages') = Len(messages) + 1 /\ DOMAIN messages' = 1..(Len(messages) + 1)
        /\ \A i \in 1..Len(messages) : messages'[i] = messages[i]
        /\ messages'[Len(messages) + 1] = [what |-> "begin", service |-> s, style |-> None, answer |-> None]
    BY <1>14, <2>1, Appended DEF ClientBegins, Send, RelayTypes
  <2>3. \A t \in Services : view'[t] = IF t = s THEN "begun" ELSE view[t]
    BY <1>14 DEF ClientBegins, RelayTypes
  <2>4. UNCHANGED <<current, reset, signals, shown, client>>
    BY <1>14 DEF ClientBegins, sessionVars
  <2> QED BY <2>1, <2>2, <2>3, <2>4
<1>15. ASSUME NEW s \in Services, ClientAnswers(s) PROVE StoppedInv'
  <2>1. shown[s] # None /\ shown[s].what \in Styles /\ shown[s].query \in Queries
    BY <1>15, AnswersShown
  <2>2. PICK ok \in BOOLEAN :
          messages' = Append(messages, [what |-> "answer", service |-> s, style |-> shown[s].what, answer |-> [query |-> shown[s].query, ok |-> ok]])
    BY <1>15, AnswersShown
  <2>3. [what |-> "answer", service |-> s, style |-> shown[s].what, answer |-> [query |-> shown[s].query, ok |-> ok]] \in MessageSet
    BY <2>1 DEF MessageSet, Answers
  <2>4. /\ Len(messages) \in Nat /\ DOMAIN messages = 1..Len(messages)
        /\ Len(messages') = Len(messages) + 1 /\ DOMAIN messages' = 1..(Len(messages) + 1)
        /\ \A i \in 1..Len(messages) : messages'[i] = messages[i]
        /\ messages'[Len(messages) + 1] = [what |-> "answer", service |-> s, style |-> shown[s].what, answer |-> [query |-> shown[s].query, ok |-> ok]]
    BY <2>2, <2>3, Appended DEF RelayTypes
  <2>5. \A t \in Services : shown'[t] = IF t = s THEN None ELSE shown[t]
    BY <1>15 DEF ClientAnswers, RelayTypes
  <2>6. UNCHANGED <<current, reset, signals, view, client>>
    BY <1>15 DEF ClientAnswers, sessionVars
  <2> QED BY <2>1, <2>2, <2>3, <2>4, <2>5, <2>6
<1>16. CASE StartByManager
  <2>1. ~client /\ UNCHANGED <<reset, signals, messages, shown, view, client>>
    BY <1>16 DEF StartByManager, clientVars
  <2>2. /\ started' \in Convs /\ started' # None /\ \A t \in Services : current'[t] = IF t = Autologin THEN started' ELSE current[t]
    BY <1>16, Started DEF StartByManager, SessionInv, Convs, RelayTypes
  <2>3. signals = <<>> /\ messages = <<>> /\ \A t \in Services : shown[t] = None
    BY <2>1 DEF TurnInv, QuietInv
  <2> QED BY <2>1, <2>2, <2>3
<1>17. CASE UNCHANGED <<current, reset, signals, messages, shown, view>>
  BY <1>17
<1> HIDE <1>0 DEF StoppedInv, IsSignal, Ends
<1>18. \/ (\E g \in Convs : PutsQuery(g))
       \/ (\E g \in Convs : WorkerExited(g))
       \/ (\E g \in Convs : ConversationFails(g))
       \/ IgnoresAnswer
       \/ (\E g \in Convs : GivesAnswer(g))
       \/ (\E s \in Services \ {Autologin} : Begins(s))
       \/ (\E s \in Services \ {Autologin} : Refuses(s))
       \/ HandleCancel
       \/ OnResetSession
       \/ HearsReset
       \/ (\E s \in Services : HearsEnd(s))
       \/ (\E s \in Services : HearsQuestion(s))
       \/ ClientCancels
       \/ (\E s \in Services : ClientBegins(s))
       \/ (\E s \in Services : ClientAnswers(s))
       \/ StartByManager
       \/ UNCHANGED <<current, reset, signals, messages, shown, view>>
  BY StepCases, Zenon DEF StopOtherConversations, Works, Asks, IsAnswered, WorkerEnds, RefusesQuery, ClientConnects, vars,
     sessionVars,
     workerVars, clientVars
<1> QED BY <1>1, <1>2, <1>3, <1>4, <1>5, <1>6, <1>7, <1>8, <1>9, <1>10, <1>11, <1>12,
           <1>13, <1>14, <1>15, <1>16, <1>17, <1>18, Zenon

\* A cancellation is in one place.
LEMMA NextCancelInv ==
    ASSUME InTurn, RelayTypes, SessionInv, TurnInv, [Next]_vars PROVE CancelInv'
<1> USE RelayAssumptions DEF CancelInv, IsCancel, IsReset
<1>0. CancelInv /\ BeginInv
  BY DEF TurnInv
<1> USE <1>0
<1>1. ASSUME NEW g \in Convs, PutsQuery(g) PROVE CancelInv'
  <2>1. conv[g].service \in Services /\ current[conv[g].service] = g /\ g # None /\ call[g] \in Queries
    BY <1>1, ServiceOf DEF PutsQuery
  <2>2. PICK style \in Styles : signals' = Append(signals, [what |-> style, service |-> conv[g].service, query |-> call[g]])
    BY <1>1 DEF PutsQuery
  <2>3. /\ Len(signals) \in Nat /\ DOMAIN signals = 1..Len(signals)
        /\ Len(signals') = Len(signals) + 1 /\ DOMAIN signals' = 1..(Len(signals) + 1)
        /\ \A i \in 1..Len(signals) : signals'[i] = signals[i]
        /\ signals'[Len(signals) + 1] = [what |-> style, service |-> conv[g].service, query |-> call[g]]
    BY <2>1, <2>2, QuestionSignal, Appended DEF RelayTypes
  <2>4. client /\ UNCHANGED <<current, reset, messages, shown, view, client>>
    BY <1>1 DEF PutsQuery, clientVars
  <2> QED BY <2>1, <2>2, <2>3, <2>4 DEF Styles
<1>2. ASSUME NEW g \in Convs, WorkerExited(g) PROVE CancelInv'
  <2>1. conv[g].service \in Services /\ current[conv[g].service] = g /\ g # None
    BY <1>2 DEF WorkerExited, SessionInv, ConvInv, Convs
  <2>2. client => /\ Len(signals) \in Nat /\ DOMAIN signals = 1..Len(signals)
                  /\ Len(signals') = Len(signals) + 1 /\ DOMAIN signals' = 1..(Len(signals) + 1)
                  /\ \A i \in 1..Len(signals) : signals'[i] = signals[i]
                  /\ signals'[Len(signals) + 1] = [what |-> "stopped", service |-> conv[g].service, query |-> None]
    BY <1>2, <2>1, EndSignal, Appended DEF WorkerExited, Signal, RelayTypes, Ends
  <2>3. ~client => signals' = signals
    BY <1>2 DEF WorkerExited, Signal
  <2>4. UNCHANGED <<reset, messages, shown, view, client>>
    BY <1>2 DEF WorkerExited, clientVars
  <2>5. \A t \in Services : current'[t] = IF t = conv[g].service THEN None ELSE current[t]
    BY <1>2 DEF WorkerExited, RelayTypes
  <2> QED BY <2>1, <2>2, <2>3, <2>4, <2>5
<1>3. ASSUME NEW g \in Convs, ConversationFails(g) PROVE CancelInv'
  <2>1. conv[g].service \in Services /\ current[conv[g].service] = g /\ g # None
    BY <1>3 DEF ConversationFails, SessionInv, ConvInv, Convs
  <2>2. client => /\ Len(signals) \in Nat /\ DOMAIN signals = 1..Len(signals)
                  /\ Len(signals') = Len(signals) + 1 /\ DOMAIN signals' = 1..(Len(signals) + 1)
                  /\ \A i \in 1..Len(signals) : signals'[i] = signals[i]
                  /\ signals'[Len(signals) + 1] = [what |-> "failed", service |-> conv[g].service, query |-> None]
    BY <1>3, <2>1, EndSignal, Appended DEF ConversationFails, Signal, RelayTypes, Ends
  <2>3. ~client => signals' = signals
    BY <1>3 DEF ConversationFails, Signal
  <2>4. UNCHANGED <<reset, messages, shown, view, client>>
    BY <1>3 DEF ConversationFails, clientVars
  <2>5. UNCHANGED current
    BY <1>3 DEF ConversationFails
  <2> QED BY <2>1, <2>2, <2>3, <2>4, <2>5
<1>4. CASE IgnoresAnswer
  <2>1. /\ Len(messages) \in Nat /\ DOMAIN messages = 1..Len(messages) /\ DOMAIN messages' = 1..(Len(messages) - 1)
        /\ 1 \in DOMAIN messages /\ Head(messages) = messages[1] /\ Len(messages') = Len(messages) - 1
        /\ \A i \in DOMAIN messages' : i \in Nat /\ i > 0 /\ i + 1 \in DOMAIN messages /\ messages'[i] = messages[i + 1]
    BY <1>4, Taken DEF IgnoresAnswer, Arrived, Take, RelayTypes
  <2>2. messages[1].what = "answer"
    BY <1>4, <2>1 DEF IgnoresAnswer, Arrived
  <2>3. UNCHANGED <<current, reset, signals, shown, view, client>>
    BY <1>4 DEF IgnoresAnswer, sessionVars, clientVars
  <2> QED BY <2>1, <2>2, <2>3
<1>5. ASSUME NEW g \in Convs, GivesAnswer(g) PROVE CancelInv'
  <2>1. /\ Len(messages) \in Nat /\ DOMAIN messages = 1..Len(messages) /\ DOMAIN messages' = 1..(Len(messages) - 1)
        /\ 1 \in DOMAIN messages /\ Head(messages) = messages[1] /\ Len(messages') = Len(messages) - 1
        /\ \A i \in DOMAIN messages' : i \in Nat /\ i > 0 /\ i + 1 \in DOMAIN messages /\ messages'[i] = messages[i + 1]
    BY <1>5, Taken DEF GivesAnswer, Arrived, Take, RelayTypes
  <2>2. messages[1].what = "answer"
    BY <1>5, <2>1 DEF GivesAnswer, Arrived
  <2>3. UNCHANGED <<current, reset, signals, shown, view, client>>
    BY <1>5 DEF GivesAnswer, sessionVars, clientVars
  <2> QED BY <2>1, <2>2, <2>3
<1>6. ASSUME NEW s \in Services \ {Autologin}, Begins(s) PROVE CancelInv'
  <2>1. /\ Len(messages) \in Nat /\ DOMAIN messages = 1..Len(messages) /\ DOMAIN messages' = 1..(Len(messages) - 1)
        /\ 1 \in DOMAIN messages /\ Head(messages) = messages[1] /\ Len(messages') = Len(messages) - 1
        /\ \A i \in DOMAIN messages' : i \in Nat /\ i > 0 /\ i + 1 \in DOMAIN messages /\ messages'[i] = messages[i + 1]
    BY <1>6, Taken DEF Begins, Arrived, Take, RelayTypes
  <2>2. messages[1].what = "begin" /\ messages[1].service = s
    BY <1>6, <2>1 DEF Begins, Arrived
  <2>3. UNCHANGED <<reset, signals, shown, view, client>>
    BY <1>6 DEF Begins, clientVars
  <2>4. /\ started' \in Convs /\ started' # None /\ \A t \in Services : current'[t] = IF t = s THEN started' ELSE current[t]
    BY <1>6, Started DEF Begins, SessionInv, Convs, RelayTypes
  <2> QED BY <2>1, <2>2, <2>3, <2>4 DEF BeginInv, NothingHeard, IsBegin
<1>7. ASSUME NEW s \in Services \ {Autologin}, Refuses(s) PROVE CancelInv'
  <2>1. FALSE
    BY <1>7, NeverRefused DEF TurnInv
  <2> QED BY <2>1
<1>8. CASE HandleCancel
  <2>1. /\ Len(messages) \in Nat /\ DOMAIN messages = 1..Len(messages) /\ DOMAIN messages' = 1..(Len(messages) - 1)
        /\ 1 \in DOMAIN messages /\ Head(messages) = messages[1] /\ Len(messages') = Len(messages) - 1
        /\ \A i \in DOMAIN messages' : i \in Nat /\ i > 0 /\ i + 1 \in DOMAIN messages /\ messages'[i] = messages[i + 1]
    BY <1>8, Taken DEF HandleCancel, Arrived, Take, RelayTypes
  <2>2. messages[1].what = "cancel"
    BY <1>8, <2>1 DEF HandleCancel, Arrived
  <2>3. reset' /\ UNCHANGED <<current, signals, shown, view, client>>
    BY <1>8 DEF HandleCancel, clientVars
  <2> QED BY <2>1, <2>2, <2>3
<1>9. CASE OnResetSession
  <2>1. reset /\ ~reset' /\ \A t \in Services : current'[t] = None
    BY <1>9 DEF OnResetSession
  <2>2. client => /\ Len(signals) \in Nat /\ DOMAIN signals = 1..Len(signals)
                  /\ Len(signals') = Len(signals) + 1 /\ DOMAIN signals' = 1..(Len(signals) + 1)
                  /\ \A i \in 1..Len(signals) : signals'[i] = signals[i]
                  /\ signals'[Len(signals) + 1] = [what |-> "reset", service |-> None, query |-> None]
    BY <1>9, ResetSignal, Appended DEF OnResetSession, Signal, RelayTypes
  <2>3. ~client => signals' = signals
    BY <1>9 DEF OnResetSession, Signal
  <2>4. UNCHANGED <<messages, shown, view, client>>
    BY <1>9 DEF OnResetSession, clientVars
  <2> QED BY <2>1, <2>2, <2>3, <2>4
<1>10. CASE HearsReset
  <2>1. /\ Len(signals) \in Nat /\ DOMAIN signals = 1..Len(signals) /\ DOMAIN signals' = 1..(Len(signals) - 1)
        /\ 1 \in DOMAIN signals /\ Head(signals) = signals[1] /\ Len(signals') = Len(signals) - 1
        /\ \A i \in DOMAIN signals' : i \in Nat /\ i > 0 /\ i + 1 \in DOMAIN signals /\ signals'[i] = signals[i + 1]
    BY <1>10, Taken DEF HearsReset, RelayTypes
  <2>2. signals[1].what = "reset"
    BY <1>10, <2>1 DEF HearsReset
  <2>3. \A t \in Services : shown'[t] = None /\ view'[t] = "none"
    BY <1>10 DEF HearsReset
  <2>4. UNCHANGED <<current, reset, messages, client>>
    BY <1>10 DEF HearsReset, sessionVars
  <2> QED BY <2>1, <2>2, <2>3, <2>4
<1>11. ASSUME NEW s \in Services, HearsEnd(s) PROVE CancelInv'
  <2>1. /\ Len(signals) \in Nat /\ DOMAIN signals = 1..Len(signals) /\ DOMAIN signals' = 1..(Len(signals) - 1)
        /\ 1 \in DOMAIN signals /\ Head(signals) = signals[1] /\ Len(signals') = Len(signals) - 1
        /\ \A i \in DOMAIN signals' : i \in Nat /\ i > 0 /\ i + 1 \in DOMAIN signals /\ signals'[i] = signals[i + 1]
    BY <1>11, Taken DEF HearsEnd, RelayTypes
  <2>2. signals[1].what \in Ends /\ signals[1].service = s
    BY <1>11, <2>1 DEF HearsEnd
  <2>3. \A t \in Services : shown'[t] = IF t = s THEN None ELSE shown[t]
    BY <1>11 DEF HearsEnd, RelayTypes
  <2>4. \A t \in Services : view'[t] = IF t # s \/ view[t] = "cancelling" THEN view[t]
                                 ELSE IF signals[1].what = "failed" THEN "failed" ELSE "none"
    BY <1>11, <2>1 DEF HearsEnd, RelayTypes
  <2>5. UNCHANGED <<current, reset, messages, client>>
    BY <1>11 DEF HearsEnd, sessionVars
  <2> QED BY <2>1, <2>2, <2>3, <2>4, <2>5 DEF Ends
<1>12. ASSUME NEW s \in Services, HearsQuestion(s) PROVE CancelInv'
  <2>1. /\ Len(signals) \in Nat /\ DOMAIN signals = 1..Len(signals) /\ DOMAIN signals' = 1..(Len(signals) - 1)
        /\ 1 \in DOMAIN signals /\ Head(signals) = signals[1] /\ Len(signals') = Len(signals) - 1
        /\ \A i \in DOMAIN signals' : i \in Nat /\ i > 0 /\ i + 1 \in DOMAIN signals /\ signals'[i] = signals[i + 1]
    BY <1>12, Taken DEF HearsQuestion, RelayTypes
  <2>2. signals[1] \in QuestionSet /\ signals[1].service = s
    BY <1>12, <2>1 DEF HearsQuestion
  <2>3. \A t \in Services : shown'[t] = IF t # s THEN shown[t]
                                  ELSE IF view[t] = "cancelling" THEN None ELSE signals[1]
    BY <1>12, <2>1 DEF HearsQuestion, RelayTypes
  <2>4. UNCHANGED <<current, reset, messages, view, client>>
    BY <1>12 DEF HearsQuestion, sessionVars
  <2> QED BY <2>1, <2>2, <2>3, <2>4, SignalMeaning
<1>13. CASE ClientCancels
  <2>1. [what |-> "cancel", service |-> None, style |-> None, answer |-> None] \in MessageSet
    BY DEF MessageSet
  <2>2. /\ Len(messages) \in Nat /\ DOMAIN messages = 1..Len(messages)
        /\ Len(messages') = Len(messages) + 1 /\ DOMAIN messages' = 1..(Len(messages) + 1)
        /\ \A i \in 1..Len(messages) : messages'[i] = messages[i]
        /\ messages'[Len(messages) + 1] = [what |-> "cancel", service |-> None, style |-> None, answer |-> None]
    BY <1>13, <2>1, Appended DEF ClientCancels, Send, RelayTypes
  <2>3. \A t \in Services : shown'[t] = None /\ view'[t] = "cancelling"
    BY <1>13 DEF ClientCancels
  <2>4. client /\ (\E t \in Services : view[t] = "begun") /\ UNCHANGED <<current, reset, signals, client>>
    BY <1>13 DEF ClientCancels, sessionVars
  <2> QED BY <2>1, <2>2, <2>3, <2>4
<1>14. ASSUME NEW s \in Services, ClientBegins(s) PROVE CancelInv'
  <2>1. [what |-> "begin", service |-> s, style |-> None, answer |-> None] \in MessageSet /\ s # Autologin /\ client /\ view[s] = "none"
    BY <1>14 DEF ClientBegins, MessageSet
  <2>2. /\ Len(messages) \in Nat /\ DOMAIN messages = 1..Len(messages)
        /\ Len(messages') = Len(messages) + 1 /\ DOMAIN messages' = 1..(Len(messages) + 1)
        /\ \A i \in 1..Len(messages) : messages'[i] = messages[i]
        /\ messages'[Len(messages) + 1] = [what |-> "begin", service |-> s, style |-> None, answer |-> None]
    BY <1>14, <2>1, Appended DEF ClientBegins, Send, RelayTypes
  <2>3. \A t \in Services : view'[t] = IF t = s THEN "begun" ELSE view[t]
    BY <1>14 DEF ClientBegins, RelayTypes
  <2>4. UNCHANGED <<current, reset, signals, shown, client>>
    BY <1>14 DEF ClientBegins, sessionVars
  <2> QED BY <2>1, <2>2, <2>3, <2>4
<1>15. ASSUME NEW s \in Services, ClientAnswers(s) PROVE CancelInv'
  <2>1. shown[s] # None /\ shown[s].what \in Styles /\ shown[s].query \in Queries
    BY <1>15, AnswersShown
  <2>2. PICK ok \in BOOLEAN :
          messages' = Append(messages, [what |-> "answer", service |-> s, style |-> shown[s].what, answer |-> [query |-> shown[s].query, ok |-> ok]])
    BY <1>15, AnswersShown
  <2>3. [what |-> "answer", service |-> s, style |-> shown[s].what, answer |-> [query |-> shown[s].query, ok |-> ok]] \in MessageSet
    BY <2>1 DEF MessageSet, Answers
  <2>4. /\ Len(messages) \in Nat /\ DOMAIN messages = 1..Len(messages)
        /\ Len(messages') = Len(messages) + 1 /\ DOMAIN messages' = 1..(Len(messages) + 1)
        /\ \A i \in 1..Len(messages) : messages'[i] = messages[i]
        /\ messages'[Len(messages) + 1] = [what |-> "answer", service |-> s, style |-> shown[s].what, answer |-> [query |-> shown[s].query, ok |-> ok]]
    BY <2>2, <2>3, Appended DEF RelayTypes
  <2>5. \A t \in Services : shown'[t] = IF t = s THEN None ELSE shown[t]
    BY <1>15 DEF ClientAnswers, RelayTypes
  <2>6. UNCHANGED <<current, reset, signals, view, client>>
    BY <1>15 DEF ClientAnswers, sessionVars
  <2> QED BY <2>1, <2>2, <2>3, <2>4, <2>5, <2>6
<1>16. CASE StartByManager
  <2>1. ~client /\ UNCHANGED <<reset, signals, messages, shown, view, client>>
    BY <1>16 DEF StartByManager, clientVars
  <2>2. /\ started' \in Convs /\ started' # None /\ \A t \in Services : current'[t] = IF t = Autologin THEN started' ELSE current[t]
    BY <1>16, Started DEF StartByManager, SessionInv, Convs, RelayTypes
  <2>3. signals = <<>> /\ messages = <<>> /\ \A t \in Services : shown[t] = None
    BY <2>1 DEF TurnInv, QuietInv
  <2> QED BY <2>1, <2>2, <2>3
<1>17. CASE UNCHANGED <<current, reset, signals, messages, shown, view>>
  BY <1>17
<1> HIDE <1>0 DEF CancelInv, IsCancel, IsReset
<1>18. \/ (\E g \in Convs : PutsQuery(g))
       \/ (\E g \in Convs : WorkerExited(g))
       \/ (\E g \in Convs : ConversationFails(g))
       \/ IgnoresAnswer
       \/ (\E g \in Convs : GivesAnswer(g))
       \/ (\E s \in Services \ {Autologin} : Begins(s))
       \/ (\E s \in Services \ {Autologin} : Refuses(s))
       \/ HandleCancel
       \/ OnResetSession
       \/ HearsReset
       \/ (\E s \in Services : HearsEnd(s))
       \/ (\E s \in Services : HearsQuestion(s))
       \/ ClientCancels
       \/ (\E s \in Services : ClientBegins(s))
       \/ (\E s \in Services : ClientAnswers(s))
       \/ StartByManager
       \/ UNCHANGED <<current, reset, signals, messages, shown, view>>
  BY StepCases, Zenon DEF StopOtherConversations, Works, Asks, IsAnswered, WorkerEnds, RefusesQuery, ClientConnects, vars,
     sessionVars,
     workerVars, clientVars
<1> QED BY <1>1, <1>2, <1>3, <1>4, <1>5, <1>6, <1>7, <1>8, <1>9, <1>10, <1>11, <1>12,
           <1>13, <1>14, <1>15, <1>16, <1>17, <1>18, Zenon

\* Without a client all is quiet.
LEMMA NextQuietInv ==
    ASSUME InTurn, RelayTypes, SessionInv, TurnInv, [Next]_vars PROVE QuietInv'
<1> USE RelayAssumptions DEF QuietInv
<1>0. QuietInv
  BY DEF TurnInv
<1> USE <1>0
<1>1. ASSUME NEW g \in Convs, PutsQuery(g) PROVE QuietInv'
  <2>1. conv[g].service \in Services /\ current[conv[g].service] = g /\ g # None /\ call[g] \in Queries
    BY <1>1, ServiceOf DEF PutsQuery
  <2>2. PICK style \in Styles : signals' = Append(signals, [what |-> style, service |-> conv[g].service, query |-> call[g]])
    BY <1>1 DEF PutsQuery
  <2>3. /\ Len(signals) \in Nat /\ DOMAIN signals = 1..Len(signals)
        /\ Len(signals') = Len(signals) + 1 /\ DOMAIN signals' = 1..(Len(signals) + 1)
        /\ \A i \in 1..Len(signals) : signals'[i] = signals[i]
        /\ signals'[Len(signals) + 1] = [what |-> style, service |-> conv[g].service, query |-> call[g]]
    BY <2>1, <2>2, QuestionSignal, Appended DEF RelayTypes
  <2>4. client /\ UNCHANGED <<current, reset, messages, shown, view, client>>
    BY <1>1 DEF PutsQuery, clientVars
  <2> QED BY <2>1, <2>2, <2>3, <2>4
<1>2. ASSUME NEW g \in Convs, WorkerExited(g) PROVE QuietInv'
  <2>1. conv[g].service \in Services /\ current[conv[g].service] = g /\ g # None
    BY <1>2 DEF WorkerExited, SessionInv, ConvInv, Convs
  <2>2. client => /\ Len(signals) \in Nat /\ DOMAIN signals = 1..Len(signals)
                  /\ Len(signals') = Len(signals) + 1 /\ DOMAIN signals' = 1..(Len(signals) + 1)
                  /\ \A i \in 1..Len(signals) : signals'[i] = signals[i]
                  /\ signals'[Len(signals) + 1] = [what |-> "stopped", service |-> conv[g].service, query |-> None]
    BY <1>2, <2>1, EndSignal, Appended DEF WorkerExited, Signal, RelayTypes, Ends
  <2>3. ~client => signals' = signals
    BY <1>2 DEF WorkerExited, Signal
  <2>4. UNCHANGED <<reset, messages, shown, view, client>>
    BY <1>2 DEF WorkerExited, clientVars
  <2>5. \A t \in Services : current'[t] = IF t = conv[g].service THEN None ELSE current[t]
    BY <1>2 DEF WorkerExited, RelayTypes
  <2> QED BY <2>1, <2>2, <2>3, <2>4, <2>5
<1>3. ASSUME NEW g \in Convs, ConversationFails(g) PROVE QuietInv'
  <2>1. conv[g].service \in Services /\ current[conv[g].service] = g /\ g # None
    BY <1>3 DEF ConversationFails, SessionInv, ConvInv, Convs
  <2>2. client => /\ Len(signals) \in Nat /\ DOMAIN signals = 1..Len(signals)
                  /\ Len(signals') = Len(signals) + 1 /\ DOMAIN signals' = 1..(Len(signals) + 1)
                  /\ \A i \in 1..Len(signals) : signals'[i] = signals[i]
                  /\ signals'[Len(signals) + 1] = [what |-> "failed", service |-> conv[g].service, query |-> None]
    BY <1>3, <2>1, EndSignal, Appended DEF ConversationFails, Signal, RelayTypes, Ends
  <2>3. ~client => signals' = signals
    BY <1>3 DEF ConversationFails, Signal
  <2>4. UNCHANGED <<reset, messages, shown, view, client>>
    BY <1>3 DEF ConversationFails, clientVars
  <2>5. UNCHANGED current
    BY <1>3 DEF ConversationFails
  <2> QED BY <2>1, <2>2, <2>3, <2>4, <2>5
<1>4. CASE IgnoresAnswer
  <2>1. /\ Len(messages) \in Nat /\ DOMAIN messages = 1..Len(messages) /\ DOMAIN messages' = 1..(Len(messages) - 1)
        /\ 1 \in DOMAIN messages /\ Head(messages) = messages[1] /\ Len(messages') = Len(messages) - 1
        /\ \A i \in DOMAIN messages' : i \in Nat /\ i > 0 /\ i + 1 \in DOMAIN messages /\ messages'[i] = messages[i + 1]
    BY <1>4, Taken DEF IgnoresAnswer, Arrived, Take, RelayTypes
  <2>2. messages[1].what = "answer"
    BY <1>4, <2>1 DEF IgnoresAnswer, Arrived
  <2>3. UNCHANGED <<current, reset, signals, shown, view, client>>
    BY <1>4 DEF IgnoresAnswer, sessionVars, clientVars
  <2> QED BY <2>1, <2>2, <2>3
<1>5. ASSUME NEW g \in Convs, GivesAnswer(g) PROVE QuietInv'
  <2>1. /\ Len(messages) \in Nat /\ DOMAIN messages = 1..Len(messages) /\ DOMAIN messages' = 1..(Len(messages) - 1)
        /\ 1 \in DOMAIN messages /\ Head(messages) = messages[1] /\ Len(messages') = Len(messages) - 1
        /\ \A i \in DOMAIN messages' : i \in Nat /\ i > 0 /\ i + 1 \in DOMAIN messages /\ messages'[i] = messages[i + 1]
    BY <1>5, Taken DEF GivesAnswer, Arrived, Take, RelayTypes
  <2>2. messages[1].what = "answer"
    BY <1>5, <2>1 DEF GivesAnswer, Arrived
  <2>3. UNCHANGED <<current, reset, signals, shown, view, client>>
    BY <1>5 DEF GivesAnswer, sessionVars, clientVars
  <2> QED BY <2>1, <2>2, <2>3
<1>6. ASSUME NEW s \in Services \ {Autologin}, Begins(s) PROVE QuietInv'
  <2>1. /\ Len(messages) \in Nat /\ DOMAIN messages = 1..Len(messages) /\ DOMAIN messages' = 1..(Len(messages) - 1)
        /\ 1 \in DOMAIN messages /\ Head(messages) = messages[1] /\ Len(messages') = Len(messages) - 1
        /\ \A i \in DOMAIN messages' : i \in Nat /\ i > 0 /\ i + 1 \in DOMAIN messages /\ messages'[i] = messages[i + 1]
    BY <1>6, Taken DEF Begins, Arrived, Take, RelayTypes
  <2>2. messages[1].what = "begin" /\ messages[1].service = s
    BY <1>6, <2>1 DEF Begins, Arrived
  <2>3. UNCHANGED <<reset, signals, shown, view, client>>
    BY <1>6 DEF Begins, clientVars
  <2>4. /\ started' \in Convs /\ started' # None /\ \A t \in Services : current'[t] = IF t = s THEN started' ELSE current[t]
    BY <1>6, Started DEF Begins, SessionInv, Convs, RelayTypes
  <2> QED BY <2>1, <2>2, <2>3, <2>4
<1>7. ASSUME NEW s \in Services \ {Autologin}, Refuses(s) PROVE QuietInv'
  <2>1. FALSE
    BY <1>7, NeverRefused DEF TurnInv
  <2> QED BY <2>1
<1>8. CASE HandleCancel
  <2>1. /\ Len(messages) \in Nat /\ DOMAIN messages = 1..Len(messages) /\ DOMAIN messages' = 1..(Len(messages) - 1)
        /\ 1 \in DOMAIN messages /\ Head(messages) = messages[1] /\ Len(messages') = Len(messages) - 1
        /\ \A i \in DOMAIN messages' : i \in Nat /\ i > 0 /\ i + 1 \in DOMAIN messages /\ messages'[i] = messages[i + 1]
    BY <1>8, Taken DEF HandleCancel, Arrived, Take, RelayTypes
  <2>2. messages[1].what = "cancel"
    BY <1>8, <2>1 DEF HandleCancel, Arrived
  <2>3. reset' /\ UNCHANGED <<current, signals, shown, view, client>>
    BY <1>8 DEF HandleCancel, clientVars
  <2> QED BY <2>1, <2>2, <2>3
<1>9. CASE OnResetSession
  <2>1. reset /\ ~reset' /\ \A t \in Services : current'[t] = None
    BY <1>9 DEF OnResetSession
  <2>2. client => /\ Len(signals) \in Nat /\ DOMAIN signals = 1..Len(signals)
                  /\ Len(signals') = Len(signals) + 1 /\ DOMAIN signals' = 1..(Len(signals) + 1)
                  /\ \A i \in 1..Len(signals) : signals'[i] = signals[i]
                  /\ signals'[Len(signals) + 1] = [what |-> "reset", service |-> None, query |-> None]
    BY <1>9, ResetSignal, Appended DEF OnResetSession, Signal, RelayTypes
  <2>3. ~client => signals' = signals
    BY <1>9 DEF OnResetSession, Signal
  <2>4. UNCHANGED <<messages, shown, view, client>>
    BY <1>9 DEF OnResetSession, clientVars
  <2> QED BY <2>1, <2>2, <2>3, <2>4
<1>10. CASE HearsReset
  <2>1. /\ Len(signals) \in Nat /\ DOMAIN signals = 1..Len(signals) /\ DOMAIN signals' = 1..(Len(signals) - 1)
        /\ 1 \in DOMAIN signals /\ Head(signals) = signals[1] /\ Len(signals') = Len(signals) - 1
        /\ \A i \in DOMAIN signals' : i \in Nat /\ i > 0 /\ i + 1 \in DOMAIN signals /\ signals'[i] = signals[i + 1]
    BY <1>10, Taken DEF HearsReset, RelayTypes
  <2>2. signals[1].what = "reset"
    BY <1>10, <2>1 DEF HearsReset
  <2>3. \A t \in Services : shown'[t] = None /\ view'[t] = "none"
    BY <1>10 DEF HearsReset
  <2>4. UNCHANGED <<current, reset, messages, client>>
    BY <1>10 DEF HearsReset, sessionVars
  <2> QED BY <2>1, <2>2, <2>3, <2>4
<1>11. ASSUME NEW s \in Services, HearsEnd(s) PROVE QuietInv'
  <2>1. /\ Len(signals) \in Nat /\ DOMAIN signals = 1..Len(signals) /\ DOMAIN signals' = 1..(Len(signals) - 1)
        /\ 1 \in DOMAIN signals /\ Head(signals) = signals[1] /\ Len(signals') = Len(signals) - 1
        /\ \A i \in DOMAIN signals' : i \in Nat /\ i > 0 /\ i + 1 \in DOMAIN signals /\ signals'[i] = signals[i + 1]
    BY <1>11, Taken DEF HearsEnd, RelayTypes
  <2>2. signals[1].what \in Ends /\ signals[1].service = s
    BY <1>11, <2>1 DEF HearsEnd
  <2>3. \A t \in Services : shown'[t] = IF t = s THEN None ELSE shown[t]
    BY <1>11 DEF HearsEnd, RelayTypes
  <2>4. \A t \in Services : view'[t] = IF t # s \/ view[t] = "cancelling" THEN view[t]
                                 ELSE IF signals[1].what = "failed" THEN "failed" ELSE "none"
    BY <1>11, <2>1 DEF HearsEnd, RelayTypes
  <2>5. UNCHANGED <<current, reset, messages, client>>
    BY <1>11 DEF HearsEnd, sessionVars
  <2> QED BY <2>1, <2>2, <2>3, <2>4, <2>5
<1>12. ASSUME NEW s \in Services, HearsQuestion(s) PROVE QuietInv'
  <2>1. /\ Len(signals) \in Nat /\ DOMAIN signals = 1..Len(signals) /\ DOMAIN signals' = 1..(Len(signals) - 1)
        /\ 1 \in DOMAIN signals /\ Head(signals) = signals[1] /\ Len(signals') = Len(signals) - 1
        /\ \A i \in DOMAIN signals' : i \in Nat /\ i > 0 /\ i + 1 \in DOMAIN signals /\ signals'[i] = signals[i + 1]
    BY <1>12, Taken DEF HearsQuestion, RelayTypes
  <2>2. signals[1] \in QuestionSet /\ signals[1].service = s
    BY <1>12, <2>1 DEF HearsQuestion
  <2>3. \A t \in Services : shown'[t] = IF t # s THEN shown[t]
                                  ELSE IF view[t] = "cancelling" THEN None ELSE signals[1]
    BY <1>12, <2>1 DEF HearsQuestion, RelayTypes
  <2>4. UNCHANGED <<current, reset, messages, view, client>>
    BY <1>12 DEF HearsQuestion, sessionVars
  <2> QED BY <2>1, <2>2, <2>3, <2>4
<1>13. CASE ClientCancels
  <2>1. [what |-> "cancel", service |-> None, style |-> None, answer |-> None] \in MessageSet
    BY DEF MessageSet
  <2>2. /\ Len(messages) \in Nat /\ DOMAIN messages = 1..Len(messages)
        /\ Len(messages') = Len(messages) + 1 /\ DOMAIN messages' = 1..(Len(messages) + 1)
        /\ \A i \in 1..Len(messages) : messages'[i] = messages[i]
        /\ messages'[Len(messages) + 1] = [what |-> "cancel", service |-> None, style |-> None, answer |-> None]
    BY <1>13, <2>1, Appended DEF ClientCancels, Send, RelayTypes
  <2>3. \A t \in Services : shown'[t] = None /\ view'[t] = "cancelling"
    BY <1>13 DEF ClientCancels
  <2>4. client /\ (\E t \in Services : view[t] = "begun") /\ UNCHANGED <<current, reset, signals, client>>
    BY <1>13 DEF ClientCancels, sessionVars
  <2> QED BY <2>1, <2>2, <2>3, <2>4
<1>14. ASSUME NEW s \in Services, ClientBegins(s) PROVE QuietInv'
  <2>1. [what |-> "begin", service |-> s, style |-> None, answer |-> None] \in MessageSet /\ s # Autologin /\ client /\ view[s] = "none"
    BY <1>14 DEF ClientBegins, MessageSet
  <2>2. /\ Len(messages) \in Nat /\ DOMAIN messages = 1..Len(messages)
        /\ Len(messages') = Len(messages) + 1 /\ DOMAIN messages' = 1..(Len(messages) + 1)
        /\ \A i \in 1..Len(messages) : messages'[i] = messages[i]
        /\ messages'[Len(messages) + 1] = [what |-> "begin", service |-> s, style |-> None, answer |-> None]
    BY <1>14, <2>1, Appended DEF ClientBegins, Send, RelayTypes
  <2>3. \A t \in Services : view'[t] = IF t = s THEN "begun" ELSE view[t]
    BY <1>14 DEF ClientBegins, RelayTypes
  <2>4. UNCHANGED <<current, reset, signals, shown, client>>
    BY <1>14 DEF ClientBegins, sessionVars
  <2> QED BY <2>1, <2>2, <2>3, <2>4
<1>15. ASSUME NEW s \in Services, ClientAnswers(s) PROVE QuietInv'
  <2>1. shown[s] # None /\ shown[s].what \in Styles /\ shown[s].query \in Queries
    BY <1>15, AnswersShown
  <2>2. PICK ok \in BOOLEAN :
          messages' = Append(messages, [what |-> "answer", service |-> s, style |-> shown[s].what, answer |-> [query |-> shown[s].query, ok |-> ok]])
    BY <1>15, AnswersShown
  <2>3. [what |-> "answer", service |-> s, style |-> shown[s].what, answer |-> [query |-> shown[s].query, ok |-> ok]] \in MessageSet
    BY <2>1 DEF MessageSet, Answers
  <2>4. /\ Len(messages) \in Nat /\ DOMAIN messages = 1..Len(messages)
        /\ Len(messages') = Len(messages) + 1 /\ DOMAIN messages' = 1..(Len(messages) + 1)
        /\ \A i \in 1..Len(messages) : messages'[i] = messages[i]
        /\ messages'[Len(messages) + 1] = [what |-> "answer", service |-> s, style |-> shown[s].what, answer |-> [query |-> shown[s].query, ok |-> ok]]
    BY <2>2, <2>3, Appended DEF RelayTypes
  <2>5. \A t \in Services : shown'[t] = IF t = s THEN None ELSE shown[t]
    BY <1>15 DEF ClientAnswers, RelayTypes
  <2>6. UNCHANGED <<current, reset, signals, view, client>>
    BY <1>15 DEF ClientAnswers, sessionVars
  <2> QED BY <2>1, <2>2, <2>3, <2>4, <2>5, <2>6
<1>16. ASSUME NEW names \in SUBSET Extensions, ClientConnects(names) PROVE QuietInv'
  <2>1. client'
    BY <1>16 DEF ClientConnects
  <2> QED BY <2>1
<1>17. CASE StartByManager
  <2>1. ~client /\ UNCHANGED <<reset, signals, messages, shown, view, client>>
    BY <1>17 DEF StartByManager, clientVars
  <2>2. /\ started' \in Convs /\ started' # None /\ \A t \in Services : current'[t] = IF t = Autologin THEN started' ELSE current[t]
    BY <1>17, Started DEF StartByManager, SessionInv, Convs, RelayTypes
  <2>3. signals = <<>> /\ messages = <<>> /\ \A t \in Services : shown[t] = None
    BY <2>1 DEF TurnInv, QuietInv
  <2> QED BY <2>1, <2>2, <2>3
<1>18. CASE UNCHANGED <<current, reset, signals, messages, shown, view, client>>
  BY <1>18
<1> HIDE <1>0 DEF QuietInv
<1>19. \/ (\E g \in Convs : PutsQuery(g))
       \/ (\E g \in Convs : WorkerExited(g))
       \/ (\E g \in Convs : ConversationFails(g))
       \/ IgnoresAnswer
       \/ (\E g \in Convs : GivesAnswer(g))
       \/ (\E s \in Services \ {Autologin} : Begins(s))
       \/ (\E s \in Services \ {Autologin} : Refuses(s))
       \/ HandleCancel
       \/ OnResetSession
       \/ HearsReset
       \/ (\E s \in Services : HearsEnd(s))
       \/ (\E s \in Services : HearsQuestion(s))
       \/ ClientCancels
       \/ (\E s \in Services : ClientBegins(s))
       \/ (\E s \in Services : ClientAnswers(s))
       \/ (\E names \in SUBSET Extensions : ClientConnects(names))
       \/ StartByManager
       \/ UNCHANGED <<current, reset, signals, messages, shown, view, client>>
  BY StepCases, Zenon DEF StopOtherConversations, Works, Asks, IsAnswered, WorkerEnds, RefusesQuery, vars, sessionVars,
     workerVars,
     clientVars
<1> QED BY <1>1, <1>2, <1>3, <1>4, <1>5, <1>6, <1>7, <1>8, <1>9, <1>10, <1>11, <1>12,
           <1>13, <1>14, <1>15, <1>16, <1>17, <1>18, <1>19, Zenon

\* What may be answered stays what is pending.
LEMMA NextTokenInv ==
    ASSUME InTurn, RelayTypes, SessionInv, TurnInv, [Next]_vars PROVE TokenInv'
<1> USE RelayAssumptions DEF TokenInv, IsSignal, IsQuestion, IsAnswer
<1>00. /\ None \notin Queries
      /\ \A t \in Services : shown[t] # None => shown[t].query \in Queries
      /\ \A i \in DOMAIN messages : messages[i].what = "answer" => messages[i].answer.query \in Queries
  <2>1. \A i \in DOMAIN messages : messages[i] \in MessageSet
    BY LenProperties, ElementOfSeq DEF RelayTypes
  <2>2. \A i \in DOMAIN messages : messages[i].what = "answer" => messages[i].answer.query \in Queries
    BY <2>1 DEF MessageSet, Answers
  <2>3. None \notin Queries
    BY DEF Queries
  <2>4. \A t \in Services : shown[t] # None => shown[t].query \in Queries
    BY DEF RelayTypes, QuestionSet
  <2> QED BY <2>2, <2>3, <2>4
<1>0. TokenInv /\ BeginInv
  BY DEF TurnInv
<1> USE <1>0, <1>00
<1>1. ASSUME NEW g \in Convs, PutsQuery(g) PROVE TokenInv'
  <2>1. conv[g].service \in Services /\ current[conv[g].service] = g /\ g # None /\ call[g] \in Queries
    BY <1>1, ServiceOf DEF PutsQuery
  <2>2. PICK style \in Styles : signals' = Append(signals, [what |-> style, service |-> conv[g].service, query |-> call[g]])
    BY <1>1 DEF PutsQuery
  <2>3. /\ Len(signals) \in Nat /\ DOMAIN signals = 1..Len(signals)
        /\ Len(signals') = Len(signals) + 1 /\ DOMAIN signals' = 1..(Len(signals) + 1)
        /\ \A i \in 1..Len(signals) : signals'[i] = signals[i]
        /\ signals'[Len(signals) + 1] = [what |-> style, service |-> conv[g].service, query |-> call[g]]
    BY <2>1, <2>2, QuestionSignal, Appended DEF RelayTypes
  <2>4. client /\ UNCHANGED <<current, reset, messages, shown, view, client>>
    BY <1>1 DEF PutsQuery, clientVars
  <2>5. \A t \in Services : current[t] # None => current[t] \in Convs /\ conv[current[t]].service = t
    BY DEF RelayTypes, SessionInv, ConvInv
  <2>6. PICK s \in Services : s = conv[g].service /\ current[s] = g /\ g # None
    BY <2>1
  <2>7. Pending(s) = None /\ Pending(s)' = call[g]
    BY <1>1, <2>1, <2>4, <2>6 DEF PutsQuery, Pending, RelayTypes, ConvSet
  <2>8. \A t \in Services : t # s /\ current[t] # None => Pending(t)' = Pending(t)
    BY <1>1, <2>4, <2>5, <2>6 DEF PutsQuery, Pending, RelayTypes
  <2>9. /\ shown[s] = None
        /\ \A i \in DOMAIN signals : ~IsQuestion(i, s)
        /\ \A i \in DOMAIN messages : ~IsAnswer(i, s)
    <3>1. \A i \in DOMAIN signals : IsQuestion(i, s) => signals[i].query = None
      BY <2>6, <2>7
    <3>2. shown[s] # None => shown[s].query = None
      BY <2>6, <2>7
    <3>3. \A i \in DOMAIN messages : IsAnswer(i, s) => messages[i].answer.query = None
      BY <2>6, <2>7
    <3> HIDE DEF TokenInv
    <3>4. \A i \in DOMAIN signals : ~IsQuestion(i, s)
      BY <3>1
    <3>5. shown[s] = None
      BY <3>2
    <3>6. ASSUME NEW i \in DOMAIN messages, IsAnswer(i, s) PROVE FALSE
      <4>0. i \in DOMAIN messages /\ messages[i].what = "answer"
        BY <3>6
      <4>1. messages[i].answer.query \in Queries
        BY <4>0, AnswerNamesQuery
      <4>2. messages[i].answer.query = None
        BY <3>3, <3>6
      <4> QED BY <4>1, <4>2
    <3> QED BY <3>4, <3>5, <3>6
  <2>10. ASSUME NEW i \in DOMAIN signals', NEW t \in Services, IsQuestion(i, t)'
        PROVE  IF t = s THEN i = Len(signals) + 1 ELSE i \in DOMAIN signals /\ IsQuestion(i, t)
    BY <2>3, <2>6, <2>9, <2>10
  <2>11. signals'[Len(signals) + 1].query = call[g]
    BY <2>3
  <2>12. \A j, t : IsAnswer(j, t)' <=> IsAnswer(j, t)
    BY <2>4
  <2> QED BY <2>1, <2>2, <2>3, <2>4, <2>5, <2>6, <2>7, <2>8, <2>9, <2>10, <2>11, <2>12
<1>2. ASSUME NEW g \in Convs, WorkerExited(g) PROVE TokenInv'
  <2>1. conv[g].service \in Services /\ current[conv[g].service] = g /\ g # None
    BY <1>2 DEF WorkerExited, SessionInv, ConvInv, Convs
  <2>2. client => /\ Len(signals) \in Nat /\ DOMAIN signals = 1..Len(signals)
                  /\ Len(signals') = Len(signals) + 1 /\ DOMAIN signals' = 1..(Len(signals) + 1)
                  /\ \A i \in 1..Len(signals) : signals'[i] = signals[i]
                  /\ signals'[Len(signals) + 1] = [what |-> "stopped", service |-> conv[g].service, query |-> None]
    BY <1>2, <2>1, EndSignal, Appended DEF WorkerExited, Signal, RelayTypes, Ends
  <2>3. ~client => signals' = signals
    BY <1>2 DEF WorkerExited, Signal
  <2>4. UNCHANGED <<reset, messages, shown, view, client>>
    BY <1>2 DEF WorkerExited, clientVars
  <2>5. \A t \in Services : current'[t] = IF t = conv[g].service THEN None ELSE current[t]
    BY <1>2 DEF WorkerExited, RelayTypes
  <2>6. \A t \in Services : current[t] # None => current[t] \in Convs /\ conv[current[t]].service = t
    BY DEF RelayTypes, SessionInv, ConvInv
  <2>7. \A t \in Services : t # conv[g].service /\ current[t] # None => Pending(t)' = Pending(t)
    BY <1>2, <2>5, <2>6 DEF WorkerExited, Pending, RelayTypes
  <2> QED BY <2>1, <2>2, <2>3, <2>4, <2>5, <2>6, <2>7
<1>3. ASSUME NEW g \in Convs, ConversationFails(g) PROVE TokenInv'
  <2>1. conv[g].service \in Services /\ current[conv[g].service] = g /\ g # None
    BY <1>3 DEF ConversationFails, SessionInv, ConvInv, Convs
  <2>2. client => /\ Len(signals) \in Nat /\ DOMAIN signals = 1..Len(signals)
                  /\ Len(signals') = Len(signals) + 1 /\ DOMAIN signals' = 1..(Len(signals) + 1)
                  /\ \A i \in 1..Len(signals) : signals'[i] = signals[i]
                  /\ signals'[Len(signals) + 1] = [what |-> "failed", service |-> conv[g].service, query |-> None]
    BY <1>3, <2>1, EndSignal, Appended DEF ConversationFails, Signal, RelayTypes, Ends
  <2>3. ~client => signals' = signals
    BY <1>3 DEF ConversationFails, Signal
  <2>4. UNCHANGED <<reset, messages, shown, view, client>>
    BY <1>3 DEF ConversationFails, clientVars
  <2>5. UNCHANGED current
    BY <1>3 DEF ConversationFails
  <2>6. \A t \in Services : current[t] # None => current[t] \in Convs /\ conv[current[t]].service = t
    BY DEF RelayTypes, SessionInv, ConvInv
  <2>7. \A t \in Services : current[t] # None => Pending(t)' = Pending(t)
    BY <1>3, <2>5, <2>6 DEF ConversationFails, Pending, RelayTypes, ConvSet
  <2> QED BY <2>1, <2>2, <2>3, <2>4, <2>5, <2>6, <2>7
<1>4. CASE IgnoresAnswer
  <2>1. /\ Len(messages) \in Nat /\ DOMAIN messages = 1..Len(messages) /\ DOMAIN messages' = 1..(Len(messages) - 1)
        /\ 1 \in DOMAIN messages /\ Head(messages) = messages[1] /\ Len(messages') = Len(messages) - 1
        /\ \A i \in DOMAIN messages' : i \in Nat /\ i > 0 /\ i + 1 \in DOMAIN messages /\ messages'[i] = messages[i + 1]
    BY <1>4, Taken DEF IgnoresAnswer, Arrived, Take, RelayTypes
  <2>2. messages[1].what = "answer"
    BY <1>4, <2>1 DEF IgnoresAnswer, Arrived
  <2>3. UNCHANGED <<current, reset, signals, shown, view, client>>
    BY <1>4 DEF IgnoresAnswer, sessionVars, clientVars
  <2>4. \A t \in Services : Pending(t)' = Pending(t)
    BY <1>4 DEF IgnoresAnswer, Pending, sessionVars
  <2> QED BY <2>1, <2>2, <2>3, <2>4
<1>5. ASSUME NEW g \in Convs, GivesAnswer(g) PROVE TokenInv'
  <2>1. /\ Len(messages) \in Nat /\ DOMAIN messages = 1..Len(messages) /\ DOMAIN messages' = 1..(Len(messages) - 1)
        /\ 1 \in DOMAIN messages /\ Head(messages) = messages[1] /\ Len(messages') = Len(messages) - 1
        /\ \A i \in DOMAIN messages' : i \in Nat /\ i > 0 /\ i + 1 \in DOMAIN messages /\ messages'[i] = messages[i + 1]
    BY <1>5, Taken DEF GivesAnswer, Arrived, Take, RelayTypes
  <2>2. messages[1].what = "answer"
    BY <1>5, <2>1 DEF GivesAnswer, Arrived
  <2>3. UNCHANGED <<current, reset, signals, shown, view, client>>
    BY <1>5 DEF GivesAnswer, sessionVars, clientVars
  <2>4. \A t \in Services : current[t] # None => current[t] \in Convs /\ conv[current[t]].service = t
    BY DEF RelayTypes, SessionInv, ConvInv
  <2>5. messages[1].service \in Services /\ current[messages[1].service] = g /\ g # None
    BY <1>5, <2>1, <2>2, Taken DEF GivesAnswer, Arrived, RelayTypes, MessageSet, Convs
  <2>6. \A t \in Services : t # messages[1].service /\ current[t] # None => Pending(t)' = Pending(t)
    <3>1. \A t \in Services : t # messages[1].service /\ current[t] # None =>
              current[t] # g /\ current[t] \in Convs
      BY <2>4, <2>5
    <3>2. \A h \in Convs : h # g => conv'[h] = conv[h]
      BY <1>5 DEF GivesAnswer, RelayTypes
    <3> QED BY <2>3, <3>1, <3>2 DEF Pending
  <2> QED BY <2>1, <2>2, <2>3, <2>4, <2>5, <2>6
<1>6. ASSUME NEW s \in Services \ {Autologin}, Begins(s) PROVE TokenInv'
  <2>1. /\ Len(messages) \in Nat /\ DOMAIN messages = 1..Len(messages) /\ DOMAIN messages' = 1..(Len(messages) - 1)
        /\ 1 \in DOMAIN messages /\ Head(messages) = messages[1] /\ Len(messages') = Len(messages) - 1
        /\ \A i \in DOMAIN messages' : i \in Nat /\ i > 0 /\ i + 1 \in DOMAIN messages /\ messages'[i] = messages[i + 1]
    BY <1>6, Taken DEF Begins, Arrived, Take, RelayTypes
  <2>2. messages[1].what = "begin" /\ messages[1].service = s
    BY <1>6, <2>1 DEF Begins, Arrived
  <2>3. UNCHANGED <<reset, signals, shown, view, client>>
    BY <1>6 DEF Begins, clientVars
  <2>4. /\ started' \in Convs /\ started' # None /\ \A t \in Services : current'[t] = IF t = s THEN started' ELSE current[t]
    BY <1>6, Started DEF Begins, SessionInv, Convs, RelayTypes
  <2>5. \A t \in Services : current[t] # None => current[t] \in Convs /\ conv[current[t]].service = t
    BY DEF RelayTypes, SessionInv, ConvInv
  <2>6. \A t \in Services : t # s /\ current[t] # None =>
          current[t] # started' /\ current[t] # current[s]
    BY <1>6, <2>5, Started DEF Begins, SessionInv
  <2>7. \A t \in Services : t # s /\ current[t] # None => Pending(t)' = Pending(t)
    BY <1>6, <2>5, <2>6, <2>4, Started DEF Begins, SessionInv, Pending
  <2> QED BY <2>1, <2>2, <2>3, <2>4, <2>5, <2>6, <2>7 DEF BeginInv, NothingHeard, IsBegin
<1>7. ASSUME NEW s \in Services \ {Autologin}, Refuses(s) PROVE TokenInv'
  <2>1. FALSE
    BY <1>7, NeverRefused DEF TurnInv
  <2> QED BY <2>1
<1>8. CASE HandleCancel
  <2>1. /\ Len(messages) \in Nat /\ DOMAIN messages = 1..Len(messages) /\ DOMAIN messages' = 1..(Len(messages) - 1)
        /\ 1 \in DOMAIN messages /\ Head(messages) = messages[1] /\ Len(messages') = Len(messages) - 1
        /\ \A i \in DOMAIN messages' : i \in Nat /\ i > 0 /\ i + 1 \in DOMAIN messages /\ messages'[i] = messages[i + 1]
    BY <1>8, Taken DEF HandleCancel, Arrived, Take, RelayTypes
  <2>2. messages[1].what = "cancel"
    BY <1>8, <2>1 DEF HandleCancel, Arrived
  <2>3. reset' /\ UNCHANGED <<current, signals, shown, view, client>>
    BY <1>8 DEF HandleCancel, clientVars
  <2>4. \A t \in Services : Pending(t)' = Pending(t)
    BY <1>8 DEF HandleCancel, Pending, sessionVars
  <2> QED BY <2>1, <2>2, <2>3, <2>4
<1>9. CASE OnResetSession
  <2>1. reset /\ ~reset' /\ \A t \in Services : current'[t] = None
    BY <1>9 DEF OnResetSession
  <2>2. client => /\ Len(signals) \in Nat /\ DOMAIN signals = 1..Len(signals)
                  /\ Len(signals') = Len(signals) + 1 /\ DOMAIN signals' = 1..(Len(signals) + 1)
                  /\ \A i \in 1..Len(signals) : signals'[i] = signals[i]
                  /\ signals'[Len(signals) + 1] = [what |-> "reset", service |-> None, query |-> None]
    BY <1>9, ResetSignal, Appended DEF OnResetSession, Signal, RelayTypes
  <2>3. ~client => signals' = signals
    BY <1>9 DEF OnResetSession, Signal
  <2>4. UNCHANGED <<messages, shown, view, client>>
    BY <1>9 DEF OnResetSession, clientVars
  <2> QED BY <2>1, <2>2, <2>3, <2>4
<1>10. CASE HearsReset
  <2>1. /\ Len(signals) \in Nat /\ DOMAIN signals = 1..Len(signals) /\ DOMAIN signals' = 1..(Len(signals) - 1)
        /\ 1 \in DOMAIN signals /\ Head(signals) = signals[1] /\ Len(signals') = Len(signals) - 1
        /\ \A i \in DOMAIN signals' : i \in Nat /\ i > 0 /\ i + 1 \in DOMAIN signals /\ signals'[i] = signals[i + 1]
    BY <1>10, Taken DEF HearsReset, RelayTypes
  <2>2. signals[1].what = "reset"
    BY <1>10, <2>1 DEF HearsReset
  <2>3. \A t \in Services : shown'[t] = None /\ view'[t] = "none"
    BY <1>10 DEF HearsReset
  <2>4. UNCHANGED <<current, reset, messages, client>>
    BY <1>10 DEF HearsReset, sessionVars
  <2>5. \A t \in Services : Pending(t)' = Pending(t)
    BY <1>10 DEF HearsReset, Pending, sessionVars
  <2> QED BY <2>1, <2>2, <2>3, <2>4, <2>5
<1>11. ASSUME NEW s \in Services, HearsEnd(s) PROVE TokenInv'
  <2>1. /\ Len(signals) \in Nat /\ DOMAIN signals = 1..Len(signals) /\ DOMAIN signals' = 1..(Len(signals) - 1)
        /\ 1 \in DOMAIN signals /\ Head(signals) = signals[1] /\ Len(signals') = Len(signals) - 1
        /\ \A i \in DOMAIN signals' : i \in Nat /\ i > 0 /\ i + 1 \in DOMAIN signals /\ signals'[i] = signals[i + 1]
    BY <1>11, Taken DEF HearsEnd, RelayTypes
  <2>2. signals[1].what \in Ends /\ signals[1].service = s
    BY <1>11, <2>1 DEF HearsEnd
  <2>3. \A t \in Services : shown'[t] = IF t = s THEN None ELSE shown[t]
    BY <1>11 DEF HearsEnd, RelayTypes
  <2>4. \A t \in Services : view'[t] = IF t # s \/ view[t] = "cancelling" THEN view[t]
                                 ELSE IF signals[1].what = "failed" THEN "failed" ELSE "none"
    BY <1>11, <2>1 DEF HearsEnd, RelayTypes
  <2>5. UNCHANGED <<current, reset, messages, client>>
    BY <1>11 DEF HearsEnd, sessionVars
  <2>6. \A t \in Services : Pending(t)' = Pending(t)
    BY <1>11 DEF HearsEnd, Pending, sessionVars
  <2> QED BY <2>1, <2>2, <2>3, <2>4, <2>5, <2>6
<1>12. ASSUME NEW s \in Services, HearsQuestion(s) PROVE TokenInv'
  <2>1. /\ Len(signals) \in Nat /\ DOMAIN signals = 1..Len(signals) /\ DOMAIN signals' = 1..(Len(signals) - 1)
        /\ 1 \in DOMAIN signals /\ Head(signals) = signals[1] /\ Len(signals') = Len(signals) - 1
        /\ \A i \in DOMAIN signals' : i \in Nat /\ i > 0 /\ i + 1 \in DOMAIN signals /\ signals'[i] = signals[i + 1]
    BY <1>12, Taken DEF HearsQuestion, RelayTypes
  <2>2. signals[1] \in QuestionSet /\ signals[1].service = s
    BY <1>12, <2>1 DEF HearsQuestion
  <2>3. \A t \in Services : shown'[t] = IF t # s THEN shown[t]
                                  ELSE IF view[t] = "cancelling" THEN None ELSE signals[1]
    BY <1>12, <2>1 DEF HearsQuestion, RelayTypes
  <2>4. UNCHANGED <<current, reset, messages, view, client>>
    BY <1>12 DEF HearsQuestion, sessionVars
  <2>5. \A t \in Services : Pending(t)' = Pending(t)
    BY <1>12 DEF HearsQuestion, Pending, sessionVars
  <2>6. signals[1].query # None
    BY <2>2 DEF QuestionSet
  <2>7. ASSUME current[s] # None
        PROVE  /\ signals[1].query = Pending(s) /\ shown[s] = None
               /\ \A j \in DOMAIN signals : j # 1 => ~IsQuestion(j, s)
               /\ \A j \in DOMAIN messages : ~IsAnswer(j, s)
    BY <2>1, <2>2, <2>6, <2>7
  <2>8. \A i \in DOMAIN signals' : \A t \in Services : IsQuestion(i, t)' => IsQuestion(i + 1, t) /\ i + 1 # 1
    BY <2>1
  <2>9. \A j, t : IsAnswer(j, t)' <=> IsAnswer(j, t)
    BY <2>4
  <2> QED BY <2>1, <2>2, <2>3, <2>4, <2>5, <2>6, <2>7, <2>8, <2>9
<1>13. CASE ClientCancels
  <2>1. [what |-> "cancel", service |-> None, style |-> None, answer |-> None] \in MessageSet
    BY DEF MessageSet
  <2>2. /\ Len(messages) \in Nat /\ DOMAIN messages = 1..Len(messages)
        /\ Len(messages') = Len(messages) + 1 /\ DOMAIN messages' = 1..(Len(messages) + 1)
        /\ \A i \in 1..Len(messages) : messages'[i] = messages[i]
        /\ messages'[Len(messages) + 1] = [what |-> "cancel", service |-> None, style |-> None, answer |-> None]
    BY <1>13, <2>1, Appended DEF ClientCancels, Send, RelayTypes
  <2>3. \A t \in Services : shown'[t] = None /\ view'[t] = "cancelling"
    BY <1>13 DEF ClientCancels
  <2>4. client /\ (\E t \in Services : view[t] = "begun") /\ UNCHANGED <<current, reset, signals, client>>
    BY <1>13 DEF ClientCancels, sessionVars
  <2>5. \A t \in Services : Pending(t)' = Pending(t)
    BY <1>13 DEF ClientCancels, Pending, sessionVars
  <2> QED BY <2>1, <2>2, <2>3, <2>4, <2>5
<1>14. ASSUME NEW s \in Services, ClientBegins(s) PROVE TokenInv'
  <2>1. [what |-> "begin", service |-> s, style |-> None, answer |-> None] \in MessageSet /\ s # Autologin /\ client /\ view[s] = "none"
    BY <1>14 DEF ClientBegins, MessageSet
  <2>2. /\ Len(messages) \in Nat /\ DOMAIN messages = 1..Len(messages)
        /\ Len(messages') = Len(messages) + 1 /\ DOMAIN messages' = 1..(Len(messages) + 1)
        /\ \A i \in 1..Len(messages) : messages'[i] = messages[i]
        /\ messages'[Len(messages) + 1] = [what |-> "begin", service |-> s, style |-> None, answer |-> None]
    BY <1>14, <2>1, Appended DEF ClientBegins, Send, RelayTypes
  <2>3. \A t \in Services : view'[t] = IF t = s THEN "begun" ELSE view[t]
    BY <1>14 DEF ClientBegins, RelayTypes
  <2>4. UNCHANGED <<current, reset, signals, shown, client>>
    BY <1>14 DEF ClientBegins, sessionVars
  <2>5. \A t \in Services : Pending(t)' = Pending(t)
    BY <1>14 DEF ClientBegins, Pending, sessionVars
  <2> QED BY <2>1, <2>2, <2>3, <2>4, <2>5
<1>15. ASSUME NEW s \in Services, ClientAnswers(s) PROVE TokenInv'
  <2>1. shown[s] # None /\ shown[s].what \in Styles /\ shown[s].query \in Queries
    BY <1>15, AnswersShown
  <2>2. PICK ok \in BOOLEAN :
          messages' = Append(messages, [what |-> "answer", service |-> s, style |-> shown[s].what, answer |-> [query |-> shown[s].query, ok |-> ok]])
    BY <1>15, AnswersShown
  <2>3. [what |-> "answer", service |-> s, style |-> shown[s].what, answer |-> [query |-> shown[s].query, ok |-> ok]] \in MessageSet
    BY <2>1 DEF MessageSet, Answers
  <2>4. /\ Len(messages) \in Nat /\ DOMAIN messages = 1..Len(messages)
        /\ Len(messages') = Len(messages) + 1 /\ DOMAIN messages' = 1..(Len(messages) + 1)
        /\ \A i \in 1..Len(messages) : messages'[i] = messages[i]
        /\ messages'[Len(messages) + 1] = [what |-> "answer", service |-> s, style |-> shown[s].what, answer |-> [query |-> shown[s].query, ok |-> ok]]
    BY <2>2, <2>3, Appended DEF RelayTypes
  <2>5. \A t \in Services : shown'[t] = IF t = s THEN None ELSE shown[t]
    BY <1>15 DEF ClientAnswers, RelayTypes
  <2>6. UNCHANGED <<current, reset, signals, view, client>>
    BY <1>15 DEF ClientAnswers, sessionVars
  <2>7. \A t \in Services : Pending(t)' = Pending(t)
    BY <1>15 DEF ClientAnswers, Pending, sessionVars
  <2> QED BY <2>1, <2>2, <2>3, <2>4, <2>5, <2>6, <2>7
<1>16. CASE StartByManager
  <2>1. ~client /\ UNCHANGED <<reset, signals, messages, shown, view, client>>
    BY <1>16 DEF StartByManager, clientVars
  <2>2. /\ started' \in Convs /\ started' # None /\ \A t \in Services : current'[t] = IF t = Autologin THEN started' ELSE current[t]
    BY <1>16, Started DEF StartByManager, SessionInv, Convs, RelayTypes
  <2>3. signals = <<>> /\ messages = <<>> /\ \A t \in Services : shown[t] = None
    BY <2>1 DEF TurnInv, QuietInv
  <2>4. \A t \in Services : current[t] # None => current[t] \in Convs /\ conv[current[t]].service = t
    BY DEF RelayTypes, SessionInv, ConvInv
  <2>5. \A t \in Services : t # Autologin /\ current[t] # None =>
          current[t] # started' /\ current[t] # current[Autologin]
    BY <1>16, <2>4, Started DEF StartByManager, SessionInv
  <2>6. \A t \in Services : t # Autologin /\ current[t] # None => Pending(t)' = Pending(t)
    BY <1>16, <2>4, <2>5, <2>2, Started DEF StartByManager, SessionInv, Pending
  <2> QED BY <2>1, <2>2, <2>3, <2>4, <2>5, <2>6
<1>17. CASE UNCHANGED <<current, conv, signals, messages, shown>>
  BY <1>17 DEF Pending
<1>19. ASSUME NEW g \in Convs, StopOtherConversations(g) PROVE TokenInv'
  <2>1. /\ UNCHANGED <<current, signals, messages, shown>>
        /\ \A h \in Convs : conv'[h].pending = conv[h].pending
    BY <1>19, OthersStop
  <2>2. \A t \in Services : current[t] # None => current[t] \in Convs
    BY DEF RelayTypes
  <2>3. \A t \in Services : current[t] # None => Pending(t)' = Pending(t)
    BY <2>1, <2>2 DEF Pending
  <2> QED BY <2>1, <2>3
<1> HIDE <1>0, <1>00 DEF TokenInv, IsSignal, IsQuestion, IsAnswer
<1>18. \/ (\E g \in Convs : PutsQuery(g))
       \/ (\E g \in Convs : WorkerExited(g))
       \/ (\E g \in Convs : ConversationFails(g))
       \/ (\E g \in Convs : StopOtherConversations(g))
       \/ IgnoresAnswer
       \/ (\E g \in Convs : GivesAnswer(g))
       \/ (\E s \in Services \ {Autologin} : Begins(s))
       \/ (\E s \in Services \ {Autologin} : Refuses(s))
       \/ HandleCancel
       \/ OnResetSession
       \/ HearsReset
       \/ (\E s \in Services : HearsEnd(s))
       \/ (\E s \in Services : HearsQuestion(s))
       \/ ClientCancels
       \/ (\E s \in Services : ClientBegins(s))
       \/ (\E s \in Services : ClientAnswers(s))
       \/ StartByManager
       \/ UNCHANGED <<current, conv, signals, messages, shown>>
  BY StepCases, Zenon DEF Works, Asks, IsAnswered, WorkerEnds, RefusesQuery, ClientConnects, vars,
     sessionVars,
     workerVars, clientVars
<1> QED BY <1>1, <1>2, <1>3, <1>4, <1>5, <1>6, <1>7, <1>8, <1>9, <1>10, <1>11, <1>12,
           <1>13, <1>14, <1>15, <1>16, <1>17, <1>18, <1>19, Zenon

\* A reply stays the one to the last question.
LEMMA NextReplyInv ==
    ASSUME InTurn, RelayTypes, SessionInv, TurnInv, [Next]_vars PROVE ReplyInv'
<1> USE RelayAssumptions DEF ReplyInv, Latest
<1>0. ReplyInv
  BY DEF TurnInv
<1> USE <1>0
<1>1. ASSUME NEW g \in Convs, Asks(g) PROVE ReplyInv'
  <2>1. \A q \in Queries : convOf[q] # None => q <= asked
    BY DEF SessionInv, QueryInv
  <2>2. PICK n \in Queries : n = asked + 1 /\ asked' = n /\ asked \in Nat
    BY <1>1 DEF Asks, RelayTypes, Queries
  <2>3. \A q \in Queries : convOf'[q] = IF q = n THEN g ELSE convOf[q]
    BY <1>1, <2>2 DEF Asks, RelayTypes
  <2>4. reply[g] = None /\ reply' = reply
    BY <1>1 DEF Asks, SessionInv, QueryInv
  <2>5. ASSUME NEW h \in Convs, h # g PROVE \A q \in Queries : convOf'[q] = h <=> convOf[q] = h
    <3>1. h # None
      BY DEF Convs
    <3> QED BY <2>1, <2>2, <2>3, <2>5, <3>1 DEF Queries
  <2>6. \A h \in Convs : reply[h] # None => reply[h].query \in Queries
    BY DEF RelayTypes, Answers
  <2> QED BY <2>4, <2>5, <2>6
<1>2. ASSUME NEW g \in Convs, IsAnswered(g) PROVE ReplyInv'
  <2>1. UNCHANGED convOf /\ \A h \in Convs : reply'[h] \in {reply[h], None}
    BY <1>2 DEF IsAnswered, Close, RelayTypes
  <2> QED BY <2>1
<1>3. ASSUME NEW g \in Convs, WorkerEnds(g) PROVE ReplyInv'
  <2>1. UNCHANGED convOf /\ \A h \in Convs : reply'[h] \in {reply[h], None}
    BY <1>3 DEF WorkerEnds, Close, RelayTypes
  <2> QED BY <2>1
<1>4. ASSUME NEW g \in Convs, RefusesQuery(g) PROVE ReplyInv'
  <2>1. Latest(g, call[g])
    BY <1>4, ServiceOf DEF RefusesQuery
  <2>2. UNCHANGED convOf /\ \A h \in Convs : reply'[h] = IF h = g THEN [query |-> call[g], ok |-> FALSE] ELSE reply[h]
    BY <1>4 DEF RefusesQuery, RelayTypes
  <2> QED BY <2>1, <2>2
<1>5. ASSUME NEW g \in Convs, ConversationFails(g) PROVE ReplyInv'
  <2>1. UNCHANGED convOf /\ \A h \in Convs : reply'[h] \in {reply[h], None}
    BY <1>5 DEF ConversationFails, Close, RelayTypes
  <2> QED BY <2>1
<1>6. ASSUME NEW g \in Convs, GivesAnswer(g) PROVE ReplyInv'
  <2>1. 1 \in DOMAIN messages /\ Head(messages) = messages[1] /\ messages[1] \in MessageSet
    BY <1>6, Taken DEF GivesAnswer, Arrived, RelayTypes
  <2>2. messages[1].service \in Services /\ IsAnswer(1, messages[1].service) /\ current[messages[1].service] = g
    BY <1>6, <2>1 DEF GivesAnswer, Arrived, MessageSet, IsAnswer
  <2>3. messages[1].answer.query = conv[g].pending
    BY <2>1, <2>2 DEF TurnInv, TokenInv, Pending, Convs
  <2>4. Connected(g) => Latest(g, conv[g].pending)
    BY <1>6 DEF GivesAnswer, SessionInv, QueryInv
  <2>5. UNCHANGED convOf /\ \A h \in Convs :
            reply'[h] = IF h = g THEN (IF Connected(g) THEN messages[1].answer ELSE None) ELSE reply[h]
    BY <1>6, <2>1 DEF GivesAnswer, RelayTypes
  <2> QED BY <2>3, <2>4, <2>5
<1>7. ASSUME NEW s \in Services \ {Autologin}, Begins(s) PROVE ReplyInv'
  <2>1. UNCHANGED convOf /\ \A h \in Convs : reply'[h] \in {reply[h], None}
    BY <1>7 DEF Begins, StartConversation, Free, Close, RelayTypes
  <2> QED BY <2>1
<1>8. CASE OnResetSession
  <2>1. UNCHANGED convOf /\ \A h \in Convs : reply'[h] \in {reply[h], None}
    BY <1>8 DEF OnResetSession, Free, Close, RelayTypes
  <2> QED BY <2>1
<1>9. CASE StartByManager
  <2>1. UNCHANGED convOf /\ \A h \in Convs : reply'[h] \in {reply[h], None}
    BY <1>9 DEF StartByManager, StartConversation, Free, Close, RelayTypes
  <2> QED BY <2>1
<1>12. ASSUME NEW g \in Convs, StopOtherConversations(g) PROVE ReplyInv'
  <2>1. UNCHANGED convOf /\ \A h \in Convs : reply'[h] \in {reply[h], None}
    BY <1>12, OthersStop
  <2> QED BY <2>1
<1>10. CASE UNCHANGED <<reply, convOf>>
  BY <1>10
<1> HIDE <1>0 DEF ReplyInv, Latest
<1>11. \/ (\E g \in Convs : Asks(g))
       \/ (\E g \in Convs : IsAnswered(g))
       \/ (\E g \in Convs : WorkerEnds(g))
       \/ (\E g \in Convs : RefusesQuery(g))
       \/ (\E g \in Convs : ConversationFails(g))
       \/ (\E g \in Convs : StopOtherConversations(g))
       \/ (\E g \in Convs : GivesAnswer(g))
       \/ (\E s \in Services \ {Autologin} : Begins(s))
       \/ OnResetSession
       \/ StartByManager
       \/ UNCHANGED <<reply, convOf>>
  BY StepCases, Zenon DEF Works, PutsQuery, WorkerExited, IgnoresAnswer, Refuses, HandleCancel,
     HearsReset,
     HearsEnd, HearsQuestion, ClientCancels, ClientBegins, ClientAnswers, ClientConnects,
     vars, sessionVars, workerVars, clientVars
<1> QED BY <1>1, <1>2, <1>3, <1>4, <1>5, <1>6, <1>7, <1>8, <1>9, <1>10, <1>11, <1>12, Zenon

-----------------------------------------------------------------------------
\* The inductive invariant of a client that begins in turn.
LEMMA InitTurnInv == ASSUME Init PROVE TurnInv
<1>1. /\ signals = <<>> /\ messages = <<>> /\ DOMAIN signals = {} /\ DOMAIN messages = {} /\ ~reset
      /\ \A s \in Services : current[s] = None /\ shown[s] = None /\ view[s] = "none"
      /\ \A g \in Convs : reply[g] = None
  BY DEF Init
<1> QED BY <1>1 DEF TurnInv, QuietInv, BeginInv, NothingHeard, StoppedInv, CancelInv, TokenInv,
       ReplyInv

\* In turn, both parts of the invariant hold in every reachable state.
LEMMA TurnInvariant == Spec => [](InTurn => TurnInv)
<1>1. RelayTypes /\ SessionInv /\ (InTurn => TurnInv) /\ [Next]_vars => (InTurn => TurnInv)'
  <2> SUFFICES ASSUME InTurn, RelayTypes, SessionInv, TurnInv, [Next]_vars PROVE TurnInv'
    OBVIOUS
  <2> QED BY NextQuietInv, NextBeginInv, NextStoppedInv, NextCancelInv, NextTokenInv, NextReplyInv
         DEF TurnInv
<1> QED BY <1>1, InitTurnInv, SessionInvariant, PTL DEF Spec

\* gdm_session_answer_query completes whatever query is pending at the service; with a
\* client that begins only what it knows to be over, that is the question the answer
\* was given for, although conversations die, restart and are reset meanwhile.
THEOREM AnswersAreRight == Spec => [](InTurn => RightAnswer)
<1>1. RelayTypes /\ SessionInv /\ (InTurn => TurnInv) => (InTurn => RightAnswer)
  <2> SUFFICES ASSUME RelayTypes, SessionInv, TurnInv, NEW g \in Convs, reply[g] # None
               PROVE  Waiting(g, reply[g].query)
    BY DEF RightAnswer
  <2>1. Latest(g, reply[g].query)
    BY DEF TurnInv, ReplyInv
  <2>2. Connected(g) /\ worker[g].state = "asking"
    BY DEF SessionInv, QueryInv
  <2> QED BY <2>1, <2>2 DEF Waiting, Latest, Connected
<1> QED BY <1>1, SessionInvariant, TurnInvariant, PTL

-----------------------------------------------------------------------------
(* What PAM gets for a batch.                                              *)

\* The replies so far: none to a text, and with a client that begins in turn each to a
\* question of its own, in the order they were asked.
RepliesOK(g) ==
    \A i \in DOMAIN worker[g].got :
        /\ worker[g].got[i] = None <=> worker[g].batch[i] = "text"
        /\ InTurn =>
              /\ worker[g].got[i] # None => convOf[worker[g].got[i]] = g
              /\ \A j \in 1..(i - 1) :
                    worker[g].got[i] # None /\ worker[g].got[j] # None => worker[g].got[j] < worker[g].got[i]

\* There is a reply for every message but the one that is being handled, and the question
\* that is asked is later than what has been answered.
BatchInv(g) ==
    /\ worker[g].state \notin {"message", "asking", "batch"} => worker[g].got = <<>>
    /\ worker[g].state = "idle" => worker[g].batch = <<>>
    /\ worker[g].state = "batch" => Len(worker[g].batch) = Len(worker[g].got)
    /\ worker[g].state \in {"message", "asking"} => Len(worker[g].batch) = Len(worker[g].got) + 1
    /\ RepliesOK(g)
    /\ worker[g].state = "asking" =>
          /\ Message(g) # "text"
          /\ InTurn => \A q \in Queries : Latest(g, q) =>
                \A i \in DOMAIN worker[g].got : worker[g].got[i] # None => worker[g].got[i] < q

\* The parts of a worker.
LEMMA WorkerParts ==
    ASSUME RelayTypes, NEW g \in Convs
    PROVE  /\ worker[g].batch \in Seq(Styles) /\ worker[g].got \in Seq(Queries \cup {None})
           /\ Len(worker[g].batch) \in Nat /\ Len(worker[g].got) \in Nat
           /\ DOMAIN worker[g].batch = 1..Len(worker[g].batch)
           /\ DOMAIN worker[g].got = 1..Len(worker[g].got)
           /\ \A i \in DOMAIN worker[g].got : worker[g].got[i] \in Queries \cup {None}
<1>1. worker[g].batch \in Seq(Styles) /\ worker[g].got \in Seq(Queries \cup {None})
  BY DEF RelayTypes, WorkerSet
<1> QED BY <1>1, LenProperties, ElementOfSeq

\* A worker that is idle or dead has no replies.
LEMMA NoReplies ==
    ASSUME NEW g \in Convs, worker'[g] \in {Idle, Dead}
    PROVE  BatchInv(g)'
<1>1. /\ worker'[g].state \in {"idle", "dead"} /\ worker'[g].batch = <<>> /\ worker'[g].got = <<>>
  BY DEF Idle, Dead, Absent
<1>2. DOMAIN worker'[g].got = {}
  BY <1>1
<1> QED BY <1>1, <1>2 DEF BatchInv, RepliesOK

\* A worker that does nothing, while no other asks in its name.
LEMMA SameReplies ==
    ASSUME RelayTypes, NEW g \in Convs, BatchInv(g), worker'[g] = worker[g],
           \A q \in Queries : convOf'[q] = g <=> convOf[q] = g
    PROVE  BatchInv(g)'
<1>1. \A i \in DOMAIN worker[g].got : worker[g].got[i] # None => worker[g].got[i] \in Queries
  BY WorkerParts
<1>2. RepliesOK(g)'
  BY <1>1 DEF BatchInv, RepliesOK
<1> QED BY <1>2 DEF BatchInv, Message, Latest

\* The reply to the message being handled is noted.
LEMMA OneMoreReply ==
    ASSUME RelayTypes, NEW g \in Convs, BatchInv(g), worker[g].state \in {"message", "asking"},
           NEW y \in Queries \cup {None},
           y = None <=> Message(g) = "text",
           InTurn /\ y # None =>
              /\ convOf[y] = g
              /\ \A i \in DOMAIN worker[g].got : worker[g].got[i] # None => worker[g].got[i] < y,
           worker'[g].state = "batch", worker'[g].batch = worker[g].batch,
           worker'[g].got = Append(worker[g].got, y), UNCHANGED convOf
    PROVE  BatchInv(g)'
<1> DEFINE n == Len(worker[g].got)
<1>1. /\ worker[g].got \in Seq(Queries \cup {None}) /\ n \in Nat
      /\ DOMAIN worker[g].got = 1..n /\ Len(worker[g].batch) = n + 1
  BY WorkerParts DEF BatchInv
<1>2. /\ DOMAIN worker'[g].got = 1..(n + 1) /\ Len(worker'[g].got) = n + 1
      /\ \A i \in 1..n : worker'[g].got[i] = worker[g].got[i]
      /\ worker'[g].got[n + 1] = y
  BY <1>1, Appended
<1>3. Message(g) = worker[g].batch[n + 1]
  BY <1>1 DEF Message
<1> HIDE DEF n
<1>4. RepliesOK(g)'
  <2> SUFFICES ASSUME NEW i \in 1..(n + 1)
               PROVE  /\ worker'[g].got[i] = None <=> worker'[g].batch[i] = "text"
                      /\ InTurn =>
                            /\ worker'[g].got[i] # None => convOf'[worker'[g].got[i]] = g
                            /\ \A j \in 1..(i - 1) : worker'[g].got[i] # None /\ worker'[g].got[j] # None
                                                     => worker'[g].got[j] < worker'[g].got[i]
    BY <1>2 DEF RepliesOK
  <2>1. CASE i = n + 1
    <3>1. \A j \in 1..(i - 1) : j \in 1..n
      BY <1>1, <2>1
    <3> QED BY <1>1, <1>2, <1>3, <2>1, <3>1
  <2>2. CASE i # n + 1
    <3>1. i \in 1..n /\ \A j \in 1..(i - 1) : j \in 1..n
      BY <1>1, <2>2
    <3> QED BY <1>1, <1>2, <3>1 DEF BatchInv, RepliesOK
  <2> QED BY <2>1, <2>2
<1> QED BY <1>1, <1>2, <1>4 DEF BatchInv

\* The steps of a worker keep its replies.
LEMMA WorkerBatchInv ==
    ASSUME RelayTypes, SessionInv, InTurn => TurnInv, NEW g \in Convs, BatchInv(g), WorkerStep(g)
    PROVE  BatchInv(g)'
<1> USE RelayAssumptions
<1>0. /\ worker \in [Convs -> WorkerSet] /\ worker[g] \in WorkerSet /\ None \notin Queries
      /\ reply \in [Convs -> Answers \cup {None}]
  BY DEF RelayTypes, Queries
<1>01. /\ worker[g].got \in Seq(Queries \cup {None}) /\ worker[g].batch \in Seq(Styles)
       /\ DOMAIN worker[g].got = 1..Len(worker[g].got) /\ Len(worker[g].got) \in Nat
  BY WorkerParts
<1>1. CASE WorkerConnects(g) \/ PamContinues(g) \/ WorkerEnds(g)
  BY <1>0, <1>1, NoReplies DEF WorkerConnects, PamContinues, WorkerEnds
<1>2. ASSUME NEW style \in Styles, NextMessage(g, style) PROVE BatchInv(g)'
  <2>1. /\ worker'[g].state = "message" /\ worker'[g].got = worker[g].got
        /\ worker'[g].batch = Append(worker[g].batch, style)
        /\ convOf' = convOf /\ worker[g].state \in {"idle", "batch"}
    BY <1>0, <1>2 DEF NextMessage, WorkerSet
  <2>2. Len(worker[g].batch) = Len(worker[g].got)
    BY <2>1 DEF BatchInv
  <2>3. /\ Len(worker'[g].batch) = Len(worker'[g].got) + 1
        /\ \A i \in DOMAIN worker[g].got : worker'[g].batch[i] = worker[g].batch[i]
    BY <1>01, <2>1, <2>2, Appended
  <2>4. RepliesOK(g)'
    BY <2>1, <2>3 DEF BatchInv, RepliesOK
  <2> QED BY <2>1, <2>3, <2>4 DEF BatchInv
<1>3. CASE Ask(g)
  <2>1. /\ worker'[g].state = "asking" /\ worker'[g].got = worker[g].got
        /\ worker'[g].batch = worker[g].batch /\ worker[g].state = "message"
    BY <1>0, <1>3 DEF Ask, At, WorkerSet
  <2>2. Message(g) # "text"
    BY <1>3 DEF Ask, At
  <2>3. PICK n \in Queries : n = asked + 1 /\ asked' = n /\ asked \in Nat
    BY <1>3 DEF Ask, RelayTypes, Queries
  <2>4. \A q \in Queries : convOf'[q] = IF q = n THEN g ELSE convOf[q]
    BY <1>3, <2>3 DEF Ask, RelayTypes
  <2>5. ASSUME InTurn, NEW i \in DOMAIN worker[g].got, worker[g].got[i] # None
        PROVE  /\ worker[g].got[i] \in Queries /\ worker[g].got[i] < n
               /\ convOf'[worker[g].got[i]] = g
    <3>1. worker[g].got[i] \in Queries
      BY <2>5, WorkerParts
    <3>2. convOf[worker[g].got[i]] = g
      BY <2>5 DEF BatchInv, RepliesOK
    <3>3. g # None /\ worker[g].got[i] \in Nat
      BY <3>1 DEF Convs, Queries
    <3>4. worker[g].got[i] <= asked
      BY <3>1, <3>2, <3>3 DEF SessionInv, QueryInv
    <3> QED BY <2>3, <2>4, <3>1, <3>2, <3>3, <3>4
  <2>6. RepliesOK(g)'
    <3> SUFFICES ASSUME NEW i \in DOMAIN worker[g].got
                 PROVE  /\ worker[g].got[i] = None <=> worker[g].batch[i] = "text"
                        /\ InTurn =>
                              /\ worker[g].got[i] # None => convOf'[worker[g].got[i]] = g
                              /\ \A j \in 1..(i - 1) : worker[g].got[i] # None /\ worker[g].got[j] # None
                                                       => worker[g].got[j] < worker[g].got[i]
      BY <2>1 DEF RepliesOK
    <3> QED BY <2>5 DEF BatchInv, RepliesOK
  <2>7. ASSUME InTurn, NEW q \in Queries, Latest(g, q)', NEW i \in DOMAIN worker[g].got, worker[g].got[i] # None
        PROVE  worker[g].got[i] < q
    <3>1. n <= q
      BY <2>3, <2>4, <2>7 DEF Latest
    <3> QED BY <2>3, <2>5, <2>7, <3>1 DEF Queries
  <2>8. Message(g)' = Message(g)
    BY <2>1 DEF Message
  <2> QED BY <2>1, <2>2, <2>6, <2>7, <2>8 DEF BatchInv
<1>4. CASE Tell(g)
  <2>1. /\ worker[g].state = "message" /\ Message(g) = "text" /\ convOf' = convOf
        /\ worker'[g].state = "batch" /\ worker'[g].batch = worker[g].batch
        /\ worker'[g].got = Append(worker[g].got, None)
    BY <1>0, <1>4 DEF Tell, At, WorkerSet
  <2> QED BY <2>1, OneMoreReply
<1>5. ASSUME Fail(g) PROVE BatchInv(g)'
  <2>1. worker'[g].state = "error" /\ worker'[g].got = <<>>
    BY <1>0, <1>5 DEF Fail, WorkerSet
  <2>2. DOMAIN worker'[g].got = {}
    BY <2>1
  <2> QED BY <2>1, <2>2 DEF BatchInv, RepliesOK
<1>6. CASE CannotAsk(g)
  BY <1>5, <1>6 DEF CannotAsk
<1>7. CASE AnswerArrives(g)
  <2>1. CASE ~reply[g].ok
    BY <1>5, <1>7, <2>1 DEF AnswerArrives
  <2>2. CASE reply[g].ok
    <3>1. /\ worker[g].state = "asking" /\ reply[g] # None /\ convOf' = convOf
          /\ worker'[g].state = "batch" /\ worker'[g].batch = worker[g].batch
          /\ worker'[g].got = Append(worker[g].got, reply[g].query)
      BY <1>0, <1>7, <2>2 DEF AnswerArrives, WorkerSet
    <3>2. reply[g].query \in Queries /\ reply[g].query # None /\ (InTurn => Latest(g, reply[g].query))
      BY <1>0, <3>1 DEF Answers, TurnInv, ReplyInv
    <3>3. /\ Message(g) # "text"
          /\ InTurn =>
                /\ convOf[reply[g].query] = g
                /\ \A i \in DOMAIN worker[g].got : worker[g].got[i] # None => worker[g].got[i] < reply[g].query
      BY <3>1, <3>2 DEF BatchInv, Latest
    <3> QED BY <3>1, <3>2, <3>3, OneMoreReply
  <2> QED BY <2>1, <2>2
<1> QED BY <1>1, <1>2, <1>3, <1>4, <1>6, <1>7 DEF WorkerStep

\* Every step keeps the replies of every worker.
LEMMA NextBatchInv ==
    ASSUME RelayTypes, SessionInv, InTurn => TurnInv, \A g \in Convs : BatchInv(g), [Next]_vars
    PROVE  \A g \in Convs : BatchInv(g)'
<1>1. ASSUME NEW h \in Convs, WorkerStep(h), NEW g \in Convs PROVE BatchInv(g)'
  <2>1. CASE g = h
    BY <1>1, <2>1, WorkerBatchInv
  <2>2. CASE g # h
    <3>1. Works(h) \/ Asks(h) \/ IsAnswered(h) \/ WorkerEnds(h)
      BY <1>1, WorkerCases
    <3>2. worker'[g] = worker[g]
      BY <2>2, <3>1 DEF Works, Asks, IsAnswered, OnlyWorker, WorkerEnds, RelayTypes
    <3>3. \A q \in Queries : convOf'[q] = g <=> convOf[q] = g
      <4>1. CASE UNCHANGED convOf
        BY <4>1
      <4>2. CASE Asks(h)
        <5>1. /\ asked' \in Queries /\ asked' = asked + 1 /\ asked \in Nat
              /\ convOf' = [convOf EXCEPT ![asked'] = h]
          BY <4>2, RelayAssumptions DEF Asks, RelayTypes, Queries
        <5>2. convOf[asked'] # g
          <6>1. g # None
            BY RelayAssumptions DEF Convs
          <6> QED BY <5>1, <6>1 DEF SessionInv, QueryInv
        <5> QED BY <2>2, <5>1, <5>2 DEF RelayTypes
      <4> QED BY <3>1, <4>1, <4>2 DEF Works, IsAnswered, WorkerEnds
    <3> QED BY <3>2, <3>3, SameReplies
  <2> QED BY <2>1, <2>2
<1>2. ASSUME NEW g \in Convs, UNCHANGED convOf, worker'[g] \in {worker[g], Dead} PROVE BatchInv(g)'
  BY <1>2, SameReplies, NoReplies
<1>3. ASSUME NEW C \in SUBSET Convs, Free(C), UNCHANGED convOf PROVE \A g \in Convs : BatchInv(g)'
  BY <1>2, <1>3 DEF Free
<1>4. ASSUME NEW s \in Services, StartConversation(s), UNCHANGED convOf
      PROVE  \A g \in Convs : BatchInv(g)'
  <2>1. {current[s]} \ {None} \in SUBSET Convs
    BY DEF RelayTypes
  <2> QED BY <1>3, <1>4, <2>1 DEF StartConversation
<1>5. CASE OnResetSession
  <2>1. {current[s] : s \in Services} \ {None} \in SUBSET Convs
    BY DEF RelayTypes
  <2> QED BY <1>3, <1>5, <2>1 DEF OnResetSession
<1>6. CASE StartByManager
  BY <1>4, <1>6, RelayAssumptions DEF StartByManager
<1>7. ASSUME NEW s \in Services \ {Autologin}, Begins(s) PROVE \A g \in Convs : BatchInv(g)'
  BY <1>4, <1>7 DEF Begins
<1>8. CASE UNCHANGED <<worker, convOf>>
  BY <1>2, <1>8
<1>9. \/ \E g \in Convs : WorkerStep(g)
      \/ OnResetSession \/ StartByManager \/ \E s \in Services \ {Autologin} : Begins(s)
      \/ UNCHANGED <<worker, convOf>>
  <2>1. CASE SessionStep
    <3>1. \/ \E g \in Convs : RefusesQuery(g) \/ PutsQuery(g) \/ WorkerExited(g) \/ ConversationFails(g)
                               \/ StopOtherConversations(g)
          \/ IgnoresAnswer \/ \E g \in Convs : GivesAnswer(g)
          \/ \E s \in Services \ {Autologin} : Begins(s) \/ Refuses(s)
          \/ HandleCancel \/ OnResetSession
      BY <2>1, QueryCases, MessageCases, Zenon DEF SessionStep
    <3> QED BY <3>1, Zenon DEF RefusesQuery, PutsQuery, WorkerExited, ConversationFails, StopOtherConversations, IgnoresAnswer,
               GivesAnswer, Refuses, HandleCancel, sessionVars, workerVars
  <2>2. CASE ClientStep \/ \E names \in SUBSET Extensions : ClientConnects(names)
    <3>1. \/ ClientCancels \/ ClientReceives
          \/ \E s \in Services : ClientBegins(s) \/ ClientAnswers(s)
          \/ \E names \in SUBSET Extensions : ClientConnects(names)
      BY <2>2, Zenon DEF ClientStep
    <3> QED BY <3>1, Zenon DEF ClientCancels, ClientReceives, ClientBegins, ClientAnswers, ClientConnects,
               workerVars
  <2>3. CASE UNCHANGED vars
    BY <2>3 DEF vars, workerVars
  <2> QED BY <2>1, <2>2, <2>3, Zenon DEF Next
<1> QED BY <1>1, <1>5, <1>6, <1>7, <1>8, <1>9

\* The invariant of the batches holds in every reachable state.
LEMMA BatchInvariant == Spec => [](\A g \in Convs : BatchInv(g))
<1>1. Init => \A g \in Convs : BatchInv(g)
  <2> SUFFICES ASSUME Init, NEW g \in Convs PROVE BatchInv(g)
    OBVIOUS
  <2>1. worker[g].state = "none" /\ worker[g].got = <<>> /\ DOMAIN worker[g].got = {}
    BY DEF Init, Absent
  <2> QED BY <2>1 DEF BatchInv, RepliesOK
<1>2. /\ RelayTypes /\ SessionInv /\ (InTurn => TurnInv) /\ (\A g \in Convs : BatchInv(g))
      /\ [Next]_vars
      => (\A g \in Convs : BatchInv(g))'
  BY NextBatchInv
<1> QED BY <1>1, <1>2, SessionInvariant, TurnInvariant, PTL DEF Spec

\* What is pending, asked or answered is a query, and no reply is without its message.
THEOREM RelayTypeCorrect == Spec => []TypeOK
<1>1. RelayTypes /\ (\A g \in Convs : BatchInv(g)) => TypeOK
  <2> SUFFICES ASSUME RelayTypes, \A g \in Convs : BatchInv(g) PROVE TypeOK
    OBVIOUS
  <2>1. /\ current \in [Services -> Convs \cup {None}]
        /\ conv \in [Convs -> [service : Services \cup {None}, pending : Queries \cup {None},
                               life : {"unused", "live", "stopping", "freed"}]]
        /\ call \in [Convs -> Queries \cup {None}]
        /\ reply \in [Convs -> [query : Queries, ok : BOOLEAN] \cup {None}]
        /\ convOf \in [Queries -> Convs \cup {None}]
        /\ enabled \subseteq Extensions
    BY DEF RelayTypes, ConvSet, Answers
  <2>2. ASSUME NEW g \in Convs
        PROVE  /\ worker[g].state \in {"none", "idle", "message", "asking", "batch", "error", "dead"}
               /\ worker[g].batch \in Seq(Styles)
               /\ Len(worker[g].got) <= Len(worker[g].batch)
    <3>1. /\ worker[g].state \in States /\ worker[g].batch \in Seq(Styles)
          /\ Len(worker[g].got) \in Nat /\ Len(worker[g].batch) \in Nat
      BY WorkerParts DEF RelayTypes, WorkerSet
    <3>2. Len(<<>>) = 0
      OBVIOUS
    <3> QED BY <3>1, <3>2 DEF BatchInv, States
  <2> QED BY <2>1, <2>2 DEF TypeOK
<1> QED BY <1>1, SessionInvariant, BatchInvariant, PTL

\* The conversation function gives PAM a reply for every message of the batch or wipes them
\* all; with a client that begins in turn, each reply is to a question this worker asked,
\* and no two are to the same.
THEOREM RepliesBelong == Spec => [](AllOrNothing /\ (InTurn => OwnReplies))
<1>1. (\A g \in Convs : BatchInv(g)) => AllOrNothing /\ (InTurn => OwnReplies)
  <2> SUFFICES ASSUME \A g \in Convs : BatchInv(g) PROVE AllOrNothing /\ (InTurn => OwnReplies)
    OBVIOUS
  <2>1. AllOrNothing
    BY DEF BatchInv, RepliesOK, AllOrNothing
  <2>2. InTurn => OwnReplies
    BY DEF BatchInv, RepliesOK, OwnReplies
  <2> QED BY <2>1, <2>2
<1> QED BY <1>1, BatchInvariant, PTL
====
