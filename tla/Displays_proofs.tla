--------------------------- MODULE Displays_proofs ---------------------------
(***************************************************************************)
(* Proofs about the two factories of displays, for every number of seats,  *)
(* displays, VTs and users.                                                *)
(*                                                                         *)
(* Of LocalDisplays, the inductive invariant says what the handlers that   *)
(* run inside one another may rely on: which calls can be left on the      *)
(* stack for a display, and what its status and session are then.  A step  *)
(* touches a few displays; CoreStep reduces it to them.                    *)
(*                                                                         *)
(* Of RemoteDisplayFactory, it relates the three variables of the suspend  *)
(* inhibitor: at most one Inhibit call is under way, and while it is, or   *)
(* while a descriptor is held, suspend_inhibited is set and keeps          *)
(* inhibit_suspend from calling again.                                     *)
(***************************************************************************)
EXTENDS LocalDisplays, RemoteDisplayFactory, FiniteSetTheorems, SequenceTheorems, TLAPS

-----------------------------------------------------------------------------
(* The stack of calls: the call being made, the one after it, the rest.    *)

Busy == calls # <<>>
First == Head(calls)
Second == calls[2]
Rest == {calls[i] : i \in 2..Len(calls)}

CallsTyped == calls \in Seq(CallRecords)

\* A step makes the calls in next before the rest, of which there is none when the main
\* loop dispatches.
Continues(next) == IF Busy THEN Return(next) ELSE calls' = next

\* What is below the call being made are calls.
LEMMA RestTyped ==
    ASSUME CallsTyped
    PROVE  /\ Rest \subseteq CallRecords
           /\ Busy => First \in CallRecords
           /\ ~Busy => Rest = {}
           /\ {calls[i] : i \in 1..Len(calls)} = IF Busy THEN {First} \union Rest ELSE {}
  <1> USE DEF CallsTyped, Busy, First, Rest
  <1>1. Len(calls) \in Nat /\ \A i \in 1..Len(calls) : calls[i] \in CallRecords
    OBVIOUS
  <1>2. CASE calls = <<>>
    BY <1>2
  <1>3. CASE calls # <<>>
    <2>1. Len(calls) > 0 /\ Head(calls) = calls[1]
      BY <1>3
    <2>2. 1..Len(calls) = {1} \union 2..Len(calls)
      BY <2>1, <1>1
    <2>3. {calls[i] : i \in 1..Len(calls)} = {calls[1]} \union {calls[i] : i \in 2..Len(calls)}
      BY <2>2
    <2> QED BY <1>1, <1>3, <2>1, <2>3
  <1> QED BY <1>2, <1>3

\* A call that makes no other is followed by the second of the stack.
LEMMA Pops ==
    ASSUME CallsTyped, Busy, Return(<<>>)
    PROVE  /\ CallsTyped'
           /\ Busy' <=> Rest # {}
           /\ Busy' => First' = Second /\ First' \in Rest
           /\ Rest' \subseteq Rest
  <1> USE DEF CallsTyped, Busy, First, Second, Rest, Return
  <1>1. calls' = Tail(calls)
    OBVIOUS
  <1>2. calls' \in Seq(CallRecords) /\ Len(calls') = Len(calls) - 1 /\ Len(calls) \in Nat \ {0}
    BY <1>1
  <1>3. \A i \in 1..Len(calls') : calls'[i] = calls[i + 1]
    BY <1>1, <1>2
  <1>4. Busy' => First' = calls[2] /\ 2 \in 2..Len(calls)
    BY <1>2, <1>3
  <1>5. \A i \in 2..Len(calls') : calls'[i] = calls[i + 1] /\ i + 1 \in 2..Len(calls)
    BY <1>2, <1>3
  <1>6. Rest' \subseteq Rest
    BY <1>5
  <1>7. Rest # {} <=> Len(calls) > 1
    BY <1>2
  <1>8. Busy' <=> Len(calls') > 0
    <2>1. Len(calls') = 0 <=> calls' = <<>>
      BY <1>2, EmptySeq
    <2> QED BY <1>2, <2>1
  <1>9. Busy' <=> Rest # {}
    BY <1>2, <1>7, <1>8
  <1>10. Busy' => First' \in Rest
    BY <1>4
  <1> QED BY <1>2, <1>4, <1>6, <1>9, <1>10

\* A call that makes one other: it is the next.
LEMMA PushesOne ==
    ASSUME CallsTyped, NEW c \in CallRecords, Continues(<<c>>)
    PROVE  /\ CallsTyped' /\ Busy' /\ First' = c /\ Rest' = Rest
           /\ Rest # {} => Second' = Second
  <1> USE DEF CallsTyped, Busy, First, Second, Rest, Return, Continues
  <1>1. CASE ~Busy
    <2>1. calls' = <<c>> /\ Rest = {}
      BY <1>1
    <2>2. Len(calls') = 1 /\ calls' \in Seq(CallRecords) /\ calls'[1] = c
      BY <2>1
    <2>3. 2..Len(calls') = {}
      BY <2>2
    <2> QED BY <2>1, <2>2, <2>3
  <1>2. CASE Busy
    <2>1. calls' = <<c>> \o Tail(calls)
      BY <1>2
    <2>2. Tail(calls) \in Seq(CallRecords) /\ Len(Tail(calls)) = Len(calls) - 1 /\ Len(calls) \in Nat \ {0}
      BY <1>2
    <2>3. calls' \in Seq(CallRecords) /\ Len(calls') = Len(calls) /\ calls'[1] = c
      BY <2>1, <2>2
    <2>4. \A i \in 2..Len(calls) : calls'[i] = calls[i]
      BY <2>1, <2>2
    <2>5. Rest # {} => 2 \in 2..Len(calls)
      BY <2>2
    <2> QED BY <2>2, <2>3, <2>4, <2>5
  <1> QED BY <1>1, <1>2

\* Nothing is left for later.
LEMMA TailIsRest == ASSUME CallsTyped, Busy PROVE Tail(calls) = <<>> <=> Rest = {}
  <1> USE DEF CallsTyped, Busy, Rest
  <1>1. Len(calls) \in Nat \ {0} /\ Len(Tail(calls)) = Len(calls) - 1 /\ Tail(calls) \in Seq(CallRecords)
    OBVIOUS
  <1>2. Tail(calls) = <<>> <=> Len(Tail(calls)) = 0
    BY <1>1, EmptySeq
  <1>3. Len(calls) > 1 => Rest # {}
    <2>1. Len(calls) > 1 => 2 \in 2..Len(calls)
      BY <1>1
    <2> QED BY <2>1
  <1>4. Len(calls) = 1 => Rest = {}
    <2>1. Len(calls) = 1 => \A i \in 2..Len(calls) : FALSE
      OBVIOUS
    <2> QED BY <2>1
  <1> HIDE DEF Rest, Busy, CallsTyped
  <1> QED BY <1>1, <1>2, <1>3, <1>4

\* A call that makes two others.
LEMMA PushesTwo ==
    ASSUME CallsTyped, NEW c \in CallRecords, NEW e \in CallRecords, Continues(<<c, e>>)
    PROVE  CallsTyped' /\ Busy' /\ First' = c /\ Second' = e /\ Rest' = {e} \union Rest
  <1> USE DEF CallsTyped, Busy, First, Second, Rest, Return, Continues
  <1>1. CASE ~Busy
    <2>1. calls' = <<c, e>> /\ Rest = {}
      BY <1>1
    <2>2. \A i \in 2..Len(calls') : i = 2
      BY <2>1
    <2> QED BY <2>1, <2>2
  <1>2. CASE Busy
    <2>1. calls' = <<c, e>> \o Tail(calls)
      BY <1>2
    <2>2. Tail(calls) \in Seq(CallRecords) /\ Len(Tail(calls)) = Len(calls) - 1 /\ Len(calls) \in Nat \ {0}
      BY <1>2
    <2>3. calls' \in Seq(CallRecords) /\ Len(calls') = Len(calls) + 1 /\ calls'[1] = c /\ calls'[2] = e
      BY <2>1, <2>2
    <2>4. \A i \in 3..Len(calls') : calls'[i] = calls[i - 1] /\ i - 1 \in 2..Len(calls)
      BY <2>1, <2>2
    <2>5. \A i \in 2..Len(calls) : calls'[i + 1] = calls[i] /\ i + 1 \in 2..Len(calls')
      BY <2>1, <2>2
    <2>6. Rest' \subseteq {e} \union Rest
      <3> SUFFICES ASSUME NEW i \in 2..Len(calls') PROVE calls'[i] \in {e} \union Rest
        OBVIOUS
      <3>1. CASE i = 2 BY <3>1, <2>3
      <3>2. CASE i # 2 BY <3>2, <2>2, <2>3, <2>4
      <3> QED BY <3>1, <3>2
    <2>7. {e} \union Rest \subseteq Rest'
      BY <2>2, <2>3, <2>5
    <2>8. Busy' /\ First' = c /\ Second' = e
      BY <2>2, <2>3
    <2>9. CallsTyped' /\ Rest' = {e} \union Rest
      BY <2>3, <2>6, <2>7
    <2> HIDE DEF CallsTyped, Busy, First, Second, Rest
    <2> QED BY <2>8, <2>9
  <1> QED BY <1>1, <1>2

\* A call that makes three others.
LEMMA PushesThree ==
    ASSUME CallsTyped, Busy, NEW c \in CallRecords, NEW e \in CallRecords, NEW f \in CallRecords,
           Return(<<c, e, f>>)
    PROVE  CallsTyped' /\ Busy' /\ First' = c /\ Rest' = {e, f} \union Rest
  <1> USE DEF CallsTyped, Busy, First, Rest, Return
  <1>1. calls' = <<c, e, f>> \o Tail(calls)
    OBVIOUS
  <1>2. Tail(calls) \in Seq(CallRecords) /\ Len(Tail(calls)) = Len(calls) - 1 /\ Len(calls) \in Nat \ {0}
    OBVIOUS
  <1>3. /\ calls' \in Seq(CallRecords) /\ Len(calls') = Len(calls) + 2
        /\ calls'[1] = c /\ calls'[2] = e /\ calls'[3] = f
    BY <1>1, <1>2
  <1>4. \A i \in 4..Len(calls') : calls'[i] = calls[i - 2] /\ i - 2 \in 2..Len(calls)
    BY <1>1, <1>2
  <1>5. \A i \in 2..Len(calls) : calls'[i + 2] = calls[i] /\ i + 2 \in 2..Len(calls')
    BY <1>1, <1>2
  <1>6. Rest' \subseteq {e, f} \union Rest
    <2> SUFFICES ASSUME NEW i \in 2..Len(calls') PROVE calls'[i] \in {e, f} \union Rest
      OBVIOUS
    <2>1. CASE i = 2 BY <2>1, <1>3
    <2>2. CASE i = 3 BY <2>2, <1>3
    <2>3. CASE i > 3 BY <2>3, <1>2, <1>3, <1>4
    <2> QED BY <2>1, <2>2, <2>3, <1>2, <1>3
  <1>7. {e, f} \union Rest \subseteq Rest'
    <2>1. e \in Rest' /\ f \in Rest'
      <3>1. 2 \in 2..Len(calls') /\ 3 \in 2..Len(calls')
        BY <1>2, <1>3
      <3> QED BY <1>3, <3>1
    <2>2. Rest \subseteq Rest'
      BY <1>5
    <2> HIDE DEF Rest
    <2> QED BY <2>1, <2>2
  <1>8. Busy' /\ First' = c /\ CallsTyped'
    BY <1>2, <1>3
  <1> HIDE DEF CallsTyped, Busy, First, Rest
  <1> QED BY <1>6, <1>7, <1>8

-----------------------------------------------------------------------------
(* The inductive invariant.                                                *)

\* The call being made is unmanage of d: what d's session does no longer counts.
Doomed(d) == Busy /\ First = Unmanage(d)

\* d was managed once, or its greeter got no user.
Earned(d) == displays[d].registered > 0 \/ displays[d].session = "nouser"

\* The session of d has ended, and d is not being prepared.
Over(d) ==
    /\ displays[d].session \in {"exiting", "none", "nouser"}
    /\ displays[d].status = "prepared" => Doomed(d)

\* Calls that are made at once, never left for later.
FirstOnly == {"set_status", "unmanage", "manager", "set_up_greeter"}
OfDisplay == FirstOnly \union {"factory", "finish", "queue_finish", "finish_unless_failed"}

\* What is finished has ended, and finish is only called for what was managed once or
\* has failed; a failed display is purged before it can be finished.
CallOK(c) ==
    /\ IF c.fn \in OfDisplay THEN InStore(c.d) ELSE c.d = NoDisplay
    /\ c.fn = "ensure_display_for_seat" => c.arg \in Seats
    /\ c.fn = "set_status" => c.arg \in {"prepared", "managed", "waiting"}
    /\ c.fn = "finish" => Over(c.d) /\ Earned(c.d)
    /\ c.fn \in {"queue_finish", "finish_unless_failed"} =>
         /\ Over(c.d)
         /\ Earned(c.d) \/ Doomed(c.d) \/ displays[c.d].status = "failed"
         /\ displays[c.d].class = IF c.fn = "queue_finish" THEN "greeter" ELSE "user"

RestOK == \A c \in Rest : CallOK(c) /\ c.fn \notin FirstOnly

\* The status of a display agrees with its session, except in the middle of unmanage.
GreeterOK(d) ==
    displays[d].class = "greeter" =>
      /\ displays[d].session \in {"lookup", "automatic", "starting", "open", "lost"}
         => displays[d].status = "prepared"
      /\ displays[d].session = "running" => displays[d].status \in {"prepared", "managed", "waiting"}
      /\ displays[d].status \in {"managed", "waiting"} => displays[d].session = "running" \/ Doomed(d)

UserOK(d) ==
    displays[d].class = "user" =>
      /\ displays[d].session \in {"running", "none"}
      /\ displays[d].status \in {"unmanaged", "managed", "failed", "finished"}
      /\ displays[d].session = "running" => displays[d].status \in {"unmanaged", "managed"}

StatusOK(d) ==
    /\ displays[d].status = "free" => displays[d].session = "none"
    /\ displays[d].status \in {"managed", "waiting"} => displays[d].registered > 0
    /\ displays[d].status = "prepared"
       => displays[d].registered = 0 \/ (Busy /\ First = SetStatus(d, "managed"))
    /\ displays[d].status = "finished" => Earned(d)
    /\ displays[d].status = "failed"
       => Queued(Purge) \/ (Busy /\ First \in {ToManager(d), ToFactory(d)})

\* A queued finish is for a login screen that is over, and comes after the purge if that
\* login screen has failed.
QueuedOK(d) ==
    Queued(d) =>
      /\ displays[d].status # "free" /\ displays[d].class = "greeter"
      /\ Over(d)
      /\ Earned(d) \/ (displays[d].status = "failed" /\ <<Purge, d>> \in idles)

DisplayOK(d) == GreeterOK(d) /\ UserOK(d) /\ StatusOK(d) /\ QueuedOK(d)

\* What holds when a call of FirstOnly is made.
FirstOK ==
    /\ CallOK(First)
    /\ First.fn = "set_status" /\ First.arg = "prepared" =>
         /\ displays[First.d].status = "unmanaged" /\ displays[First.d].class = "greeter"
         /\ displays[First.d].session = "none" /\ displays[First.d].registered = 0
         /\ \A c \in Rest : c.d # First.d
         /\ ~Queued(First.d)
    /\ First.fn = "set_status" /\ First.arg # "prepared" =>
         displays[First.d].registered > 0 /\ displays[First.d].session = "running"
    /\ First.fn = "set_status" /\ First.arg = "waiting" =>
         displays[First.d].class = "greeter" /\ displays[First.d].status \in {"managed", "waiting"}
    /\ First.fn = "manager" =>
         /\ Rest # {} /\ Second = ToFactory(First.d)
         /\ displays[First.d].status = "prepared" => displays[First.d].session = "none"
    /\ First.fn = "set_up_greeter" =>
         /\ displays[First.d].status = "prepared" /\ displays[First.d].session = "none"
         /\ Rest # {} => Second = ToFactory(First.d)
    /\ First.fn = "unmanage" => displays[First.d].session \in {"exiting", "none", "nouser"}

\* The order of the idle sources is one: pairs of queued sources, antisymmetric.
OrderOK ==
    \A i, j \in IdleSources : <<i, j>> \in idles =>
      Queued(i) /\ Queued(j) /\ (<<j, i>> \in idles => i = j)

DisplaysTyped == displays \in [Displays -> DisplayRecords]
IdlesTyped == idles \subseteq IdleSources \X IdleSources

Core ==
    /\ DisplaysTyped /\ CallsTyped /\ IdlesTyped
    /\ \A d \in Displays : DisplayOK(d)
    /\ RestOK
    /\ Busy => FirstOK
    /\ OrderOK

-----------------------------------------------------------------------------
(* Displays, calls and idle sources that a step changes.                   *)

\* Displays are numbered from 1: the purge and NoDisplay are none of them.
LEMMA DisplayNumbers == Displays \subseteq Nat \ {0} /\ NoDisplay \notin Displays /\ Purge \notin Displays
  BY LocalDisplaysAssumptions DEF Displays, NoDisplay, Purge

LEMMA CallTypes ==
    /\ \A d \in Displays : {Unmanage(d), Finish(d), FinishUnlessFailed(d), QueueFinish(d),
                            ToManager(d), ToFactory(d), SetUpGreeter(d)} \subseteq CallRecords
    /\ \A d \in Displays, s \in Statuses : SetStatus(d, s) \in CallRecords
    /\ \A s \in Seats : Ensure(s) \in CallRecords
    /\ FinishWaiting \in CallRecords
  <1> USE DEF Unmanage, Finish, FinishUnlessFailed, QueueFinish, ToManager, ToFactory, SetUpGreeter,
              SetStatus, Ensure, FinishWaiting, Call
  <1>1. ASSUME NEW fn \in CallNames, NEW d \in {NoDisplay} \union Displays,
               NEW arg \in Seats \union Statuses \union {""}
        PROVE  [fn |-> fn, d |-> d, arg |-> arg] \in CallRecords
    BY <1>1 DEF CallRecords
  <1> QED BY <1>1 DEF CallNames

\* What a call is, and which display it is for.
LEMMA CallFields ==
    ASSUME NEW d, NEW s
    PROVE  /\ Unmanage(d).fn = "unmanage" /\ Unmanage(d).d = d
           /\ Finish(d).fn = "finish" /\ Finish(d).d = d
           /\ FinishUnlessFailed(d).fn = "finish_unless_failed" /\ FinishUnlessFailed(d).d = d
           /\ QueueFinish(d).fn = "queue_finish" /\ QueueFinish(d).d = d
           /\ ToManager(d).fn = "manager" /\ ToManager(d).d = d
           /\ ToFactory(d).fn = "factory" /\ ToFactory(d).d = d
           /\ SetUpGreeter(d).fn = "set_up_greeter" /\ SetUpGreeter(d).d = d
           /\ SetStatus(d, s).fn = "set_status" /\ SetStatus(d, s).d = d /\ SetStatus(d, s).arg = s
           /\ Ensure(s).fn = "ensure_display_for_seat" /\ Ensure(s).d = NoDisplay /\ Ensure(s).arg = s
           /\ FinishWaiting.fn = "finish_waiting" /\ FinishWaiting.d = NoDisplay
  BY DEF Unmanage, Finish, FinishUnlessFailed, QueueFinish, ToManager, ToFactory, SetUpGreeter,
         SetStatus, Ensure, FinishWaiting, Call

\* gdm_display: only the status changes.
LEMMA StatusSet ==
    ASSUME DisplaysTyped, NEW d \in Displays, NEW s \in Statuses,
           displays' = [displays EXCEPT ![d].status = s]
    PROVE  /\ DisplaysTyped'
           /\ \A e \in Displays \ {d} : displays'[e] = displays[e]
           /\ displays'[d].status = s
           /\ displays'[d].class = displays[d].class
           /\ displays'[d].seat = displays[d].seat
           /\ displays'[d].session = displays[d].session
           /\ displays'[d].registered = displays[d].registered
           /\ displays'[d].setup = displays[d].setup
  BY DEF DisplaysTyped, DisplayRecords

LEMMA SessionSet ==
    ASSUME DisplaysTyped, NEW d \in Displays, NEW s \in SessionStates,
           displays' = [displays EXCEPT ![d].session = s]
    PROVE  /\ DisplaysTyped'
           /\ \A e \in Displays \ {d} : displays'[e] = displays[e]
           /\ displays'[d].status = displays[d].status
           /\ displays'[d].class = displays[d].class
           /\ displays'[d].seat = displays[d].seat
           /\ displays'[d].session = s
           /\ displays'[d].registered = displays[d].registered
           /\ displays'[d].setup = displays[d].setup
  BY DEF DisplaysTyped, DisplayRecords

LEMMA SessionAndStatusSet ==
    ASSUME DisplaysTyped, NEW d \in Displays, NEW s \in SessionStates, NEW t \in Statuses,
           displays' = [displays EXCEPT ![d].session = s, ![d].status = t]
    PROVE  /\ DisplaysTyped'
           /\ \A e \in Displays \ {d} : displays'[e] = displays[e]
           /\ displays'[d].status = t
           /\ displays'[d].class = displays[d].class
           /\ displays'[d].seat = displays[d].seat
           /\ displays'[d].session = s
           /\ displays'[d].registered = displays[d].registered
           /\ displays'[d].setup = displays[d].setup
  BY DEF DisplaysTyped, DisplayRecords

LEMMA RegisteredSet ==
    ASSUME DisplaysTyped, NEW d \in Displays, NEW n \in 0..2,
           displays' = [displays EXCEPT ![d].registered = n]
    PROVE  /\ DisplaysTyped'
           /\ \A e \in Displays \ {d} : displays'[e] = displays[e]
           /\ displays'[d].status = displays[d].status
           /\ displays'[d].class = displays[d].class
           /\ displays'[d].seat = displays[d].seat
           /\ displays'[d].session = displays[d].session
           /\ displays'[d].registered = n
           /\ displays'[d].setup = displays[d].setup
  BY DEF DisplaysTyped, DisplayRecords

LEMMA PlaceSet ==
    ASSUME DisplaysTyped, NEW d \in Displays, NEW r \in DisplayRecords,
           displays' = [displays EXCEPT ![d] = r]
    PROVE  /\ DisplaysTyped'
           /\ \A e \in Displays \ {d} : displays'[e] = displays[e]
           /\ displays'[d] = r
  BY DEF DisplaysTyped

\* The fields of a display.
LEMMA RecordTypes ==
    ASSUME DisplaysTyped, NEW d \in Displays
    PROVE  /\ displays[d] \in DisplayRecords
           /\ displays[d].status \in Statuses
           /\ displays[d].class \in {"greeter", "user"}
           /\ displays[d].seat \in Seats
           /\ displays[d].session \in SessionStates
           /\ displays[d].registered \in 0..2
           /\ displays[d].setup \in BOOLEAN
  BY DEF DisplaysTyped, DisplayRecords

\* g_idle_add.
LEMMA IdleAdded ==
    ASSUME IdlesTyped, OrderOK, NEW i \in IdleSources, idles' = AddIdle(i)
    PROVE  /\ IdlesTyped' /\ OrderOK'
           /\ Queued(i)'
           /\ \A j \in IdleSources : Queued(j)' <=> Queued(j) \/ j = i
           /\ idles \subseteq idles'
           /\ \A j \in IdleSources : Queued(j) /\ ~Queued(i) => <<j, i>> \in idles'
  <1> DEFINE new == {<<j, i>> : j \in QueuedIdles \union {i}}
  <1>1. CASE Queued(i)
    BY <1>1 DEF AddIdle, IdlesTyped, OrderOK, Queued
  <1>2. CASE ~Queued(i)
    <2>1. idles' = idles \union new
      BY <1>2 DEF AddIdle
    <2>2. \A j, k \in IdleSources : <<j, k>> \in new <=> k = i /\ (Queued(j) \/ j = i)
      BY DEF QueuedIdles
    <2>3. new \subseteq IdleSources \X IdleSources
      BY DEF QueuedIdles
    <2> HIDE DEF new
    <2>4. \A j, k \in IdleSources :
             <<j, k>> \in idles' <=> <<j, k>> \in idles \/ (k = i /\ (Queued(j) \/ j = i))
      BY <2>1, <2>2
    <2>5. \A j \in IdleSources : Queued(j)' <=> Queued(j) \/ j = i
      BY <2>4 DEF Queued
    <2>6. \A j \in IdleSources : <<i, j>> \notin idles
      BY <1>2 DEF OrderOK
    <2>7. OrderOK'
      BY <2>4, <2>5, <2>6 DEF OrderOK
    <2>8. IdlesTyped'
      BY <2>1, <2>3 DEF IdlesTyped
    <2> QED BY <2>1, <2>4, <2>5, <2>7, <2>8
  <1> QED BY <1>1, <1>2

\* g_source_remove, and a source that has run.
LEMMA IdlesRemoved ==
    ASSUME IdlesTyped, OrderOK, NEW gone, idles' = RemoveIdles(gone)
    PROVE  /\ IdlesTyped' /\ OrderOK'
           /\ \A j \in IdleSources : Queued(j)' <=> Queued(j) /\ j \notin gone
           /\ \A j, k \in IdleSources :
                <<j, k>> \in idles' <=> <<j, k>> \in idles /\ j \notin gone /\ k \notin gone
  <1>1. \A j, k \in IdleSources :
           <<j, k>> \in idles' <=> <<j, k>> \in idles /\ j \notin gone /\ k \notin gone
    BY DEF RemoveIdles
  <1>2. \A j \in IdleSources : Queued(j)' <=> Queued(j) /\ j \notin gone
    BY <1>1 DEF Queued
  <1>3. IdlesTyped'
    BY DEF RemoveIdles, IdlesTyped
  <1>4. OrderOK'
    BY <1>1, <1>2 DEF OrderOK
  <1> QED BY <1>1, <1>2, <1>3, <1>4

-----------------------------------------------------------------------------
(* One step touches a few displays only.                                   *)

Touches(X) ==
    /\ \A e \in Displays \ X : displays'[e] = displays[e]
    /\ Busy => First.d \in X \/ First.fn \notin {"set_status", "unmanage", "manager", "factory"}
    /\ \A e \in Displays \ X :
         /\ Queued(e)' => Queued(e)
         /\ displays[e].status = "failed" /\ Queued(Purge) => Queued(Purge)'
         /\ displays[e].status = "failed" /\ <<Purge, e>> \in idles /\ Queued(e)'
            => <<Purge, e>> \in idles'

\* What a step leaves of the displays it does not touch, and of the calls for them.
LEMMA OthersKeep ==
    ASSUME Core, NEW X \in SUBSET Displays, Touches(X)
    PROVE  /\ \A e \in Displays \ X : DisplayOK(e)'
           /\ \A c \in Rest : c.d \notin X => CallOK(c)'
  <1> USE DEF Touches
  <1>1. \A e \in Displays \ X : /\ ~Doomed(e)
                                /\ ~(Busy /\ First = SetStatus(e, "managed"))
                                /\ ~(Busy /\ First \in {ToManager(e), ToFactory(e)})
    <2> SUFFICES ASSUME NEW e \in Displays \ X, Busy
                 PROVE  First # Unmanage(e) /\ First # SetStatus(e, "managed")
                        /\ First # ToManager(e) /\ First # ToFactory(e)
      BY DEF Doomed
    <2> QED BY CallFields
  <1>2. ASSUME NEW e \in Displays \ X PROVE DisplayOK(e)'
    <2>1. DisplayOK(e) /\ displays'[e] = displays[e] /\ (Earned(e) => Earned(e)')
      BY DEF Core, Earned
    <2>2. GreeterOK(e)'
      BY <1>1, <2>1 DEF DisplayOK, GreeterOK
    <2>3. UserOK(e)'
      BY <1>1, <2>1 DEF DisplayOK, UserOK
    <2>4. StatusOK(e)'
      BY <1>1, <2>1 DEF DisplayOK, StatusOK
    <2>5. QueuedOK(e)'
      BY <1>1, <2>1 DEF DisplayOK, QueuedOK, Over
    <2> QED BY <2>2, <2>3, <2>4, <2>5 DEF DisplayOK
  <1>3. ASSUME NEW c \in Rest, c.d \notin X PROVE CallOK(c)'
    <2>1. CallOK(c) /\ c.fn \notin FirstOnly
      BY DEF Core, RestOK
    <2>2. CASE c.d \in Displays
      <3>1. displays'[c.d] = displays[c.d] /\ ~Doomed(c.d) /\ (Earned(c.d) => Earned(c.d)')
        BY <1>1, <1>3, <2>2 DEF Earned
      <3>2. InStore(c.d) => InStore(c.d)'
        BY <3>1 DEF InStore
      <3>3. Over(c.d) => Over(c.d)'
        BY <3>1 DEF Over
      <3> QED BY <2>1, <3>1, <3>2, <3>3 DEF CallOK
    <2>3. CASE c.d \notin Displays
      BY <2>1, <2>3 DEF CallOK, InStore, OfDisplay
    <2> QED BY <2>2, <2>3
  <1> QED BY <1>2, <1>3

\* A call that was left for later is made as the first.
LEMMA FirstOfRest ==
    ASSUME Core, Busy', First' \in Rest, CallOK(First)'
    PROVE  FirstOK'
  BY DEF Core, RestOK, FirstOK, FirstOnly

\* The calls that a step touching X leaves, and the one it makes next.
StackStep(X) ==
    /\ \A c \in Rest \intersect Rest' : c.d \in X => CallOK(c)'
    /\ \A c \in Rest' \ Rest : CallOK(c)' /\ c.fn \notin FirstOnly
    /\ Busy' => \/ First' \in Rest /\ (First'.d \in X => CallOK(First)')
                \/ FirstOK'

Typed == DisplaysTyped /\ CallsTyped /\ IdlesTyped /\ OrderOK

\* A step is good if it is for the displays it touches.
LEMMA CoreStep ==
    ASSUME Core, NEW X \in SUBSET Displays, Touches(X), Typed',
           \A d \in X : DisplayOK(d)', StackStep(X)
    PROVE  Core'
  <1>1. \A e \in Displays : DisplayOK(e)'
    BY OthersKeep
  <1>2. RestOK'
    <2> SUFFICES ASSUME NEW c \in Rest' PROVE CallOK(c)' /\ c.fn \notin FirstOnly
      BY DEF RestOK
    <2>1. CASE c \in Rest
      BY <2>1, OthersKeep DEF StackStep, Core, RestOK
    <2>2. CASE c \notin Rest
      BY <2>2 DEF StackStep
    <2> QED BY <2>1, <2>2
  <1>3. Busy' => FirstOK'
    <2>1. ASSUME Busy', First' \in Rest, First'.d \in X => CallOK(First)' PROVE FirstOK'
      <3>1. PICK c \in Rest : c = First'
        BY <2>1
      <3>2. c.d \notin X => CallOK(c)'
        BY OthersKeep
      <3>3. CallOK(c)' <=> CallOK(First)'
        BY <3>1 DEF CallOK, Over, Earned, Doomed, InStore
      <3>4. CallOK(First)'
        BY <2>1, <3>1, <3>2, <3>3
      <3> QED BY <2>1, <3>4, FirstOfRest
    <2> QED BY <2>1 DEF StackStep
  <1> QED BY <1>1, <1>2, <1>3 DEF Core, Typed

\* A step that leaves the idle sources alone.
LEMMA IdlesSame ==
    ASSUME IdlesTyped, OrderOK, UNCHANGED idles
    PROVE  IdlesTyped' /\ OrderOK' /\ \A j : Queued(j)' <=> Queued(j)
  BY DEF IdlesTyped, OrderOK, Queued

\* A step that makes no call.
LEMMA PopStep ==
    ASSUME Core, NEW X \in SUBSET Displays, Busy, Return(<<>>),
           \A c \in Rest : c.d \in X => CallOK(c)'
    PROVE  CallsTyped' /\ StackStep(X)
  <1>1. CallsTyped' /\ Rest' \subseteq Rest /\ (Busy' => First' \in Rest)
    BY Pops DEF Core
  <1>2. ASSUME Busy', First'.d \in X PROVE CallOK(First)'
    <2>1. PICK c \in Rest : c = First'
      BY <1>1, <1>2
    <2>2. CallOK(c)'
      BY <1>2, <2>1
    <2>3. CallOK(c)' <=> CallOK(First)'
      BY <2>1 DEF CallOK, Over, Earned, Doomed, InStore
    <2> QED BY <2>2, <2>3
  <1> QED BY <1>1, <1>2 DEF StackStep

\* A step that makes one call, or two.
LEMMA PushStep ==
    ASSUME Core, NEW X \in SUBSET Displays, NEW c \in CallRecords, Continues(<<c>>),
           FirstOK', \A e \in Rest : e.d \in X => CallOK(e)'
    PROVE  StackStep(X)
  BY PushesOne DEF StackStep, Core

LEMMA PushTwoStep ==
    ASSUME Core, NEW X \in SUBSET Displays, NEW c \in CallRecords, NEW f \in CallRecords,
           Continues(<<c, f>>), FirstOK', CallOK(f)', f.fn \notin FirstOnly,
           \A e \in Rest : e.d \in X => CallOK(e)'
    PROVE  StackStep(X)
  BY PushesTwo DEF StackStep, Core

\* The display a call is for.
LEMMA CallOf ==
    ASSUME Core, NEW fn \in CallNames, Calling(fn)
    PROVE  /\ Busy /\ First.fn = fn /\ FirstOK /\ First \in CallRecords
           /\ fn \in OfDisplay => \E d \in Displays : d = First.d /\ d = This /\ InStore(d)
           /\ Arg = First.arg
  <1>1. Busy /\ First.fn = fn /\ This = First.d /\ Arg = First.arg
    BY DEF Calling, Busy, First, This, Arg
  <1>2. FirstOK /\ First \in CallRecords
    BY <1>1, RestTyped DEF Core
  <1>3. fn \in OfDisplay => InStore(First.d)
    BY <1>1, <1>2 DEF FirstOK, CallOK
  <1> QED BY <1>1, <1>2, <1>3 DEF InStore

\* gdm_display_prepare and g_object_set.
LEMMA SetStatusKeeps == ASSUME Core, DoSetStatus PROVE Core'
  <1>1. Busy /\ First.fn = "set_status" /\ FirstOK /\ Arg = First.arg
    BY CallOf DEF DoSetStatus, CallNames
  <1>2. PICK d \in Displays : d = First.d /\ d = This /\ InStore(d)
    BY CallOf DEF DoSetStatus, OfDisplay, FirstOnly, CallNames
  <1>3. PICK s \in {"prepared", "managed", "waiting"} : s = First.arg
    BY <1>1 DEF FirstOK, CallOK
  <1>4. /\ displays' = [displays EXCEPT ![d].status = s]
        /\ Return(<<ToManager(d), ToFactory(d)>>) /\ UNCHANGED idles
    BY <1>1, <1>2, <1>3 DEF DoSetStatus
  <1>5. /\ DisplaysTyped'
        /\ \A e \in Displays \ {d} : displays'[e] = displays[e]
        /\ displays'[d].status = s
        /\ displays'[d].class = displays[d].class
        /\ displays'[d].session = displays[d].session
        /\ displays'[d].registered = displays[d].registered
    BY <1>4, StatusSet DEF Core, Statuses
  <1>6. /\ Continues(<<ToManager(d), ToFactory(d)>>)
        /\ ToManager(d) \in CallRecords /\ ToFactory(d) \in CallRecords
    BY <1>1, <1>4, CallTypes DEF Continues
  <1>7. /\ CallsTyped' /\ Busy' /\ First' = ToManager(d) /\ Second' = ToFactory(d)
        /\ Rest' = {ToFactory(d)} \union Rest
    BY <1>6, PushesTwo DEF Core
  <1>8. IdlesTyped' /\ OrderOK' /\ \A j : Queued(j)' <=> Queued(j)
    BY <1>4, IdlesSame DEF Core
  <1>9. Touches({d})
    BY <1>2, <1>4, <1>5, <1>8 DEF Touches
  <1>10. DisplayOK(d) /\ InStore(d)'
    BY <1>2, <1>5 DEF Core, InStore
  <1>11. displays[d].class = "greeter" \/ s = "managed"
    BY <1>1, <1>2, <1>3 DEF FirstOK
  <1>12. /\ s # "prepared" => displays[d].registered > 0 /\ displays[d].session = "running"
         /\ s = "prepared" => displays[d].session = "none" /\ displays[d].registered = 0
                              /\ ~Queued(d) /\ \A c \in Rest : c.d # d
    BY <1>1, <1>2, <1>3 DEF FirstOK
  <1>13. DisplayOK(d)'
    BY <1>5, <1>8, <1>10, <1>11, <1>12 DEF DisplayOK, GreeterOK, UserOK, StatusOK, QueuedOK, Over, Earned
  <1>14. ASSUME NEW c \in Rest, c.d = d PROVE CallOK(c)'
    <2>1. CallOK(c) /\ c.fn \notin FirstOnly /\ s # "prepared"
      BY <1>12, <1>14 DEF Core, RestOK
    <2> QED BY <1>10, <1>12, <1>14, <2>1 DEF CallOK, Over, FirstOnly
  <1>15. CallOK(ToFactory(d))' /\ ToFactory(d).fn \notin FirstOnly
    BY <1>10, CallFields DEF CallOK, OfDisplay, FirstOnly
  <1>16. FirstOK'
    BY <1>5, <1>7, <1>10, <1>12, CallFields DEF FirstOK, CallOK, OfDisplay, FirstOnly
  <1>17. StackStep({d})
    BY <1>6, <1>14, <1>15, <1>16, PushTwoStep
  <1> QED BY <1>5, <1>7, <1>8, <1>9, <1>13, <1>17, CoreStep DEF Typed

\* unmanage and finish: the status changes, and both handlers are called, or it does not.
LEMMA ChangeStatusKeeps ==
    ASSUME Core, NEW d \in Displays, NEW s \in {"unmanaged", "failed", "finished"},
           Busy, First.d = d, First.fn \in {"unmanage", "finish"}, InStore(d), ChangeStatus(d, s),
           displays[d].session \in {"exiting", "none", "nouser"},
           s = "unmanaged" => displays[d].registered = 2,
           s = "finished" => Earned(d) /\ ~Queued(d)',
           IdlesTyped', OrderOK',
           \A j \in IdleSources : Queued(j)' => Queued(j),
           Queued(Purge) => Queued(Purge)',
           \A e \in Displays : <<Purge, e>> \in idles /\ Queued(e)' => <<Purge, e>> \in idles'
    PROVE  Core'
  <1>1. Touches({d}) <=> \A e \in Displays \ {d} : displays'[e] = displays[e]
    BY DEF Touches, IdleSources
  <1>2. DisplayOK(d) /\ (Queued(d)' => Queued(d))
    BY DEF Core, IdleSources
  <1>3. s # "failed" => Earned(d)
    BY DEF Earned
  <1>4. First # ToManager(d) /\ First # ToFactory(d)
    BY CallFields
  <1>5. CASE displays[d].status = s
    <2>1. Return(<<>>) /\ UNCHANGED displays
      BY <1>5 DEF ChangeStatus
    <2>2. DisplaysTyped' /\ InStore(d)' /\ (Earned(d) => Earned(d)') /\ displays'[d] = displays[d]
      BY <2>1 DEF Core, DisplaysTyped, InStore, Earned
    <2>3. DisplayOK(d)'
      BY <1>2, <1>4, <1>5, <2>2 DEF DisplayOK, GreeterOK, UserOK, StatusOK, QueuedOK, Over
    <2>4. ASSUME NEW c \in Rest, c.d \in {d} PROVE CallOK(c)'
      <3>1. CallOK(c) /\ c.fn \notin FirstOnly /\ c.d = d
        BY <2>4 DEF Core, RestOK
      <3> QED BY <1>3, <1>5, <2>2, <3>1 DEF CallOK, Over, FirstOnly
    <2>5. CallsTyped' /\ StackStep({d})
      BY <2>1, <2>4, PopStep
    <2>6. Touches({d})
      BY <1>1, <2>1
    <2> QED BY <2>2, <2>3, <2>5, <2>6, CoreStep DEF Typed
  <1>6. CASE displays[d].status # s
    <2>1. /\ displays' = [displays EXCEPT ![d].status = s]
          /\ Continues(<<ToManager(d), ToFactory(d)>>)
      BY <1>6 DEF ChangeStatus, Continues
    <2>2. /\ DisplaysTyped'
          /\ \A e \in Displays \ {d} : displays'[e] = displays[e]
          /\ displays'[d].status = s
          /\ displays'[d].class = displays[d].class
          /\ displays'[d].session = displays[d].session
          /\ displays'[d].registered = displays[d].registered
      BY <2>1, StatusSet DEF Core, Statuses
    <2>3. ToManager(d) \in CallRecords /\ ToFactory(d) \in CallRecords
      BY CallTypes
    <2>4. /\ CallsTyped' /\ Busy' /\ First' = ToManager(d) /\ Second' = ToFactory(d)
          /\ Rest' = {ToFactory(d)} \union Rest
      BY <2>1, <2>3, PushesTwo DEF Core
    <2>5. InStore(d)' /\ (Earned(d) => Earned(d)')
      BY <2>2 DEF InStore, Earned
    <2>6. DisplayOK(d)'
      BY <1>2, <1>3, <1>6, <2>2, <2>4, <2>5 DEF DisplayOK, GreeterOK, UserOK, StatusOK, QueuedOK, Over
    <2>7. ASSUME NEW c \in Rest, c.d \in {d} PROVE CallOK(c)'
      <3>1. CallOK(c) /\ c.fn \notin FirstOnly /\ c.d = d
        BY <2>7 DEF Core, RestOK
      <3> QED BY <1>3, <2>2, <2>5, <3>1 DEF CallOK, Over, FirstOnly
    <2>8. CallOK(ToFactory(d))' /\ ToFactory(d).fn \notin FirstOnly
      BY <2>5, CallFields DEF CallOK, OfDisplay, FirstOnly
    <2>9. FirstOK'
      BY <2>2, <2>4, <2>5, CallFields DEF FirstOK, CallOK, OfDisplay, FirstOnly
    <2>10. StackStep({d})
      BY <2>1, <2>3, <2>7, <2>8, <2>9, PushTwoStep
    <2>11. Touches({d})
      BY <1>1, <2>2
    <2> QED BY <2>2, <2>4, <2>6, <2>10, <2>11, CoreStep DEF Typed
  <1> QED BY <1>5, <1>6

\* gdm_display_unmanage.
LEMMA UnmanageKeeps == ASSUME Core, DoUnmanage PROVE Core'
  <1>1. Busy /\ First.fn = "unmanage" /\ FirstOK
    BY CallOf DEF DoUnmanage, CallNames
  <1>2. PICK d \in Displays : d = First.d /\ d = This /\ InStore(d)
    BY CallOf DEF DoUnmanage, OfDisplay, FirstOnly, CallNames
  <1>3. PICK s \in {"unmanaged", "failed"} : /\ ChangeStatus(d, s)
                                             /\ s = "unmanaged" => displays[d].registered = 2
    BY <1>2 DEF DoUnmanage
  <1>4. displays[d].session \in {"exiting", "none", "nouser"}
    BY <1>1, <1>2 DEF FirstOK
  <1>5. IdlesTyped' /\ OrderOK' /\ UNCHANGED idles /\ \A j : Queued(j)' <=> Queued(j)
    BY IdlesSame DEF Core, DoUnmanage
  <1> QED BY <1>1, <1>2, <1>3, <1>4, <1>5, ChangeStatusKeeps

\* gdm_display_finish.
LEMMA FinishKeeps == ASSUME Core, DoFinish PROVE Core'
  <1>1. Busy /\ First.fn = "finish" /\ FirstOK
    BY CallOf DEF DoFinish, CallNames
  <1>2. PICK d \in Displays : d = First.d /\ d = This /\ InStore(d)
    BY CallOf DEF DoFinish, OfDisplay, CallNames
  <1>3. ChangeStatus(d, "finished") /\ idles' = RemoveIdles({d})
    BY <1>2 DEF DoFinish
  <1>4. displays[d].session \in {"exiting", "none", "nouser"} /\ Earned(d)
    BY <1>1, <1>2 DEF FirstOK, CallOK, Over
  <1>5. /\ IdlesTyped' /\ OrderOK'
        /\ \A j \in IdleSources : Queued(j)' <=> Queued(j) /\ j \notin {d}
        /\ \A j, k \in IdleSources :
                <<j, k>> \in idles' <=> <<j, k>> \in idles /\ j \notin {d} /\ k \notin {d}
    BY <1>3, IdlesRemoved DEF Core
  <1>6. /\ \A j \in IdleSources : Queued(j)' => Queued(j)
        /\ ~Queued(d)' /\ (Queued(Purge) => Queued(Purge)')
        /\ \A e \in Displays : <<Purge, e>> \in idles /\ Queued(e)' => <<Purge, e>> \in idles'
    BY <1>5, DisplayNumbers DEF IdleSources
  <1> QED BY <1>1, <1>2, <1>3, <1>4, <1>5, <1>6, ChangeStatusKeeps

\* The end of remove_user_session.
LEMMA FinishUnlessFailedKeeps == ASSUME Core, DoFinishUnlessFailed PROVE Core'
  <1>1. Busy /\ First.fn = "finish_unless_failed" /\ FirstOK
    BY CallOf DEF DoFinishUnlessFailed, CallNames
  <1>2. PICK d \in Displays : d = First.d /\ d = This /\ InStore(d)
    BY CallOf DEF DoFinishUnlessFailed, OfDisplay, CallNames
  <1>3. UNCHANGED displays /\ DisplaysTyped' /\ IdlesTyped' /\ OrderOK' /\ UNCHANGED idles
        /\ \A j : Queued(j)' <=> Queued(j)
    BY IdlesSame DEF Core, DoFinishUnlessFailed, DisplaysTyped
  <1>4. Touches({})
    BY <1>1, <1>3 DEF Touches
  <1>5. CASE displays[d].status = "failed"
    <2>1. Return(<<>>)
      BY <1>2, <1>5 DEF DoFinishUnlessFailed
    <2>2. CallsTyped' /\ StackStep({})
      BY <1>1, <2>1, PopStep
    <2> QED BY <1>3, <1>4, <2>2, CoreStep DEF Typed
  <1>6. CASE displays[d].status # "failed"
    <2>1. Finish(d) \in CallRecords /\ Continues(<<Finish(d)>>)
      BY <1>1, <1>2, <1>6, CallTypes DEF DoFinishUnlessFailed, Continues
    <2>2. CallsTyped' /\ Busy' /\ First' = Finish(d) /\ Rest' = Rest
      BY <2>1, PushesOne DEF Core
    <2>3. ~Doomed(d)
      BY <1>1, CallFields DEF Doomed
    <2>4. Over(d) /\ Earned(d)
      BY <1>1, <1>2, <1>6, <2>3 DEF FirstOK, CallOK
    <2>5. Over(d)' /\ Earned(d)' /\ InStore(d)'
      BY <1>2, <1>3, <2>3, <2>4 DEF Over, Earned, InStore
    <2>6. FirstOK'
      BY <2>2, <2>5, CallFields DEF FirstOK, CallOK, OfDisplay, FirstOnly
    <2>7. StackStep({})
      BY <2>1, <2>6, PushStep
    <2> QED BY <1>3, <1>4, <2>2, <2>7, CoreStep DEF Typed
  <1> QED BY <1>5, <1>6

\* The end of self_destruct: a failed display has a purge queued before its finish.
LEMMA QueueFinishKeeps == ASSUME Core, DoQueueFinish PROVE Core'
  <1>1. Busy /\ First.fn = "queue_finish" /\ FirstOK
    BY CallOf DEF DoQueueFinish, CallNames
  <1>2. PICK d \in Displays : d = First.d /\ d = This /\ InStore(d)
    BY CallOf DEF DoQueueFinish, OfDisplay, CallNames
  <1>3. UNCHANGED displays /\ DisplaysTyped' /\ Return(<<>>)
    BY DEF Core, DoQueueFinish, DisplaysTyped
  <1>4. ~Doomed(d) /\ First # ToManager(d) /\ First # ToFactory(d)
    BY <1>1, CallFields DEF Doomed
  <1>5. /\ Over(d) /\ displays[d].class = "greeter"
        /\ Earned(d) \/ displays[d].status = "failed"
    BY <1>1, <1>2, <1>4 DEF FirstOK, CallOK
  <1>6. DisplayOK(d) /\ displays[d].status # "free"
    BY <1>2 DEF Core, InStore
  <1>7. ASSUME NEW c \in Rest, c.d \in {d} PROVE CallOK(c)'
    <2>1. CallOK(c) /\ c.d = d
      BY <1>7 DEF Core, RestOK
    <2> QED BY <1>3, <1>4, <2>1 DEF CallOK, Over, Earned, InStore
  <1>8. CallsTyped' /\ StackStep({d})
    BY <1>1, <1>3, <1>7, PopStep
  <1>9. (Earned(d) => Earned(d)') /\ Over(d)'
    BY <1>3, <1>4, <1>5 DEF Earned, Over
  <1>10. CASE displays[d].status = "finished"
    <2>1. IdlesTyped' /\ OrderOK' /\ UNCHANGED idles /\ \A j : Queued(j)' <=> Queued(j)
      BY <1>2, <1>10, IdlesSame DEF Core, DoQueueFinish
    <2>2. Touches({d})
      BY <1>2, <1>3, <2>1 DEF Touches
    <2>3. DisplayOK(d)'
      BY <1>3, <1>4, <1>6, <1>9, <1>10, <2>1 DEF DisplayOK, GreeterOK, UserOK, StatusOK, QueuedOK
    <2> QED BY <1>3, <1>8, <2>1, <2>2, <2>3, CoreStep DEF Typed
  <1>11. CASE displays[d].status # "finished"
    <2>1. d \in IdleSources /\ Purge \in IdleSources /\ idles' = AddIdle(d)
      BY <1>2, <1>11 DEF DoQueueFinish, IdleSources
    <2>2. /\ IdlesTyped' /\ OrderOK'
          /\ \A j \in IdleSources : Queued(j)' <=> Queued(j) \/ j = d
          /\ idles \subseteq idles'
          /\ \A j \in IdleSources : Queued(j) /\ ~Queued(d) => <<j, d>> \in idles'
      BY <2>1, IdleAdded DEF Core
    <2>3. Touches({d})
      BY <1>2, <1>3, <2>1, <2>2 DEF Touches, IdleSources
    <2>4. displays[d].status = "failed" => Queued(Purge)
      BY <1>4, <1>6 DEF DisplayOK, StatusOK
    <2>5. Earned(d) \/ (displays[d].status = "failed" /\ <<Purge, d>> \in idles')
      BY <1>5, <1>6, <2>1, <2>2, <2>4 DEF DisplayOK, QueuedOK
    <2>6. Queued(Purge) => Queued(Purge)'
      BY <2>1, <2>2
    <2>7. QueuedOK(d)'
      BY <1>3, <1>5, <1>6, <1>9, <2>5 DEF QueuedOK
    <2>8. DisplayOK(d)'
      BY <1>3, <1>4, <1>5, <1>6, <1>9, <2>4, <2>6, <2>7 DEF DisplayOK, GreeterOK, UserOK, StatusOK, Over
    <2> QED BY <1>3, <1>8, <2>2, <2>3, <2>8, CoreStep DEF Typed
  <1> QED BY <1>10, <1>11

\* finish_waiting_displays_on_seat.
LEMMA FinishWaitingKeeps == ASSUME Core, DoFinishWaiting PROVE Core'
  <1>1. Busy /\ First.fn = "finish_waiting" /\ FirstOK
    BY CallOf DEF DoFinishWaiting, CallNames
  <1>2. IdlesTyped' /\ OrderOK' /\ UNCHANGED idles /\ \A j : Queued(j)' <=> Queued(j)
    BY IdlesSame DEF Core, DoFinishWaiting
  <1>3. CASE Return(<<>>) /\ UNCHANGED displays
    <2>1. Touches({}) /\ DisplaysTyped'
      BY <1>1, <1>2, <1>3 DEF Touches, Core, DisplaysTyped
    <2>2. CallsTyped' /\ StackStep({})
      BY <1>1, <1>3, PopStep
    <2> QED BY <1>2, <2>1, <2>2, CoreStep DEF Typed
  <1>4. ASSUME NEW d \in Displays, displays[d].status = "waiting",
               displays' = [displays EXCEPT ![d].session = "none"],
               Return(<<Unmanage(d), Finish(d), FinishWaiting>>)
        PROVE  Core'
    <2>1. /\ DisplaysTyped'
          /\ \A e \in Displays \ {d} : displays'[e] = displays[e]
          /\ displays'[d].status = displays[d].status
          /\ displays'[d].class = displays[d].class
          /\ displays'[d].session = "none"
          /\ displays'[d].registered = displays[d].registered
      BY <1>4, SessionSet DEF Core, SessionStates
    <2>2. /\ Unmanage(d) \in CallRecords /\ Finish(d) \in CallRecords /\ FinishWaiting \in CallRecords
      BY CallTypes
    <2>3. CallsTyped' /\ Busy' /\ First' = Unmanage(d) /\ Rest' = {Finish(d), FinishWaiting} \union Rest
      BY <1>1, <1>4, <2>2, PushesThree DEF Core
    <2>4. ~Doomed(d) /\ First # SetStatus(d, "managed") /\ DisplayOK(d)
      BY <1>1, CallFields DEF Doomed, Core
    <2>5. displays[d].class = "greeter" /\ displays[d].session = "running" /\ displays[d].registered > 0
      BY <1>4, <2>4, RecordTypes DEF DisplayOK, GreeterOK, UserOK, StatusOK, Core
    <2>6. ~Queued(d) /\ ~Over(d)
      BY <2>4, <2>5 DEF DisplayOK, QueuedOK, Over
    <2>7. Touches({d})
      BY <1>1, <1>2, <2>1 DEF Touches
    <2>8. InStore(d)' /\ Doomed(d)' /\ Earned(d)' /\ Over(d)'
      BY <1>4, <2>1, <2>3, <2>5 DEF InStore, Doomed, Earned, Over
    <2>9. DisplayOK(d)'
      BY <1>2, <1>4, <2>1, <2>5, <2>6, <2>8 DEF DisplayOK, GreeterOK, UserOK, StatusOK, QueuedOK
    <2>10. ASSUME NEW c \in Rest, c.d = d PROVE CallOK(c)'
      <3>1. CallOK(c) /\ c.fn \notin FirstOnly
        BY DEF Core, RestOK
      <3> QED BY <2>6, <2>8, <2>10, <3>1 DEF CallOK, FirstOnly
    <2>11. CallOK(Finish(d))' /\ Finish(d).fn \notin FirstOnly
      BY <2>8, CallFields DEF CallOK, OfDisplay, FirstOnly
    <2>12. CallOK(FinishWaiting)' /\ FinishWaiting.fn \notin FirstOnly
      BY CallFields DEF CallOK, OfDisplay, FirstOnly
    <2>13. FirstOK'
      BY <2>1, <2>3, <2>8, CallFields DEF FirstOK, CallOK, OfDisplay, FirstOnly
    <2>14. StackStep({d})
      BY <2>3, <2>10, <2>11, <2>12, <2>13 DEF StackStep
    <2> QED BY <1>2, <2>1, <2>3, <2>7, <2>9, <2>14, CoreStep DEF Typed
  <1> QED BY <1>3, <1>4 DEF DoFinishWaiting

\* The manager's handler, and set_up_greeter_session.
LEMMA ManagerKeeps == ASSUME Core, ManagerHandler PROVE Core'
  <1>1. Busy /\ First.fn = "manager" /\ FirstOK
    BY CallOf DEF ManagerHandler, CallNames
  <1>2. PICK d \in Displays : d = First.d /\ d = This /\ InStore(d)
    BY CallOf DEF ManagerHandler, OfDisplay, FirstOnly, CallNames
  <1>3. ~Doomed(d) /\ First # SetStatus(d, "managed") /\ DisplayOK(d)
    BY <1>1, CallFields DEF Doomed, Core
  <1>4. /\ Rest # {} /\ Second = ToFactory(d)
        /\ displays[d].status = "prepared" => displays[d].session = "none"
    BY <1>1, <1>2 DEF FirstOK
  <1>5. IdlesTyped' /\ OrderOK' /\ UNCHANGED idles /\ \A j : Queued(j)' <=> Queued(j)
    BY IdlesSame DEF Core, ManagerHandler
  <1>6. displays[d].status = "prepared" => displays[d].registered = 0 /\ ~Over(d) /\ ~Queued(d)
    BY <1>3 DEF DisplayOK, StatusOK, QueuedOK, Over
  <1>7. ASSUME Return(<<>>) PROVE Busy' /\ First' = ToFactory(d)
    BY <1>1, <1>4, <1>7, Pops DEF Core
  <1>8. ASSUME displays[d].status = "prepared", displays[d].class = "greeter",
               NEW s \in {"lookup", "automatic"}, displays' = [displays EXCEPT ![d].session = s],
               Return(<<>>)
        PROVE  Core'
    <2>1. /\ DisplaysTyped'
          /\ \A e \in Displays \ {d} : displays'[e] = displays[e]
          /\ displays'[d].status = displays[d].status
          /\ displays'[d].class = displays[d].class
          /\ displays'[d].session = s
          /\ displays'[d].registered = displays[d].registered
      BY <1>8, SessionSet DEF Core, SessionStates
    <2>2. InStore(d)' /\ Touches({d})
      BY <1>2, <1>5, <2>1 DEF InStore, Touches
    <2>3. DisplayOK(d)'
      BY <1>5, <1>6, <1>8, <2>1 DEF DisplayOK, GreeterOK, UserOK, StatusOK, QueuedOK
    <2>4. ASSUME NEW c \in Rest, c.d \in {d} PROVE CallOK(c)'
      <3>1. CallOK(c) /\ c.fn \notin FirstOnly /\ c.d = d
        BY <2>4 DEF Core, RestOK
      <3> QED BY <1>6, <1>8, <2>2, <3>1 DEF CallOK, FirstOnly
    <2>5. CallsTyped' /\ StackStep({d})
      BY <1>1, <1>8, <2>4, PopStep
    <2> QED BY <1>5, <2>1, <2>2, <2>3, <2>5, CoreStep DEF Typed
  <1>9. ASSUME UNCHANGED displays,
               \/ Return(<<>>)
               \/ displays[d].status = "prepared" /\ Return(<<SetUpGreeter(d)>>)
        PROVE  Core'
    <2>1. DisplaysTyped' /\ InStore(d)' /\ Touches({d}) /\ (Earned(d) => Earned(d)')
      BY <1>2, <1>5, <1>9 DEF InStore, Touches, Earned, Core, DisplaysTyped
    <2>2. displays[d].status = "failed" => Busy' /\ First' = ToFactory(d)
      BY <1>7, <1>9
    <2>3. Over(d) => Over(d)'
      BY <1>3, <1>9 DEF Over
    <2>4. QueuedOK(d)'
      BY <1>3, <1>5, <1>9, <2>1, <2>3 DEF DisplayOK, QueuedOK
    <2>5. DisplayOK(d)'
      BY <1>3, <1>5, <1>9, <2>1, <2>2, <2>4 DEF DisplayOK, GreeterOK, UserOK, StatusOK
    <2>6. ASSUME NEW c \in Rest, c.d \in {d} PROVE CallOK(c)'
      <3>1. CallOK(c) /\ c.fn \notin FirstOnly /\ c.d = d
        BY <2>6 DEF Core, RestOK
      <3> QED BY <1>3, <1>9, <2>1, <2>3, <3>1 DEF CallOK, FirstOnly
    <2>7. CASE Return(<<>>)
      <3>1. CallsTyped' /\ StackStep({d})
        BY <1>1, <2>7, <2>6, PopStep
      <3> QED BY <1>5, <2>1, <2>5, <3>1, CoreStep DEF Typed
    <2>8. CASE displays[d].status = "prepared" /\ Return(<<SetUpGreeter(d)>>)
      <3>1. SetUpGreeter(d) \in CallRecords /\ Continues(<<SetUpGreeter(d)>>)
        BY <1>1, <2>8, CallTypes DEF Continues
      <3>2. /\ CallsTyped' /\ Busy' /\ First' = SetUpGreeter(d) /\ Rest' = Rest
            /\ Rest # {} => Second' = ToFactory(d)
        BY <1>4, <3>1, PushesOne DEF Core
      <3>3. FirstOK'
        BY <1>4, <1>9, <2>1, <2>8, <3>2, CallFields DEF FirstOK, CallOK, OfDisplay, FirstOnly
      <3>4. StackStep({d})
        BY <2>6, <3>1, <3>3, PushStep
      <3> QED BY <1>5, <2>1, <2>5, <3>2, <3>4, CoreStep DEF Typed
    <2> QED BY <1>9, <2>7, <2>8
  <1> QED BY <1>2, <1>8, <1>9 DEF ManagerHandler

LEMMA SetUpGreeterKeeps == ASSUME Core, DoSetUpGreeter PROVE Core'
  <1>1. Busy /\ First.fn = "set_up_greeter" /\ FirstOK
    BY CallOf DEF DoSetUpGreeter, CallNames
  <1>2. PICK d \in Displays : d = First.d /\ d = This /\ InStore(d)
    BY CallOf DEF DoSetUpGreeter, OfDisplay, FirstOnly, CallNames
  <1>3. ~Doomed(d) /\ First # SetStatus(d, "managed") /\ DisplayOK(d)
    BY <1>1, CallFields DEF Doomed, Core
  <1>4. displays[d].status = "prepared" /\ displays[d].session = "none"
    BY <1>1, <1>2 DEF FirstOK
  <1>5. displays[d].registered = 0 /\ ~Over(d) /\ ~Queued(d) /\ displays[d].class = "greeter"
    BY <1>3, <1>4, RecordTypes DEF DisplayOK, StatusOK, QueuedOK, UserOK, Over, Core
  <1>6. Rest # {} => Second = ToFactory(d)
    BY <1>1, <1>2 DEF FirstOK
  <1>7. ASSUME NEW c \in Rest, c.d \in {d}, InStore(d)' PROVE CallOK(c)'
    <2>1. CallOK(c) /\ c.fn \notin FirstOnly /\ c.d = d
      BY <1>7 DEF Core, RestOK
    <2> QED BY <1>5, <1>7, <2>1 DEF CallOK, FirstOnly
  <1>8. ASSUME NEW s \in {"starting", "nouser"}, displays' = [displays EXCEPT ![d].session = s],
               UNCHANGED idles
        PROVE  /\ DisplaysTyped' /\ IdlesTyped' /\ OrderOK' /\ InStore(d)' /\ Touches({d})
               /\ displays'[d].status = "prepared" /\ displays'[d].session = s
               /\ s = "starting" \/ Doomed(d)' => DisplayOK(d)'
    <2>1. /\ DisplaysTyped'
          /\ \A e \in Displays \ {d} : displays'[e] = displays[e]
          /\ displays'[d].status = displays[d].status
          /\ displays'[d].class = displays[d].class
          /\ displays'[d].session = s
          /\ displays'[d].registered = displays[d].registered
      BY <1>8, SessionSet DEF Core, SessionStates
    <2>2. IdlesTyped' /\ OrderOK' /\ \A j : Queued(j)' <=> Queued(j)
      BY <1>8, IdlesSame DEF Core
    <2>3. InStore(d)' /\ Touches({d})
      BY <1>2, <1>8, <2>1, <2>2 DEF InStore, Touches
    <2>4. DisplayOK(d)'
      BY <1>4, <1>5, <2>1, <2>2 DEF DisplayOK, GreeterOK, UserOK, StatusOK, QueuedOK
    <2> QED BY <1>4, <2>1, <2>2, <2>3, <2>4
  <1>9. CASE /\ displays' = [displays EXCEPT ![d].session = "starting"] /\ Return(<<>>)
             /\ UNCHANGED idles
    <2>1. CallsTyped' /\ StackStep({d})
      BY <1>1, <1>7, <1>8, <1>9, PopStep
    <2> QED BY <1>8, <1>9, <2>1, CoreStep DEF Typed
  <1>10. CASE /\ displays' = [displays EXCEPT ![d].session = "nouser"]
              /\ Return(<<Unmanage(d), Finish(d)>>) /\ UNCHANGED idles
    <2>1. /\ Unmanage(d) \in CallRecords /\ Finish(d) \in CallRecords
          /\ Continues(<<Unmanage(d), Finish(d)>>)
      BY <1>1, <1>10, CallTypes DEF Continues
    <2>2. CallsTyped' /\ Busy' /\ First' = Unmanage(d) /\ Rest' = {Finish(d)} \union Rest
      BY <2>1, PushesTwo DEF Core
    <2>3. Doomed(d)' /\ Over(d)' /\ Earned(d)'
      BY <1>8, <1>10, <2>2 DEF Over, Doomed, Earned
    <2>4. DisplayOK(d)'
      BY <1>8, <1>10, <2>3
    <2>5. CallOK(Finish(d))' /\ Finish(d).fn \notin FirstOnly
      BY <1>8, <1>10, <2>3, CallFields DEF CallOK, OfDisplay, FirstOnly
    <2>6. FirstOK'
      BY <1>8, <1>10, <2>2, CallFields DEF FirstOK, CallOK, OfDisplay, FirstOnly
    <2>7. StackStep({d})
      BY <1>7, <1>8, <1>10, <2>1, <2>5, <2>6, PushTwoStep
    <2> QED BY <1>8, <1>10, <2>2, <2>4, <2>7, CoreStep DEF Typed
  <1>11. CASE /\ Rest # {} /\ idles' = RemoveIdles({d}) /\ Return(<<ToManager(d)>>)
              /\ displays' = [displays EXCEPT ![d].session = "nouser", ![d].status = "finished"]
    <2>1. /\ DisplaysTyped'
          /\ \A e \in Displays \ {d} : displays'[e] = displays[e]
          /\ displays'[d].status = "finished"
          /\ displays'[d].class = displays[d].class
          /\ displays'[d].session = "nouser"
          /\ displays'[d].registered = displays[d].registered
      BY <1>11, SessionAndStatusSet DEF Core, SessionStates, Statuses
    <2>2. /\ IdlesTyped' /\ OrderOK'
          /\ \A j \in IdleSources : Queued(j)' <=> Queued(j) /\ j \notin {d}
          /\ \A j, k \in IdleSources :
                  <<j, k>> \in idles' <=> <<j, k>> \in idles /\ j \notin {d} /\ k \notin {d}
      BY <1>11, IdlesRemoved DEF Core
    <2>3. InStore(d)' /\ Touches({d})
      BY <1>2, <2>1, <2>2, DisplayNumbers DEF InStore, Touches, IdleSources
    <2>4. ~Queued(d)' /\ Earned(d)'
      BY <2>1, <2>2 DEF IdleSources, Earned
    <2>5. DisplayOK(d)'
      BY <1>5, <2>1, <2>4 DEF DisplayOK, GreeterOK, UserOK, StatusOK, QueuedOK
    <2>6. ToManager(d) \in CallRecords /\ Continues(<<ToManager(d)>>)
      BY <1>1, <1>11, CallTypes DEF Continues
    <2>7. /\ CallsTyped' /\ Busy' /\ First' = ToManager(d) /\ Rest' = Rest
          /\ Rest' # {} /\ Second' = ToFactory(d)
      BY <1>6, <1>11, <2>6, PushesOne DEF Core
    <2>8. FirstOK'
      BY <2>1, <2>3, <2>7, CallFields DEF FirstOK, CallOK, OfDisplay, FirstOnly
    <2>9. StackStep({d})
      BY <1>7, <2>3, <2>6, <2>8, PushStep
    <2> QED BY <2>1, <2>2, <2>3, <2>5, <2>7, <2>9, CoreStep DEF Typed
  <1>12. (Rest = {}) <=> (Tail(calls) = <<>>)
    BY <1>1, TailIsRest DEF Core
  <1> QED BY <1>2, <1>9, <1>10, <1>11, <1>12 DEF DoSetUpGreeter, GreeterHasNoUser

\* The factory's handler queues the purge of what is finished or failed.
LEMMA FactoryKeeps == ASSUME Core, FactoryHandler PROVE Core'
  <1>1. Busy /\ First.fn = "factory" /\ FirstOK
    BY CallOf DEF FactoryHandler, CallNames
  <1>2. PICK d \in Displays : d = First.d /\ d = This /\ InStore(d)
    BY CallOf DEF FactoryHandler, OfDisplay, FirstOnly, CallNames
  <1>3. ~Doomed(d) /\ First # SetStatus(d, "managed") /\ DisplayOK(d)
    BY <1>1, CallFields DEF Doomed, Core
  <1>4. displays[d].seat \in Seats
    BY RecordTypes DEF Core
  <1>5. /\ UNCHANGED displays
        /\ \/ Return(<<>>) \/ Return(<<FinishWaiting>>) \/ Return(<<Ensure(displays[d].seat)>>)
        /\ idles' = AddIdle(Purge) \/ (idles' = idles /\ displays[d].status # "failed")
    BY <1>2 DEF FactoryHandler, FactoryFinished, FactoryFailed, QueuePurge
  <1>6. /\ IdlesTyped' /\ OrderOK'
        /\ \A e \in Displays : Queued(e)' <=> Queued(e)
        /\ displays[d].status = "failed" \/ Queued(Purge) => Queued(Purge)'
        /\ idles \subseteq idles'
    <2>1. CASE idles' = AddIdle(Purge)
      BY <2>1, IdleAdded, DisplayNumbers DEF Core, IdleSources
    <2>2. CASE idles' = idles /\ displays[d].status # "failed"
      BY <2>2, IdlesSame DEF Core
    <2> QED BY <1>5, <2>1, <2>2
  <1>7. DisplaysTyped' /\ InStore(d)' /\ Touches({d}) /\ (Earned(d) => Earned(d)')
    BY <1>2, <1>5, <1>6 DEF InStore, Touches, Earned, Core, DisplaysTyped
  <1>8. Over(d) => Over(d)'
    BY <1>3, <1>5 DEF Over
  <1>9. QueuedOK(d)'
    BY <1>3, <1>5, <1>6, <1>7, <1>8 DEF DisplayOK, QueuedOK
  <1>10. DisplayOK(d)'
    BY <1>3, <1>5, <1>6, <1>7, <1>9 DEF DisplayOK, GreeterOK, UserOK, StatusOK
  <1>11. ASSUME NEW c \in Rest, c.d \in {d} PROVE CallOK(c)'
    <2>1. CallOK(c) /\ c.fn \notin FirstOnly /\ c.d = d
      BY <1>11 DEF Core, RestOK
    <2> QED BY <1>3, <1>5, <1>7, <1>8, <2>1 DEF CallOK, FirstOnly
  <1>12. CASE Return(<<>>)
    <2>1. CallsTyped' /\ StackStep({d})
      BY <1>1, <1>11, <1>12, PopStep
    <2> QED BY <1>6, <1>7, <1>10, <2>1, CoreStep DEF Typed
  <1>13. ASSUME NEW c \in {FinishWaiting, Ensure(displays[d].seat)}, Return(<<c>>) PROVE Core'
    <2>1. c \in CallRecords /\ Continues(<<c>>)
      BY <1>1, <1>4, <1>13, CallTypes DEF Continues
    <2>2. CallsTyped' /\ Busy' /\ First' = c
      BY <2>1, PushesOne DEF Core
    <2>3. FirstOK'
      BY <1>4, <2>2, CallFields DEF FirstOK, CallOK, OfDisplay, FirstOnly
    <2>4. StackStep({d})
      BY <1>11, <2>1, <2>3, PushStep
    <2> QED BY <1>6, <1>7, <1>10, <2>2, <2>4, CoreStep DEF Typed
  <1> QED BY <1>5, <1>12, <1>13

\* The displays that are added.
LEMMA NewRecords ==
    ASSUME NEW seat \in Seats, setupPending \in BOOLEAN
    PROVE  /\ Free \in DisplayRecords /\ Free.status = "free" /\ Free.session = "none"
           /\ Free.class = "greeter" /\ Free.registered = 0
           /\ LoginScreen(seat) \in DisplayRecords
           /\ LoginScreen(seat).status = "unmanaged" /\ LoginScreen(seat).class = "greeter"
           /\ LoginScreen(seat).seat = seat /\ LoginScreen(seat).session = "none"
           /\ LoginScreen(seat).registered = 0
           /\ \A v \in {NoVt} \union VTs :
                /\ UserDisplay(seat, v) \in DisplayRecords
                /\ UserDisplay(seat, v).status = "unmanaged" /\ UserDisplay(seat, v).class = "user"
                /\ UserDisplay(seat, v).seat = seat /\ UserDisplay(seat, v).session = "running"
                /\ UserDisplay(seat, v).registered = 0
  <1>1. "seat0" \in Seats /\ GDM_INITIAL_VT \in VTs
    BY LocalDisplaysAssumptions DEF GDM_INITIAL_VT, VTs
  <1>2. Free \in DisplayRecords
    BY <1>1 DEF Free, DisplayRecords, Statuses, SessionStates
  <1>3. LoginScreen(seat) \in DisplayRecords
    BY <1>1, <1>2 DEF LoginScreen, Free, DisplayRecords, Statuses, SessionStates
  <1>4. ASSUME NEW v \in {NoVt} \union VTs PROVE UserDisplay(seat, v) \in DisplayRecords
    BY <1>2, <1>4 DEF UserDisplay, Free, DisplayRecords, Statuses, SessionStates
  <1> QED BY <1>2, <1>3, <1>4 DEF Free, LoginScreen, UserDisplay

\* A place that is free has no call and no idle source.
LEMMA FreeIsForgotten ==
    ASSUME Core, NEW d \in Displays, displays[d].status = "free"
    PROVE  ~Queued(d) /\ \A c \in Rest : c.d # d
  <1>1. ~Queued(d)
    BY DEF Core, DisplayOK, QueuedOK
  <1>2. ASSUME NEW c \in Rest, c.d = d PROVE FALSE
    BY <1>2, DisplayNumbers DEF Core, RestOK, CallOK, InStore
  <1> QED BY <1>1, <1>2

\* gdm_display_store_add of a login screen that is then prepared.
LEMMA AddedKeeps ==
    ASSUME Core, setupPending \in BOOLEAN, NEW d \in Displays, displays[d].status = "free",
           NEW seat \in Seats, displays' = [displays EXCEPT ![d] = LoginScreen(seat)],
           Continues(<<SetStatus(d, "prepared")>>), UNCHANGED idles,
           Busy => First.fn = "ensure_display_for_seat"
    PROVE  Core'
  <1>1. IdlesTyped' /\ OrderOK' /\ \A j : Queued(j)' <=> Queued(j)
    BY IdlesSame DEF Core
  <1>2. /\ DisplaysTyped'
        /\ \A e \in Displays \ {d} : displays'[e] = displays[e]
        /\ displays'[d] = LoginScreen(seat)
    BY NewRecords, PlaceSet DEF Core
  <1>3. /\ displays'[d].status = "unmanaged" /\ displays'[d].class = "greeter"
        /\ displays'[d].session = "none" /\ displays'[d].registered = 0
    BY <1>2, NewRecords
  <1>4. SetStatus(d, "prepared") \in CallRecords
    BY CallTypes DEF Statuses
  <1>5. CallsTyped' /\ Busy' /\ First' = SetStatus(d, "prepared") /\ Rest' = Rest
    BY <1>4, PushesOne DEF Core
  <1>6. ~Queued(d) /\ \A c \in Rest : c.d # d
    BY FreeIsForgotten
  <1>7. Touches({d})
    BY <1>1, <1>2 DEF Touches
  <1>8. DisplayOK(d)'
    BY <1>1, <1>3, <1>6 DEF DisplayOK, GreeterOK, UserOK, StatusOK, QueuedOK
  <1>9. InStore(d)'
    BY <1>3 DEF InStore
  <1>10. FirstOK'
    BY <1>1, <1>3, <1>5, <1>6, <1>9, CallFields DEF FirstOK, CallOK, OfDisplay, FirstOnly
  <1>11. StackStep({d})
    BY <1>4, <1>6, <1>10, PushStep
  <1> QED BY <1>1, <1>2, <1>5, <1>7, <1>8, <1>11, CoreStep DEF Typed

\* Steps that only make a call, or none.
LEMMA QuietPop ==
    ASSUME Core, UNCHANGED <<displays, idles>>, Busy,
           First.fn \notin {"set_status", "unmanage", "manager", "factory"}, Return(<<>>)
    PROVE  Core'
  <1>1. IdlesTyped' /\ OrderOK' /\ \A j : Queued(j)' <=> Queued(j)
    BY IdlesSame DEF Core
  <1>2. Touches({}) /\ DisplaysTyped'
    BY <1>1 DEF Touches, Core, DisplaysTyped
  <1>3. CallsTyped' /\ StackStep({})
    BY PopStep
  <1> QED BY <1>1, <1>2, <1>3, CoreStep DEF Typed

LEMMA QuietPush ==
    ASSUME Core, UNCHANGED <<displays, idles>>,
           Busy => First.fn \notin {"set_status", "unmanage", "manager", "factory"},
           NEW c \in CallRecords, Continues(<<c>>), FirstOK'
    PROVE  Core'
  <1>1. IdlesTyped' /\ OrderOK' /\ \A j : Queued(j)' <=> Queued(j)
    BY IdlesSame DEF Core
  <1>2. Touches({}) /\ DisplaysTyped'
    BY <1>1 DEF Touches, Core, DisplaysTyped
  <1>3. CallsTyped' /\ StackStep({})
    BY PushStep, PushesOne DEF Core
  <1> QED BY <1>1, <1>2, <1>3, CoreStep DEF Typed

\* A login window that is managed or waiting is running, unless it is being unmanaged.
LEMMA ShownIsRunning ==
    ASSUME Core, NEW d \in Displays, displays[d].status \in {"managed", "waiting"},
           displays[d].class = "greeter", Busy => First.fn # "unmanage"
    PROVE  displays[d].session = "running" /\ displays[d].registered > 0
  <1>1. DisplayOK(d) /\ ~Doomed(d)
    BY CallFields DEF Core, Doomed
  <1> QED BY <1>1 DEF DisplayOK, GreeterOK, StatusOK

\* ensure_display_for_seat.
LEMMA EnsureKeeps ==
    ASSUME Core, setupPending \in BOOLEAN, EnsureDisplayForSeat
    PROVE  Core'
  <1>1. Busy /\ First.fn = "ensure_display_for_seat" /\ FirstOK /\ Arg = First.arg
    BY CallOf DEF EnsureDisplayForSeat, CallNames
  <1>2. PICK seat \in Seats : seat = Arg
    BY <1>1 DEF FirstOK, CallOK
  <1>3. UNCHANGED idles
    BY DEF EnsureDisplayForSeat
  <1>4. ASSUME NEW w \in LoginWindows(seat), SwitchToLoginWindow(seat, w) PROVE Core'
    <2>1. /\ w \in Displays /\ displays[w].class = "greeter" /\ displays[w].status # "free"
          /\ displays[w].status \in {"managed", "waiting"} /\ UNCHANGED displays
          /\ Return(<<SetStatus(w, "managed")>>)
      BY <1>4 DEF SwitchToLoginWindow, LoginWindows
    <2>2. displays[w].session = "running" /\ displays[w].registered > 0
      BY <1>1, <2>1, ShownIsRunning
    <2>3. SetStatus(w, "managed") \in CallRecords /\ Continues(<<SetStatus(w, "managed")>>)
      BY <1>1, <2>1, CallTypes DEF Continues, Statuses
    <2>4. Busy' /\ First' = SetStatus(w, "managed") /\ InStore(w)'
      BY <2>1, <2>3, PushesOne DEF Core, InStore
    <2>5. FirstOK'
      BY <2>1, <2>2, <2>4, CallFields DEF FirstOK, CallOK, OfDisplay, FirstOnly
    <2> QED BY <1>1, <1>3, <2>1, <2>3, <2>5, QuietPush
  <1>5. CASE WaitForGraphics(seat)
    BY <1>1, <1>3, <1>5, QuietPop DEF WaitForGraphics
  <1>6. CASE AddLoginScreen(seat)
    <2>1. CASE Return(<<>>) /\ UNCHANGED displays
      BY <1>1, <1>3, <2>1, QuietPop
    <2>2. ASSUME NEW d \in Displays, FirstFree(d),
                 displays' = [displays EXCEPT ![d] = LoginScreen(seat)],
                 Return(<<SetStatus(d, "prepared")>>)
          PROVE  Core'
      <3>1. displays[d].status = "free" /\ Continues(<<SetStatus(d, "prepared")>>)
        BY <1>1, <2>2 DEF FirstFree, FreePlaces, Continues
      <3> QED BY <1>1, <1>3, <2>2, <3>1, AddedKeeps
    <2> QED BY <1>6, <2>1, <2>2 DEF AddLoginScreen
  <1> QED BY <1>2, <1>4, <1>5, <1>6 DEF EnsureDisplayForSeat

-----------------------------------------------------------------------------
(* What the main loop dispatches.                                          *)

\* What the main loop dispatches makes no call, one, or two.
LEMMA DispatchNone ==
    ASSUME Core, Dispatch(<<>>), NEW X
    PROVE  ~Busy /\ Rest = {} /\ CallsTyped' /\ ~Busy' /\ StackStep(X)
  <1>1. ~Busy /\ Rest = {}
    BY RestTyped DEF Dispatch, Busy, Core
  <1>2. CallsTyped' /\ ~Busy' /\ Rest' = {}
    BY DEF Dispatch, CallsTyped, Busy, Rest
  <1> QED BY <1>1, <1>2 DEF StackStep

LEMMA DispatchOne ==
    ASSUME Core, NEW c \in CallRecords, Dispatch(<<c>>), NEW X
    PROVE  /\ ~Busy /\ Rest = {} /\ Continues(<<c>>)
           /\ CallsTyped' /\ Busy' /\ First' = c /\ Rest' = {}
           /\ FirstOK' => StackStep(X)
  <1>1. ~Busy /\ Rest = {} /\ Continues(<<c>>)
    BY RestTyped DEF Dispatch, Busy, Core, Continues
  <1>2. CallsTyped' /\ Busy' /\ First' = c /\ Rest' = {}
    BY <1>1, PushesOne DEF Core
  <1> QED BY <1>1, <1>2 DEF StackStep

LEMMA DispatchTwo ==
    ASSUME Core, NEW c \in CallRecords, NEW e \in CallRecords, Dispatch(<<c, e>>), NEW X
    PROVE  /\ ~Busy /\ Rest = {}
           /\ CallsTyped' /\ Busy' /\ First' = c /\ Rest' = {e}
           /\ FirstOK' /\ CallOK(e)' /\ e.fn \notin FirstOnly => StackStep(X)
  <1>1. ~Busy /\ Rest = {} /\ Continues(<<c, e>>)
    BY RestTyped DEF Dispatch, Busy, Core, Continues
  <1>2. CallsTyped' /\ Busy' /\ First' = c /\ Rest' = {e}
    BY <1>1, PushesTwo DEF Core
  <1> QED BY <1>1, <1>2 DEF StackStep

\* Displays that leave the store take their idle sources with them.
LEMMA DroppedKeeps ==
    ASSUME Core, setupPending \in BOOLEAN, Dispatch(<<>>), NEW X \in SUBSET Displays, NEW G,
           displays' = [d \in Displays |-> IF d \in X THEN Free ELSE displays[d]],
           idles' = RemoveIdles(G), \A d \in Displays : d \in G <=> d \in X,
           Purge \in G => \A d \in Displays \ X : displays[d].status # "failed"
    PROVE  Core'
  <1>1. ~Busy /\ CallsTyped' /\ ~Busy' /\ StackStep(X)
    BY DispatchNone
  <1>2. /\ IdlesTyped' /\ OrderOK'
        /\ \A j \in IdleSources : Queued(j)' <=> Queued(j) /\ j \notin G
        /\ \A j, k \in IdleSources :
                <<j, k>> \in idles' <=> <<j, k>> \in idles /\ j \notin G /\ k \notin G
    BY IdlesRemoved DEF Core
  <1>3. /\ Free \in DisplayRecords /\ Free.status = "free" /\ Free.session = "none"
        /\ Free.class = "greeter" /\ Free.registered = 0
    BY NewRecords, LocalDisplaysAssumptions
  <1>4. DisplaysTyped'
    BY <1>3 DEF Core, DisplaysTyped
  <1>5. \A d \in Displays : displays'[d] = IF d \in X THEN Free ELSE displays[d]
    OBVIOUS
  <1>6. Touches(X)
    BY <1>1, <1>2, <1>5 DEF Touches, IdleSources
  <1>7. ASSUME NEW d \in X PROVE DisplayOK(d)'
    <2>1. ~Queued(d)' /\ displays'[d] = Free
      BY <1>2, <1>5 DEF IdleSources
    <2> QED BY <1>3, <2>1 DEF DisplayOK, GreeterOK, UserOK, StatusOK, QueuedOK
  <1> QED BY <1>1, <1>2, <1>4, <1>6, <1>7, CoreStep DEF Typed

\* purge_displays, delete_display.
LEMMA RunPurgeKeeps == ASSUME Core, setupPending \in BOOLEAN, RunPurge PROVE Core'
  <1> DEFINE done == {d \in Displays : displays[d].status \in {"finished", "failed"}}
  <1>1. /\ Dispatch(<<>>) /\ idles' = RemoveIdles(done \union {Purge})
        /\ displays' = [d \in Displays |-> IF d \in done THEN Free ELSE displays[d]]
    BY DEF RunPurge
  <1>2. \A d \in Displays : d \in done \union {Purge} <=> d \in done
    BY DisplayNumbers
  <1>3. \A d \in Displays \ done : displays[d].status # "failed"
    OBVIOUS
  <1>4. done \in SUBSET Displays
    OBVIOUS
  <1> HIDE DEF done
  <1> QED BY <1>1, <1>2, <1>3, <1>4, DroppedKeeps

LEMMA DeletedKeeps ==
    ASSUME Core, setupPending \in BOOLEAN, NEW seat, Dispatch(<<>>), Deleted(seat)
    PROVE  Core'
  <1> DEFINE gone == {d \in Displays : displays[d].seat = seat}
  <1>1. /\ idles' = RemoveIdles(gone)
        /\ displays' = [d \in Displays |-> IF d \in gone THEN Free ELSE displays[d]]
    BY DEF Deleted
  <1>2. gone \in SUBSET Displays /\ Purge \notin gone
    BY DisplayNumbers
  <1> HIDE DEF gone
  <1> QED BY <1>1, <1>2, DroppedKeeps

\* finish_idle: a failed display was purged, since the purge is first.
LEMMA RunFinishKeeps == ASSUME Core, RunFinish PROVE Core'
  <1>1. PICK d \in Displays : FirstIdle(d) /\ Dispatch(<<Finish(d)>>) /\ idles' = RemoveIdles({d})
    BY DEF RunFinish
  <1>2. UNCHANGED displays /\ DisplaysTyped' /\ Finish(d) \in CallRecords
    BY CallTypes DEF RunFinish, Core, DisplaysTyped
  <1>3. /\ IdlesTyped' /\ OrderOK'
        /\ \A j \in IdleSources : Queued(j)' <=> Queued(j) /\ j \notin {d}
        /\ \A j, k \in IdleSources :
                <<j, k>> \in idles' <=> <<j, k>> \in idles /\ j \notin {d} /\ k \notin {d}
    BY <1>1, IdlesRemoved DEF Core
  <1>4. /\ ~Busy /\ CallsTyped' /\ Busy' /\ First' = Finish(d)
        /\ FirstOK' => StackStep({})
    BY <1>1, <1>2, DispatchOne
  <1>5. Purge \in IdleSources /\ d \in IdleSources /\ d # Purge
    BY DisplayNumbers DEF IdleSources
  <1>6. <<Purge, d>> \notin idles
    <2> SUFFICES ASSUME <<Purge, d>> \in idles PROVE FALSE
      OBVIOUS
    <2>1. Queued(Purge) /\ <<d, Purge>> \notin idles
      BY <1>5 DEF Core, OrderOK
    <2> QED BY <1>1, <1>5, <2>1 DEF FirstIdle, QueuedIdles
  <1>7. QueuedOK(d) /\ Queued(d)
    BY <1>1 DEF Core, DisplayOK, FirstIdle
  <1>8. Over(d) /\ Earned(d) /\ InStore(d) /\ ~Doomed(d)
    BY <1>4, <1>6, <1>7 DEF QueuedOK, InStore, Doomed
  <1>9. Over(d)' /\ Earned(d)' /\ InStore(d)'
    BY <1>2, <1>8 DEF Over, Earned, InStore
  <1>10. FirstOK'
    BY <1>4, <1>9, CallFields DEF FirstOK, CallOK, OfDisplay, FirstOnly
  <1>11. Touches({})
    BY <1>2, <1>3, <1>4, <1>5 DEF Touches, IdleSources
  <1> QED BY <1>2, <1>3, <1>4, <1>10, <1>11, CoreStep DEF Typed

\* Events that touch no display.
LEMMA EventKeeps ==
    ASSUME Core, UNCHANGED <<displays, idles>>, Dispatch(<<>>)
    PROVE  Core'
  <1>1. ~Busy /\ CallsTyped' /\ StackStep({})
    BY DispatchNone
  <1>2. IdlesTyped' /\ OrderOK' /\ \A j : Queued(j)' <=> Queued(j)
    BY IdlesSame DEF Core
  <1>3. Touches({}) /\ DisplaysTyped'
    BY <1>1, <1>2 DEF Touches, Core, DisplaysTyped
  <1> QED BY <1>1, <1>2, <1>3, CoreStep DEF Typed

\* Calls that are for no display.
LEMMA AnonymousCalls ==
    ASSUME NEW c \in {FinishWaiting} \union {Ensure(s) : s \in Seats}
    PROVE  c \in CallRecords /\ CallOK(c)' /\ c.fn \notin FirstOnly
  <1>1. CASE c = FinishWaiting
    BY <1>1, CallTypes, CallFields DEF CallOK, OfDisplay, FirstOnly
  <1>2. ASSUME NEW s \in Seats, c = Ensure(s)
        PROVE  c \in CallRecords /\ CallOK(c)' /\ c.fn \notin FirstOnly
    BY <1>2, CallTypes, CallFields DEF CallOK, OfDisplay, FirstOnly
  <1> QED BY <1>1, <1>2

LEMMA CallingEventKeeps ==
    ASSUME Core, UNCHANGED <<displays, idles>>,
           NEW c \in {FinishWaiting} \union {Ensure(s) : s \in Seats}, Dispatch(<<c>>)
    PROVE  Core'
  <1>1. c \in CallRecords /\ CallOK(c)' /\ c.fn \notin FirstOnly
    BY AnonymousCalls
  <1>2. ~Busy /\ Continues(<<c>>) /\ First' = c
    BY <1>1, DispatchOne
  <1>3. CallOK(First)'
    BY <1>1, <1>2 DEF CallOK, Over, Earned, Doomed, InStore
  <1>4. FirstOK'
    BY <1>1, <1>2, <1>3 DEF FirstOK, FirstOnly
  <1> QED BY <1>1, <1>2, <1>4, QuietPush

\* The login screen that was left waits.
LEMMA WaitKeeps ==
    ASSUME Core, UNCHANGED <<displays, idles>>, NEW w \in Displays,
           displays[w].class = "greeter", displays[w].status \in {"managed", "waiting"},
           \/ Dispatch(<<SetStatus(w, "waiting")>>)
           \/ Dispatch(<<SetStatus(w, "waiting"), Ensure("seat0")>>)
    PROVE  Core'
  <1>1. SetStatus(w, "waiting") \in CallRecords
    BY CallTypes DEF Statuses
  <1>2. /\ Ensure("seat0") \in CallRecords /\ CallOK(Ensure("seat0"))'
        /\ Ensure("seat0").fn \notin FirstOnly
    BY AnonymousCalls, LocalDisplaysAssumptions
  <1>3. ~Busy /\ CallsTyped' /\ Busy' /\ First' = SetStatus(w, "waiting")
    BY <1>1, <1>2, DispatchOne, DispatchTwo
  <1>4. displays[w].session = "running" /\ displays[w].registered > 0 /\ InStore(w)'
    BY <1>3, ShownIsRunning DEF InStore
  <1>5. FirstOK'
    BY <1>3, <1>4, CallFields DEF FirstOK, CallOK, OfDisplay, FirstOnly
  <1>6. StackStep({})
    BY <1>1, <1>2, <1>5, DispatchOne, DispatchTwo
  <1>7. IdlesTyped' /\ OrderOK' /\ \A j : Queued(j)' <=> Queued(j)
    BY IdlesSame DEF Core
  <1>8. Touches({}) /\ DisplaysTyped'
    BY <1>3, <1>7 DEF Touches, Core, DisplaysTyped
  <1> QED BY <1>3, <1>6, <1>7, <1>8, CoreStep DEF Typed

\* What on_vt_changed calls.
LEMMA VtHandlerCalls ==
    ASSUME NEW w, VtHandler(w)
    PROVE  /\ \/ Dispatch(<<>>) /\ vt # GDM_INITIAL_VT
              \/ Dispatch(<<Ensure("seat0")>>)
              \/ /\ w # NoDisplay /\ activeVt = GDM_INITIAL_VT /\ MayWait(w)
                 /\ \/ Dispatch(<<SetStatus(w, "waiting")>>) /\ vt # GDM_INITIAL_VT
                    \/ Dispatch(<<SetStatus(w, "waiting"), Ensure("seat0")>>)
  <1> DEFINE x == SetStatus(w, "waiting")
             y == Ensure("seat0")
             left == w # NoDisplay /\ activeVt = GDM_INITIAL_VT /\ MayWait(w)
  <1>1. Dispatch((IF left THEN <<x>> ELSE <<>>) \o (IF vt = GDM_INITIAL_VT THEN <<y>> ELSE <<>>))
    BY DEF VtHandler
  <1> HIDE DEF x, y
  <1>2. <<x>> \o <<y>> = <<x, y>> /\ <<x>> \o <<>> = <<x>> /\ <<>> \o <<y>> = <<y>> /\ <<>> \o <<>> = <<>>
    <2>1. <<x>> \in Seq({x, y}) /\ <<y>> \in Seq({x, y}) /\ <<>> \in Seq({x, y})
      OBVIOUS
    <2>2. <<x>> \o <<y>> = <<x, y>>
      <3> DEFINE t == <<x>> \o <<y>>
                 u == <<x, y>>
      <3>1. /\ t \in Seq({x, y}) /\ Len(t) = 2
            /\ \A i \in 1..2 : t[i] = IF i <= 1 THEN <<x>>[i] ELSE <<y>>[i - 1]
        BY <2>1, ConcatProperties
      <3>2. t[1] = x /\ t[2] = y
        BY <3>1
      <3>3. u \in Seq({x, y}) /\ Len(u) = 2 /\ u[1] = x /\ u[2] = y
        OBVIOUS
      <3> HIDE DEF t, u
      <3>4. \A i \in 1..Len(t) : t[i] = u[i]
        BY <3>1, <3>2, <3>3
      <3>5. t = u
        BY <3>1, <3>3, <3>4, SeqEqual
      <3> QED BY <3>5 DEF t, u
    <2> QED BY <2>1, <2>2, ConcatEmptySeq
  <1>3. CASE left /\ vt = GDM_INITIAL_VT
    BY <1>1, <1>2, <1>3 DEF x, y
  <1>4. CASE left /\ vt # GDM_INITIAL_VT
    BY <1>1, <1>2, <1>4 DEF x, y
  <1>5. CASE ~left /\ vt = GDM_INITIAL_VT
    BY <1>1, <1>2, <1>5 DEF x, y
  <1>6. CASE ~left /\ vt # GDM_INITIAL_VT
    BY <1>1, <1>2, <1>6 DEF x, y
  <1> QED BY <1>3, <1>4, <1>5, <1>6

\* on_vt_changed.
LEMMA VtChangedKeeps == ASSUME Core, OnVtChanged PROVE Core'
  <1>1. UNCHANGED <<displays, idles>>
    BY DEF OnVtChanged
  <1>2. CASE UNCHANGED calls
    BY <1>1, <1>2, EventKeeps DEF OnVtChanged, Dispatch
  <1>3. ASSUME NEW w \in LoginWindows("seat0") \union {NoDisplay}, VtHandler(w) PROVE Core'
    <2>1. Ensure("seat0") \in {Ensure(s) : s \in Seats}
      BY LocalDisplaysAssumptions
    <2>2. CASE Dispatch(<<>>)
      BY <1>1, <2>2, EventKeeps
    <2>3. CASE Dispatch(<<Ensure("seat0")>>)
      BY <1>1, <2>1, <2>3, CallingEventKeeps
    <2>4. CASE /\ w # NoDisplay /\ MayWait(w)
               /\ \/ Dispatch(<<SetStatus(w, "waiting")>>)
                  \/ Dispatch(<<SetStatus(w, "waiting"), Ensure("seat0")>>)
      <3>1. w \in Displays /\ displays[w].class = "greeter" /\ displays[w].status = "managed"
        BY <1>3, <2>4 DEF LoginWindows, MayWait
      <3> QED BY <1>1, <2>4, <3>1, WaitKeeps
    <2> QED BY <1>3, <2>2, <2>3, <2>4, VtHandlerCalls
  <1> QED BY <1>2, <1>3 DEF OnVtChanged

LEMMA MainLoopKeeps == ASSUME Core, setupPending \in BOOLEAN, MainLoop PROVE Core'
  <1>1. CASE OnSeat0GraphicsCheckTimeout
    BY <1>1, CallingEventKeeps, LocalDisplaysAssumptions DEF OnSeat0GraphicsCheckTimeout
  <1>2. CASE OnFinishWaitingTimeout
    BY <1>2, CallingEventKeeps DEF OnFinishWaitingTimeout
  <1> QED BY <1>1, <1>2, RunPurgeKeeps, RunFinishKeeps, VtChangedKeeps DEF MainLoop

LEMMA EnvironmentKeeps == ASSUME Core, setupPending \in BOOLEAN, Environment PROVE Core'
  <1>1. CASE OnUevent
    BY <1>1, CallingEventKeeps, LocalDisplaysAssumptions DEF OnUevent
  <1>2. CASE VtSwitch
    BY <1>2, EventKeeps DEF VtSwitch
  <1>3. CASE CreateTransientDisplay
    <2>1. PICK d \in Displays : /\ FirstFree(d) /\ Dispatch(<<SetStatus(d, "prepared")>>)
                                /\ displays' = [displays EXCEPT ![d] = LoginScreen("seat0")]
                                /\ UNCHANGED idles
      BY <1>3 DEF CreateTransientDisplay
    <2>2. SetStatus(d, "prepared") \in CallRecords /\ displays[d].status = "free"
      BY <2>1, CallTypes DEF Statuses, FirstFree, FreePlaces
    <2>3. ~Busy /\ Continues(<<SetStatus(d, "prepared")>>)
      BY <2>1, <2>2, DispatchOne
    <2> QED BY <2>1, <2>2, <2>3, AddedKeeps, LocalDisplaysAssumptions
  <1>4. ASSUME NEW s \in Seats, OnSeatActivateGreeter(s) PROVE Core'
    BY <1>4, CallingEventKeeps DEF OnSeatActivateGreeter
  <1>5. ASSUME NEW s \in Seats, OnSeatRemoved(s) PROVE Core'
    BY <1>5, DeletedKeeps DEF OnSeatRemoved
  <1>6. ASSUME NEW s \in Seats, OnSeatPropertiesChanged(s) PROVE Core'
    <2>1. CASE Dispatch(<<Ensure(s)>>) /\ UNCHANGED <<displays, idles>>
      BY <2>1, CallingEventKeeps
    <2>2. CASE Dispatch(<<>>) /\ Deleted(s)
      BY <2>2, DeletedKeeps
    <2> QED BY <1>6, <2>1, <2>2 DEF OnSeatPropertiesChanged
  <1> QED BY <1>1, <1>2, <1>3, <1>4, <1>5, <1>6 DEF Environment

-----------------------------------------------------------------------------
(* Sessions of the displays.                                               *)

\* A login screen whose session has not come to run is being prepared.
LEMMA EarlySession ==
    ASSUME Core, ~Busy, NEW d \in Displays,
           displays[d].session \in {"lookup", "automatic", "starting", "open"}
    PROVE  /\ displays[d].class = "greeter" /\ displays[d].status = "prepared"
           /\ displays[d].registered = 0 /\ ~Queued(d)
  <1>1. DisplayOK(d) /\ ~Doomed(d) /\ displays[d].class \in {"greeter", "user"}
    BY RecordTypes DEF Core, Doomed
  <1> QED BY <1>1 DEF DisplayOK, GreeterOK, UserOK, StatusOK, QueuedOK, Over

\* A session that has not come to run goes on, or is lost.
LEMMA EarlyStepKeeps ==
    ASSUME Core, NEW d \in Displays, UNCHANGED idles,
           NEW from \in {"lookup", "automatic", "starting", "open"},
           NEW to \in {"automatic", "open", "running", "lost", "none"}, Steps(d, from, to),
           \/ Dispatch(<<>>)
           \/ to = "none" /\ Dispatch(<<SetUpGreeter(d)>>)
    PROVE  Core'
  <1>1. ~Busy /\ SetUpGreeter(d) \in CallRecords
    BY CallTypes DEF Dispatch, Busy
  <1>2. displays[d].session = from /\ displays' = [displays EXCEPT ![d].session = to]
    BY DEF Steps
  <1>3. /\ displays[d].class = "greeter" /\ displays[d].status = "prepared"
        /\ displays[d].registered = 0 /\ ~Queued(d)
    BY <1>1, <1>2, EarlySession
  <1>4. /\ DisplaysTyped'
        /\ \A e \in Displays \ {d} : displays'[e] = displays[e]
        /\ displays'[d].status = displays[d].status
        /\ displays'[d].class = displays[d].class
        /\ displays'[d].session = to
        /\ displays'[d].registered = displays[d].registered
    BY <1>2, SessionSet DEF Core, SessionStates
  <1>5. IdlesTyped' /\ OrderOK' /\ \A j : Queued(j)' <=> Queued(j)
    BY IdlesSame DEF Core
  <1>6. Touches({d})
    BY <1>1, <1>4, <1>5 DEF Touches
  <1>7. DisplayOK(d)' /\ InStore(d)'
    BY <1>3, <1>4, <1>5 DEF DisplayOK, GreeterOK, UserOK, StatusOK, QueuedOK, InStore
  <1>8. CASE Dispatch(<<>>)
    <2>1. CallsTyped' /\ StackStep({d})
      BY <1>8, DispatchNone
    <2> QED BY <1>4, <1>5, <1>6, <1>7, <2>1, CoreStep DEF Typed
  <1>9. CASE to = "none" /\ Dispatch(<<SetUpGreeter(d)>>)
    <2>1. /\ CallsTyped' /\ Busy' /\ First' = SetUpGreeter(d) /\ Rest' = {}
          /\ FirstOK' => StackStep({d})
      BY <1>1, <1>9, DispatchOne
    <2>2. FirstOK'
      BY <1>3, <1>4, <1>7, <1>9, <2>1, CallFields DEF FirstOK, CallOK, OfDisplay, FirstOnly
    <2> QED BY <1>4, <1>5, <1>6, <1>7, <2>1, <2>2, CoreStep DEF Typed
  <1> QED BY <1>8, <1>9

\* A display whose session runs is in the store, and is not queued.
LEMMA RunningSession ==
    ASSUME Core, ~Busy, NEW d \in Displays, displays[d].session = "running"
    PROVE  /\ displays[d].status # "free" /\ ~Queued(d)
           /\ displays[d].status = "prepared" => displays[d].registered = 0
           /\ displays[d].status \notin {"failed", "finished"}
  <1>1. DisplayOK(d) /\ displays[d].class \in {"greeter", "user"}
    BY RecordTypes DEF Core
  <1> QED BY <1>1 DEF DisplayOK, GreeterOK, UserOK, StatusOK, QueuedOK, Over

\* RegisterDisplay and RegisterSession.
LEMMA RegisterDisplayKeeps == ASSUME Core, NEW d \in Displays, RegisterDisplay(d) PROVE Core'
  <1>1. /\ ~Busy /\ displays[d].session = "running"
        /\ displays' = [displays EXCEPT ![d].registered = 1]
        /\ Dispatch(<<SetStatus(d, "managed")>>) /\ UNCHANGED idles
    BY DEF RegisterDisplay, Dispatch, Busy
  <1>2. /\ DisplaysTyped'
        /\ \A e \in Displays \ {d} : displays'[e] = displays[e]
        /\ displays'[d].status = displays[d].status
        /\ displays'[d].class = displays[d].class
        /\ displays'[d].session = displays[d].session
        /\ displays'[d].registered = 1
    <2>1. 1 \in 0..2 /\ 2 \in 0..2
      OBVIOUS
    <2> QED BY <1>1, <2>1, RegisteredSet DEF Core
  <1>3. displays[d].status # "free" /\ ~Queued(d) /\ displays[d].status \notin {"failed", "finished"}
    BY <1>1, RunningSession
  <1>4. IdlesTyped' /\ OrderOK' /\ \A j : Queued(j)' <=> Queued(j)
    BY <1>1, IdlesSame DEF Core
  <1>5. SetStatus(d, "managed") \in CallRecords
    BY CallTypes DEF Statuses
  <1>6. CallsTyped' /\ Busy' /\ First' = SetStatus(d, "managed") /\ (FirstOK' => StackStep({d}))
    BY <1>1, <1>5, DispatchOne
  <1>7. Touches({d}) /\ InStore(d)'
    BY <1>1, <1>2, <1>3, <1>4 DEF Touches, InStore
  <1>8. FirstOK'
    BY <1>1, <1>2, <1>6, <1>7, CallFields DEF FirstOK, CallOK, OfDisplay, FirstOnly
  <1>9. DisplayOK(d) /\ ~Doomed(d)
    BY <1>1 DEF Core, Doomed
  <1>10. DisplayOK(d)'
    BY <1>1, <1>2, <1>3, <1>4, <1>6, <1>9 DEF DisplayOK, GreeterOK, UserOK, StatusOK, QueuedOK
  <1> QED BY <1>2, <1>4, <1>6, <1>7, <1>8, <1>10, CoreStep DEF Typed

LEMMA RegisterSessionKeeps == ASSUME Core, NEW d \in Displays, RegisterSession(d) PROVE Core'
  <1>1. /\ ~Busy /\ displays[d].session = "running" /\ displays[d].registered = 1
        /\ displays' = [displays EXCEPT ![d].registered = 2]
        /\ Dispatch(<<>>) /\ UNCHANGED idles
    BY DEF RegisterSession, Dispatch, Busy
  <1>2. /\ DisplaysTyped'
        /\ \A e \in Displays \ {d} : displays'[e] = displays[e]
        /\ displays'[d].status = displays[d].status
        /\ displays'[d].class = displays[d].class
        /\ displays'[d].session = displays[d].session
        /\ displays'[d].registered = 2
    <2>1. 1 \in 0..2 /\ 2 \in 0..2
      OBVIOUS
    <2> QED BY <1>1, <2>1, RegisteredSet DEF Core
  <1>3. /\ displays[d].status # "free" /\ ~Queued(d) /\ displays[d].status \notin {"failed", "finished"}
        /\ displays[d].status # "prepared"
    BY <1>1, RunningSession
  <1>4. IdlesTyped' /\ OrderOK' /\ \A j : Queued(j)' <=> Queued(j)
    BY <1>1, IdlesSame DEF Core
  <1>5. CallsTyped' /\ StackStep({d})
    BY <1>1, DispatchNone
  <1>6. Touches({d})
    BY <1>1, <1>2, <1>4 DEF Touches
  <1>7. DisplayOK(d) /\ ~Doomed(d)
    BY <1>1 DEF Core, Doomed
  <1>8. DisplayOK(d)'
    BY <1>1, <1>2, <1>3, <1>4, <1>7 DEF DisplayOK, GreeterOK, UserOK, StatusOK, QueuedOK
  <1> QED BY <1>2, <1>4, <1>5, <1>6, <1>8, CoreStep DEF Typed

\* self_destruct and remove_user_session: unmanage first, finish later.
LEMMA EndedKeeps ==
    ASSUME Core, NEW d \in Displays, UNCHANGED idles,
           NEW from \in {"running", "exiting"}, NEW to \in {"exiting", "none"}, Steps(d, from, to),
           NEW c \in {QueueFinish(d), FinishUnlessFailed(d)}, Dispatch(<<Unmanage(d), c>>),
           displays[d].class = IF c = QueueFinish(d) THEN "greeter" ELSE "user",
           displays[d].class = "user" => to = "none"
    PROVE  Core'
  <1>1. /\ ~Busy /\ displays[d].session = from
        /\ displays' = [displays EXCEPT ![d].session = to]
    BY DEF Steps, Dispatch, Busy
  <1>2. /\ DisplaysTyped'
        /\ \A e \in Displays \ {d} : displays'[e] = displays[e]
        /\ displays'[d].status = displays[d].status
        /\ displays'[d].class = displays[d].class
        /\ displays'[d].session = to
        /\ displays'[d].registered = displays[d].registered
    BY <1>1, SessionSet DEF Core, SessionStates
  <1>3. IdlesTyped' /\ OrderOK' /\ \A j : Queued(j)' <=> Queued(j)
    BY IdlesSame DEF Core
  <1>4. Unmanage(d) \in CallRecords /\ c \in CallRecords
    BY CallTypes
  <1>5. /\ CallsTyped' /\ Busy' /\ First' = Unmanage(d)
        /\ FirstOK' /\ CallOK(c)' /\ c.fn \notin FirstOnly => StackStep({d})
    BY <1>4, DispatchTwo
  <1>6. DisplayOK(d) /\ displays[d].status # "free"
    BY <1>1 DEF Core, DisplayOK, StatusOK
  <1>7. Touches({d}) /\ InStore(d)' /\ Doomed(d)' /\ Over(d)' /\ (Earned(d) => Earned(d)')
    BY <1>1, <1>2, <1>3, <1>5, <1>6 DEF Touches, InStore, Doomed, Over, Earned
  <1>8. QueuedOK(d)'
    BY <1>2, <1>3, <1>6, <1>7 DEF DisplayOK, QueuedOK
  <1>9. ~Doomed(d) /\ ~(Busy /\ First = SetStatus(d, "managed"))
        /\ ~(Busy /\ First \in {ToManager(d), ToFactory(d)})
    BY <1>1 DEF Doomed
  <1>10. GreeterOK(d)' /\ UserOK(d)'
    BY <1>1, <1>2, <1>6, <1>7 DEF DisplayOK, GreeterOK, UserOK
  <1>11. StatusOK(d)'
    BY <1>2, <1>3, <1>6, <1>7, <1>9 DEF DisplayOK, StatusOK
  <1>12. CallOK(c)' /\ c.fn \notin FirstOnly
    <2>1. CASE c = QueueFinish(d)
      BY <1>2, <1>7, <2>1, CallFields DEF CallOK, OfDisplay, FirstOnly
    <2>2. CASE c = FinishUnlessFailed(d)
      <3>1. displays[d].class = "user"
        BY <2>2, CallFields
      <3> QED BY <1>2, <1>7, <2>2, <3>1, CallFields DEF CallOK, OfDisplay, FirstOnly
    <2> QED BY <2>1, <2>2
  <1>13. FirstOK'
    BY <1>2, <1>5, <1>7, CallFields DEF FirstOK, CallOK, OfDisplay, FirstOnly
  <1>14. DisplayOK(d)'
    BY <1>8, <1>10, <1>11 DEF DisplayOK
  <1> QED BY <1>2, <1>3, <1>5, <1>7, <1>12, <1>13, <1>14, CoreStep DEF Typed

\* on_start_user_session, from a login screen and for automatic login.
LEMMA StartUserSessionKeeps ==
    ASSUME Core, setupPending \in BOOLEAN, NEW d \in Displays, StartUserSession(d)
    PROVE  Core'
  <1>1. /\ displays[d].class = "greeter" /\ displays[d].session = "running"
        /\ displays[d].registered = 2 /\ displays[d].status \in {"managed", "waiting"}
        /\ UNCHANGED idles
    BY DEF StartUserSession
  <1>2. PICK u \in Displays, v \in {NoVt} \union VTs :
               /\ FirstFree(u)
               /\ displays' = [displays EXCEPT ![u] = UserDisplay(displays[d].seat, v)]
    BY DEF StartUserSession
  <1>3. displays[u].status = "free" /\ displays[d].seat \in Seats /\ u # d
    BY <1>1, <1>2, RecordTypes DEF FirstFree, FreePlaces, Core
  <1>4. PICK r \in DisplayRecords :
               /\ r = UserDisplay(displays[d].seat, v)
               /\ r.status = "unmanaged" /\ r.class = "user" /\ r.session = "running" /\ r.registered = 0
    BY <1>3, NewRecords
  <1>5. /\ DisplaysTyped'
        /\ \A e \in Displays \ {u} : displays'[e] = displays[e]
        /\ displays'[u] = r
    BY <1>2, <1>4, PlaceSet DEF Core
  <1>6. IdlesTyped' /\ OrderOK' /\ \A j : Queued(j)' <=> Queued(j)
    BY <1>1, IdlesSame DEF Core
  <1>7. ~Queued(u)
    BY <1>3, FreeIsForgotten
  <1>8. DisplayOK(u)'
    BY <1>4, <1>5, <1>6, <1>7 DEF DisplayOK, GreeterOK, UserOK, StatusOK, QueuedOK
  <1>9. ASSUME ~Busy PROVE Touches({u})
    BY <1>1, <1>5, <1>6, <1>9 DEF Touches
  <1>10. CASE Dispatch(<<>>)
    <2>1. ~Busy /\ CallsTyped' /\ StackStep({u})
      BY <1>10, DispatchNone
    <2> QED BY <1>5, <1>6, <1>8, <1>9, <2>1, CoreStep DEF Typed
  <1>11. CASE Dispatch(<<SetStatus(d, "waiting")>>)
    <2>1. SetStatus(d, "waiting") \in CallRecords
      BY CallTypes DEF Statuses
    <2>2. /\ ~Busy /\ CallsTyped' /\ Busy' /\ First' = SetStatus(d, "waiting")
          /\ FirstOK' => StackStep({u})
      BY <1>11, <2>1, DispatchOne
    <2>3. displays'[d] = displays[d] /\ InStore(d)'
      BY <1>1, <1>3, <1>5 DEF InStore
    <2>4. FirstOK'
      BY <1>1, <2>2, <2>3, CallFields DEF FirstOK, CallOK, OfDisplay, FirstOnly
    <2> QED BY <1>5, <1>6, <1>8, <1>9, <2>2, <2>4, CoreStep DEF Typed
  <1> QED BY <1>10, <1>11 DEF StartUserSession

LEMMA StartAutomaticSessionKeeps ==
    ASSUME Core, setupPending \in BOOLEAN, NEW d \in Displays, StartAutomaticSession(d)
    PROVE  Core'
  <1>1. displays[d].session = "automatic" /\ UNCHANGED idles /\ Dispatch(<<>>)
    BY DEF StartAutomaticSession
  <1>2. PICK u \in Displays, v \in VTs :
               /\ FirstFree(u)
               /\ displays' = [displays EXCEPT ![u] = UserDisplay("seat0", v), ![d] = Free]
    BY DEF StartAutomaticSession
  <1>3. ~Busy /\ CallsTyped' /\ StackStep({u, d})
    BY <1>1, DispatchNone
  <1>4. displays[u].status = "free" /\ displays[d].status = "prepared" /\ ~Queued(d) /\ ~Queued(u)
    BY <1>1, <1>2, <1>3, EarlySession, FreeIsForgotten DEF FirstFree, FreePlaces
  <1>5. PICK r \in DisplayRecords :
               /\ r = UserDisplay("seat0", v)
               /\ r.status = "unmanaged" /\ r.class = "user" /\ r.session = "running" /\ r.registered = 0
    BY NewRecords, LocalDisplaysAssumptions
  <1>6. PICK f \in DisplayRecords :
               /\ f = Free /\ f.status = "free" /\ f.session = "none" /\ f.class = "greeter"
    BY NewRecords, LocalDisplaysAssumptions
  <1>7. displays' = [displays EXCEPT ![u] = r, ![d] = f] /\ u # d
    BY <1>2, <1>4, <1>5, <1>6
  <1>8. /\ DisplaysTyped'
        /\ \A e \in Displays \ {u, d} : displays'[e] = displays[e]
        /\ displays'[u] = r /\ displays'[d] = f
    BY <1>7 DEF Core, DisplaysTyped
  <1>9. IdlesTyped' /\ OrderOK' /\ \A j : Queued(j)' <=> Queued(j)
    BY <1>1, IdlesSame DEF Core
  <1>10. DisplayOK(u)'
    BY <1>4, <1>5, <1>8, <1>9 DEF DisplayOK, GreeterOK, UserOK, StatusOK, QueuedOK
  <1>11. DisplayOK(d)'
    BY <1>4, <1>6, <1>8, <1>9 DEF DisplayOK, GreeterOK, UserOK, StatusOK, QueuedOK
  <1>12. Touches({u, d})
    BY <1>1, <1>3, <1>8, <1>9 DEF Touches
  <1> QED BY <1>3, <1>8, <1>9, <1>10, <1>11, <1>12, CoreStep DEF Typed

LEMMA SessionKeeps ==
    ASSUME Core, setupPending \in BOOLEAN, NEW d \in Displays, Session(d)
    PROVE  Core'
  <1>1. CASE UserIsLoaded(d)
    BY <1>1, EarlyStepKeeps DEF UserIsLoaded
  <1>2. CASE GreeterProceeds(d)
    BY <1>2, EarlyStepKeeps DEF GreeterProceeds
  <1>3. CASE SessionLost(d)
    BY <1>3, EarlyStepKeeps DEF SessionLost
  <1>4. CASE GreeterEnds(d)
    BY <1>4, EndedKeeps DEF GreeterEnds
  <1>5. CASE UserSessionEnds(d)
    <2>1. FinishUnlessFailed(d) # QueueFinish(d)
      BY CallFields
    <2> QED BY <1>5, <2>1, EndedKeeps DEF UserSessionEnds
  <1> QED BY <1>1, <1>2, <1>3, <1>4, <1>5, RegisterDisplayKeeps, RegisterSessionKeeps,
             StartUserSessionKeeps, StartAutomaticSessionKeeps DEF Session

LEMMA MakeCallKeeps == ASSUME Core, setupPending \in BOOLEAN, MakeCall PROVE Core'
  BY SetStatusKeeps, UnmanageKeeps, FinishKeeps, FinishUnlessFailedKeeps, QueueFinishKeeps,
     FinishWaitingKeeps, ManagerKeeps, SetUpGreeterKeeps, FactoryKeeps, EnsureKeeps DEF MakeCall

LEMMA CoreUnchanged == ASSUME Core, UNCHANGED vars PROVE Core'
  <1>1. UNCHANGED <<displays, calls, idles>>
    BY DEF vars
  <1>2. UNCHANGED <<Busy, First, Second, Rest>>
    BY <1>1 DEF Busy, First, Second, Rest
  <1>3. \A d : (Queued(d)' <=> Queued(d)) /\ (Doomed(d)' <=> Doomed(d)) /\ (Earned(d)' <=> Earned(d))
               /\ (Over(d)' <=> Over(d)) /\ (InStore(d)' <=> InStore(d))
    BY <1>1, <1>2 DEF Queued, Doomed, Earned, Over, InStore
  <1>4. DisplaysTyped' /\ CallsTyped' /\ IdlesTyped' /\ OrderOK'
    BY <1>1 DEF Core, DisplaysTyped, CallsTyped, IdlesTyped, OrderOK, Queued
  <1>5. \A d \in Displays : DisplayOK(d)'
    BY <1>1, <1>2, <1>3 DEF Core, DisplayOK, GreeterOK, UserOK, StatusOK, QueuedOK
  <1>6. \A c : CallOK(c)' <=> CallOK(c)
    BY <1>1, <1>3 DEF CallOK
  <1>7. RestOK'
    BY <1>2, <1>6 DEF Core, RestOK
  <1>8. Busy' => FirstOK'
    <2>1. CallOK(First)' <=> CallOK(First)
      BY <1>1, <1>2 DEF CallOK, Over, Earned, Doomed, InStore
    <2>2. Queued(First.d)' <=> Queued(First.d)
      BY <1>1, <1>2 DEF Queued
    <2> QED BY <1>1, <1>2, <2>1, <2>2 DEF Core, FirstOK
  <1> QED BY <1>4, <1>5, <1>7, <1>8 DEF Core

-----------------------------------------------------------------------------
(* The other variables, and the seats of the displays.                     *)

PlainTyped ==
    /\ numFailures \in 0..(MAX_DISPLAY_FAILURES + 1)
    /\ activeVt \in VTs \union {NoVt} /\ vt \in VTs
    /\ {graphicsTimer, uevents, settled, waitTimer, didAutomatic, setupPending} \subseteq BOOLEAN
    /\ seats \in [Seats -> {"absent", "text", "graphical"}]

AutomaticOK == automatic = NoDisplay \/ InStore(automatic)

\* Every display is on a seat that can have one.
OnLiveSeats ==
    \A d \in Displays : displays[d].status # "free" /\ displays[d].seat # "seat0"
                        => seats[displays[d].seat] = "graphical"

\* No display enters or leaves the store.
SameStore ==
    \A d \in Displays : /\ displays'[d].status = "free" <=> displays[d].status = "free"
                        /\ displays'[d].seat = displays[d].seat

LEMMA NoChangeSameStore == UNCHANGED displays => SameStore
  BY DEF SameStore

LEMMA SessionSameStore ==
    ASSUME Core, NEW d \in Displays, NEW s \in SessionStates,
           displays' = [displays EXCEPT ![d].session = s]
    PROVE  SameStore
  BY SessionSet DEF Core, SameStore

LEMMA RegisteredSameStore ==
    ASSUME Core, NEW d \in Displays, NEW n \in 0..2,
           displays' = [displays EXCEPT ![d].registered = n]
    PROVE  SameStore
  BY RegisteredSet DEF Core, SameStore

LEMMA StatusSameStore ==
    ASSUME Core, NEW d \in Displays, InStore(d), NEW s \in Statuses \ {"free"},
           \/ displays' = [displays EXCEPT ![d].status = s]
           \/ UNCHANGED displays
    PROVE  SameStore
  BY StatusSet DEF Core, SameStore, InStore

LEMMA CallSameStore ==
    ASSUME Core, MakeCall, ~EnsureDisplayForSeat
    PROVE  SameStore
  <1>1. CASE DoSetStatus
    <2>1. /\ First.fn = "set_status" /\ FirstOK /\ Arg = First.arg
          /\ \E d \in Displays : d = First.d /\ d = This /\ InStore(d)
      BY <1>1, CallOf DEF DoSetStatus, OfDisplay, FirstOnly, CallNames
    <2>2. Arg \in Statuses \ {"free"}
      BY <2>1 DEF FirstOK, CallOK, Statuses
    <2> QED BY <1>1, <2>1, <2>2, StatusSameStore DEF DoSetStatus
  <1>2. CASE DoUnmanage
    <2>1. PICK d \in Displays : d = This /\ InStore(d)
      BY <1>2, CallOf DEF DoUnmanage, OfDisplay, FirstOnly, CallNames
    <2>2. \E s \in {"unmanaged", "failed"} : ChangeStatus(d, s)
      BY <1>2, <2>1 DEF DoUnmanage
    <2> QED BY <2>1, <2>2, StatusSameStore DEF ChangeStatus, Statuses
  <1>3. CASE DoFinish
    <2>1. PICK d \in Displays : d = This /\ InStore(d)
      BY <1>3, CallOf DEF DoFinish, OfDisplay, CallNames
    <2> QED BY <1>3, <2>1, StatusSameStore DEF DoFinish, ChangeStatus, Statuses
  <1>4. CASE DoFinishUnlessFailed
    BY <1>4, NoChangeSameStore DEF DoFinishUnlessFailed
  <1>5. CASE DoQueueFinish
    BY <1>5, NoChangeSameStore DEF DoQueueFinish
  <1>6. CASE DoFinishWaiting
    BY <1>6, NoChangeSameStore, SessionSameStore DEF DoFinishWaiting, SessionStates
  <1>7. CASE ManagerHandler
    <2>1. PICK d \in Displays : d = This
      BY <1>7, CallOf DEF ManagerHandler, OfDisplay, FirstOnly, CallNames
    <2> QED BY <1>7, <2>1, NoChangeSameStore, SessionSameStore DEF ManagerHandler, SessionStates
  <1>8. CASE DoSetUpGreeter
    <2>1. PICK d \in Displays : d = This
      BY <1>8, CallOf DEF DoSetUpGreeter, OfDisplay, FirstOnly, CallNames
    <2>2. displays[d].status # "free"
      BY <1>8, <2>1, CallOf DEF DoSetUpGreeter, OfDisplay, FirstOnly, CallNames, InStore
    <2>3. CASE displays' = [displays EXCEPT ![d].session = "nouser", ![d].status = "finished"]
      <3>1. /\ \A e \in Displays \ {d} : displays'[e] = displays[e]
            /\ displays'[d].status = "finished" /\ displays'[d].seat = displays[d].seat
        BY <2>3, SessionAndStatusSet DEF Core, SessionStates, Statuses
      <3> QED BY <2>2, <3>1 DEF SameStore
    <2> QED BY <1>8, <2>1, <2>3, SessionSameStore DEF DoSetUpGreeter, GreeterHasNoUser, SessionStates
  <1>9. CASE FactoryHandler
    BY <1>9, NoChangeSameStore DEF FactoryHandler
  <1> QED BY <1>1, <1>2, <1>3, <1>4, <1>5, <1>6, <1>7, <1>8, <1>9 DEF MakeCall

LEMMA SessionStepSameStore ==
    ASSUME Core, NEW d \in Displays, Session(d), ~StartUserSession(d), ~StartAutomaticSession(d)
    PROVE  SameStore
  <1>1. ASSUME NEW from, NEW to \in SessionStates, Steps(d, from, to) PROVE SameStore
    BY <1>1, SessionSameStore DEF Steps
  <1>2. CASE RegisterDisplay(d) \/ RegisterSession(d)
    <2>1. 1 \in 0..2 /\ 2 \in 0..2
      OBVIOUS
    <2> QED BY <1>2, <2>1, RegisteredSameStore DEF RegisterDisplay, RegisterSession
  <1> QED BY <1>1, <1>2 DEF Session, UserIsLoaded, GreeterProceeds, SessionLost, GreeterEnds,
             UserSessionEnds, SessionStates

\* What else a call changes.
LEMMA CallTypesKept ==
    ASSUME PlainTyped, AutomaticOK, Core, MakeCall
    PROVE  /\ PlainTyped'
           /\ UNCHANGED seats
           /\ automatic' \in {automatic, NoDisplay}
  <1>1. CASE UNCHANGED <<factoryVars, managerVars>>
    BY <1>1 DEF PlainTyped, factoryVars, managerVars
  <1>2. CASE ManagerHandler
    <2>1. /\ automatic' \in {automatic, NoDisplay}
          /\ UNCHANGED factoryVars /\ UNCHANGED setupPending
      BY <1>2 DEF ManagerHandler
    <2>2. didAutomatic' \in BOOLEAN
      BY <1>2 DEF ManagerHandler, PlainTyped
    <2> QED BY <2>1, <2>2 DEF PlainTyped, factoryVars
  <1>3. CASE FactoryHandler
    <2>1. UNCHANGED <<activeVt, vt, graphicsTimer, uevents, settled, waitTimer, seats, managerVars>>
      BY <1>3 DEF FactoryHandler
    <2>2. MAX_DISPLAY_FAILURES \in Nat
      BY LocalDisplaysAssumptions
    <2>3. \/ numFailures' \in {numFailures, 0}
          \/ numFailures <= MAX_DISPLAY_FAILURES /\ numFailures' = numFailures + 1
      BY <1>3, <2>2 DEF FactoryHandler, FactoryFinished, FactoryFailed, PlainTyped
    <2>4. numFailures' \in 0..(MAX_DISPLAY_FAILURES + 1)
      BY <2>2, <2>3 DEF PlainTyped
    <2> QED BY <2>1, <2>4 DEF PlainTyped, managerVars
  <1>4. CASE EnsureDisplayForSeat
    <2>1. UNCHANGED <<numFailures, activeVt, settled, waitTimer, seats, managerVars>>
      BY <1>4 DEF EnsureDisplayForSeat
    <2>2. GDM_INITIAL_VT \in VTs
      BY LocalDisplaysAssumptions DEF GDM_INITIAL_VT, VTs
    <2>3. vt' \in VTs
      BY <1>4, <2>2 DEF EnsureDisplayForSeat, SwitchToLoginWindow, WaitForGraphics, AddLoginScreen, PlainTyped
    <2>4. graphicsTimer' \in BOOLEAN /\ uevents' \in BOOLEAN
      BY <1>4 DEF EnsureDisplayForSeat, SwitchToLoginWindow, WaitForGraphics, AddLoginScreen, PlainTyped
    <2> QED BY <2>1, <2>3, <2>4 DEF PlainTyped, managerVars
  <1> QED BY <1>1, <1>2, <1>3, <1>4 DEF MakeCall, DoSetStatus, DoUnmanage, DoFinish, DoFinishUnlessFailed,
             DoQueueFinish, DoFinishWaiting, DoSetUpGreeter

LEMMA MainLoopTypesKept == ASSUME PlainTyped, MainLoop PROVE PlainTyped' /\ UNCHANGED seats
  <1>1. CASE RunPurge
    BY <1>1 DEF RunPurge, PlainTyped, factoryVars
  <1>2. CASE RunFinish
    BY <1>2 DEF RunFinish, PlainTyped, factoryVars, managerVars
  <1>3. CASE OnSeat0GraphicsCheckTimeout
    BY <1>3 DEF OnSeat0GraphicsCheckTimeout, PlainTyped, managerVars
  <1>4. CASE OnFinishWaitingTimeout
    BY <1>4 DEF OnFinishWaitingTimeout, PlainTyped, managerVars
  <1>5. CASE OnVtChanged
    <2>1. UNCHANGED <<numFailures, vt, uevents, settled, seats, managerVars>> /\ activeVt' = vt
      BY <1>5 DEF OnVtChanged
    <2>2. graphicsTimer' \in BOOLEAN /\ waitTimer' \in BOOLEAN
      BY <1>5 DEF OnVtChanged, VtHandler, PlainTyped
    <2> QED BY <2>1, <2>2 DEF PlainTyped, managerVars
  <1> QED BY <1>1, <1>2, <1>3, <1>4, <1>5 DEF MainLoop

LEMMA EnvironmentTypesKept == ASSUME PlainTyped, Environment PROVE PlainTyped'
  <1>1. CASE OnUevent
    BY <1>1 DEF OnUevent, PlainTyped, managerVars
  <1>2. CASE VtSwitch
    BY <1>2 DEF VtSwitch, PlainTyped, managerVars
  <1>3. CASE CreateTransientDisplay
    BY <1>3 DEF CreateTransientDisplay, PlainTyped, factoryVars, managerVars
  <1>4. ASSUME NEW s \in Seats, OnSeatActivateGreeter(s) PROVE PlainTyped'
    <2>1. seats' \in [Seats -> {"absent", "text", "graphical"}]
      BY <1>4 DEF OnSeatActivateGreeter, PlainTyped
    <2> QED BY <1>4, <2>1 DEF OnSeatActivateGreeter, PlainTyped, managerVars
  <1>5. ASSUME NEW s \in Seats, OnSeatRemoved(s) \/ OnSeatPropertiesChanged(s) PROVE PlainTyped'
    <2>1. seats' \in [Seats -> {"absent", "text", "graphical"}]
      BY <1>5 DEF OnSeatRemoved, OnSeatPropertiesChanged, PlainTyped
    <2> QED BY <1>5, <2>1 DEF OnSeatRemoved, OnSeatPropertiesChanged, PlainTyped
  <1> QED BY <1>1, <1>2, <1>3, <1>4, <1>5 DEF Environment

LEMMA SessionTypesKept ==
    ASSUME PlainTyped, NEW d \in Displays, Session(d)
    PROVE  /\ PlainTyped' /\ UNCHANGED seats
           /\ ~StartAutomaticSession(d) => UNCHANGED automatic
  <1>1. CASE StartUserSession(d)
    <2>1. UNCHANGED <<factoryVars, automatic, didAutomatic>> /\ setupPending' \in BOOLEAN
      BY <1>1 DEF StartUserSession, PlainTyped
    <2> QED BY <2>1 DEF PlainTyped, factoryVars
  <1>2. CASE StartAutomaticSession(d)
    <2>1. UNCHANGED <<factoryVars, didAutomatic>> /\ setupPending' \in BOOLEAN
      BY <1>2 DEF StartAutomaticSession, PlainTyped
    <2> QED BY <1>2, <2>1 DEF PlainTyped, factoryVars
  <1>3. CASE UNCHANGED <<factoryVars, managerVars>>
    BY <1>3 DEF PlainTyped, factoryVars, managerVars
  <1> QED BY <1>1, <1>2, <1>3 DEF Session, UserIsLoaded, GreeterProceeds, SessionLost, RegisterDisplay,
             RegisterSession, GreeterEnds, UserSessionEnds

\* Steps that add no display and take none.
LEMMA SameStoreKeeps ==
    ASSUME Core, PlainTyped, AutomaticOK, OnLiveSeats, SameStore, automatic' \in {automatic, NoDisplay},
           \A s \in Seats : seats[s] = "graphical" => seats'[s] = "graphical"
    PROVE  AutomaticOK' /\ OnLiveSeats'
  <1>1. \A d \in Displays : displays[d].seat \in Seats
    BY RecordTypes DEF Core
  <1>2. AutomaticOK'
    BY DEF AutomaticOK, SameStore, InStore
  <1>3. OnLiveSeats'
    BY <1>1 DEF OnLiveSeats, SameStore
  <1> QED BY <1>2, <1>3

\* A display is added on a seat that can have one.
LEMMA PlaceKeeps ==
    ASSUME Core, AutomaticOK, OnLiveSeats, UNCHANGED <<seats, automatic>>,
           NEW d \in Displays, NEW r \in DisplayRecords, r.status # "free",
           displays[d].status = "free",
           r.seat = "seat0" \/ seats[r.seat] = "graphical",
           displays' = [displays EXCEPT ![d] = r]
    PROVE  AutomaticOK' /\ OnLiveSeats'
  <1>1. displays'[d] = r /\ \A e \in Displays \ {d} : displays'[e] = displays[e]
    BY PlaceSet DEF Core
  <1>2. \A e : InStore(e) => InStore(e)'
    BY <1>1 DEF InStore
  <1>3. AutomaticOK'
    BY <1>2 DEF AutomaticOK, InStore
  <1>4. OnLiveSeats'
    BY <1>1 DEF OnLiveSeats
  <1> QED BY <1>3, <1>4

\* Displays leave the store.
LEMMA DropKeeps ==
    ASSUME AutomaticOK, NEW X \in SUBSET Displays,
           displays' = [d \in Displays |-> IF d \in X THEN Free ELSE displays[d]],
           automatic' = IF automatic \in X THEN NoDisplay ELSE automatic,
           \A d \in Displays \ X : displays[d].status # "free" /\ displays[d].seat # "seat0"
                                   => seats'[displays[d].seat] = "graphical"
    PROVE  AutomaticOK' /\ OnLiveSeats'
  <1>1. \A d \in Displays : displays'[d] = IF d \in X THEN Free ELSE displays[d]
    OBVIOUS
  <1>2. Free.status = "free"
    BY DEF Free
  <1>3. AutomaticOK'
    BY <1>1 DEF AutomaticOK, InStore
  <1>4. OnLiveSeats'
    BY <1>1, <1>2 DEF OnLiveSeats
  <1> QED BY <1>3, <1>4

Inv == Core /\ PlainTyped /\ AutomaticOK /\ OnLiveSeats

\* gdm_display_store_add and gdm_display_store_remove, wherever they are called.
LEMMA StoreKeeps ==
    ASSUME Inv, Next
    PROVE  AutomaticOK' /\ OnLiveSeats'
  <1> USE DEF Inv
  <1>1. CASE MakeCall
    <2>1. UNCHANGED seats /\ automatic' \in {automatic, NoDisplay}
      BY <1>1, CallTypesKept
    <2>2. CASE SameStore
      BY <2>1, <2>2, SameStoreKeeps
    <2>3. CASE EnsureDisplayForSeat /\ ~SameStore
      <3>1. First.fn = "ensure_display_for_seat" /\ FirstOK /\ Arg = First.arg
        BY <2>3, CallOf DEF EnsureDisplayForSeat, CallNames
      <3>2. Arg \in Seats /\ setupPending \in BOOLEAN
        BY <3>1 DEF FirstOK, CallOK, PlainTyped
      <3>3. PICK d \in Displays :
                   /\ FirstFree(d) /\ seats[Arg] = "graphical"
                   /\ displays' = [displays EXCEPT ![d] = LoginScreen(Arg)]
        BY <2>3, NoChangeSameStore
           DEF EnsureDisplayForSeat, SwitchToLoginWindow, WaitForGraphics, AddLoginScreen
      <3>4. PICK r \in DisplayRecords : r = LoginScreen(Arg) /\ r.status # "free" /\ r.seat = Arg
        BY <3>2, NewRecords
      <3>5. displays[d].status = "free" /\ UNCHANGED automatic
        BY <2>3, <3>3 DEF FirstFree, FreePlaces, EnsureDisplayForSeat, managerVars
      <3> QED BY <2>1, <3>3, <3>4, <3>5, PlaceKeeps
    <2> QED BY <1>1, <2>2, <2>3, CallSameStore
  <1>2. CASE MainLoop
    <2>1. UNCHANGED seats
      BY <1>2, MainLoopTypesKept
    <2>2. CASE RunPurge
      <3> DEFINE done == {d \in Displays : displays[d].status \in {"finished", "failed"}}
      <3>1. /\ displays' = [d \in Displays |-> IF d \in done THEN Free ELSE displays[d]]
            /\ automatic' = IF automatic \in done THEN NoDisplay ELSE automatic
        BY <2>2 DEF RunPurge
      <3>2. done \in SUBSET Displays
        OBVIOUS
      <3> HIDE DEF done
      <3>3. \A d \in Displays \ done : displays[d].status # "free" /\ displays[d].seat # "seat0"
                                       => seats'[displays[d].seat] = "graphical"
        BY <2>1 DEF OnLiveSeats
      <3> QED BY <3>1, <3>2, <3>3, DropKeeps
    <2>3. CASE UNCHANGED <<displays, automatic>>
      BY <2>1, <2>3, NoChangeSameStore, SameStoreKeeps
    <2> QED BY <1>2, <2>2, <2>3 DEF MainLoop, RunFinish, OnSeat0GraphicsCheckTimeout, managerVars,
               OnFinishWaitingTimeout, OnVtChanged
  <1>3. CASE Environment
    <2>1. CASE UNCHANGED <<displays, seats, automatic>>
      BY <2>1, NoChangeSameStore, SameStoreKeeps
    <2>2. CASE CreateTransientDisplay
      <3>1. PICK d \in Displays : /\ FirstFree(d) /\ UNCHANGED <<seats, automatic>>
                                  /\ displays' = [displays EXCEPT ![d] = LoginScreen("seat0")]
        BY <2>2 DEF CreateTransientDisplay, factoryVars, managerVars
      <3>2. PICK r \in DisplayRecords : r = LoginScreen("seat0") /\ r.status # "free" /\ r.seat = "seat0"
        BY NewRecords, LocalDisplaysAssumptions DEF PlainTyped
      <3>3. displays[d].status = "free"
        BY <3>1 DEF FirstFree, FreePlaces
      <3> QED BY <3>1, <3>2, <3>3, PlaceKeeps
    <2>3. ASSUME NEW s \in Seats, OnSeatActivateGreeter(s) PROVE AutomaticOK' /\ OnLiveSeats'
      <3>1. UNCHANGED <<displays, automatic>>
        BY <2>3 DEF OnSeatActivateGreeter, managerVars
      <3>2. PICK v \in {"absent", "text", "graphical"} :
                   seats' = [seats EXCEPT ![s] = v] /\ (seats[s] = "absent" \/ v = seats[s])
        BY <2>3 DEF OnSeatActivateGreeter, PlainTyped
      <3>3. \A t \in Seats : seats[t] = "graphical" => seats'[t] = "graphical"
        BY <3>2 DEF PlainTyped
      <3> QED BY <3>1, <3>3, NoChangeSameStore, SameStoreKeeps
    <2>4. ASSUME NEW s \in Seats, NEW v \in {"absent", "text"}, Deleted(s), seats' = [seats EXCEPT ![s] = v]
          PROVE  AutomaticOK' /\ OnLiveSeats'
      <3> DEFINE gone == {d \in Displays : displays[d].seat = s}
      <3>1. /\ displays' = [d \in Displays |-> IF d \in gone THEN Free ELSE displays[d]]
            /\ automatic' = IF automatic \in gone THEN NoDisplay ELSE automatic
        BY <2>4 DEF Deleted
      <3>2. gone \in SUBSET Displays /\ \A d \in Displays \ gone : displays[d].seat # s
        OBVIOUS
      <3> HIDE DEF gone
      <3>3. \A d \in Displays : displays[d].seat \in Seats
        BY RecordTypes DEF Core
      <3>4. \A d \in Displays \ gone : displays[d].status # "free" /\ displays[d].seat # "seat0"
                                       => seats'[displays[d].seat] = "graphical"
        BY <2>4, <3>2, <3>3 DEF OnLiveSeats, PlainTyped
      <3> QED BY <3>1, <3>2, <3>4, DropKeeps
    <2>5. ASSUME NEW s \in Seats, OnSeatRemoved(s) \/ OnSeatPropertiesChanged(s)
          PROVE  AutomaticOK' /\ OnLiveSeats'
      <3>1. CASE \E v \in {"absent", "text"} : Deleted(s) /\ seats' = [seats EXCEPT ![s] = v]
        BY <2>4, <3>1
      <3>2. CASE /\ seats[s] = "text" /\ seats' = [seats EXCEPT ![s] = "graphical"]
                 /\ UNCHANGED <<displays, automatic>>
        <4>1. \A t \in Seats : seats[t] = "graphical" => seats'[t] = "graphical"
          BY <3>2 DEF PlainTyped
        <4> QED BY <3>2, <4>1, NoChangeSameStore, SameStoreKeeps
      <3> QED BY <2>5, <3>1, <3>2 DEF OnSeatRemoved, OnSeatPropertiesChanged
    <2> QED BY <1>3, <2>1, <2>2, <2>3, <2>5 DEF Environment, OnUevent, VtSwitch, managerVars
  <1>4. ASSUME NEW d \in Displays, Session(d) PROVE AutomaticOK' /\ OnLiveSeats'
    <2>1. UNCHANGED seats /\ (~StartAutomaticSession(d) => UNCHANGED automatic)
      BY <1>4, SessionTypesKept
    <2>2. CASE SameStore /\ ~StartAutomaticSession(d)
      BY <2>1, <2>2, SameStoreKeeps
    <2>3. CASE StartUserSession(d) /\ ~StartAutomaticSession(d)
      <3>1. PICK u \in Displays, v \in {NoVt} \union VTs :
                   FirstFree(u) /\ displays' = [displays EXCEPT ![u] = UserDisplay(displays[d].seat, v)]
        BY <2>3 DEF StartUserSession
      <3>2. displays[d].seat \in Seats /\ displays[d].status # "free"
        BY <2>3, RecordTypes DEF StartUserSession, Core
      <3>3. PICK r \in DisplayRecords : /\ r = UserDisplay(displays[d].seat, v)
                                        /\ r.status # "free" /\ r.seat = displays[d].seat
        BY <3>2, NewRecords DEF PlainTyped
      <3>4. displays[u].status = "free" /\ (r.seat = "seat0" \/ seats[r.seat] = "graphical")
        BY <3>1, <3>2, <3>3 DEF FirstFree, FreePlaces, OnLiveSeats
      <3> QED BY <2>1, <2>3, <3>1, <3>3, <3>4, PlaceKeeps
    <2>4. CASE StartAutomaticSession(d)
      <3>1. PICK u \in Displays, v \in VTs :
                   /\ FirstFree(u) /\ automatic' = u
                   /\ displays' = [displays EXCEPT ![u] = UserDisplay("seat0", v), ![d] = Free]
        BY <2>4 DEF StartAutomaticSession
      <3>2. ~Busy /\ displays[d].session = "automatic"
        BY <2>4 DEF StartAutomaticSession, Dispatch, Busy
      <3>3. displays[d].status = "prepared" /\ u # d
        BY <3>1, <3>2, EarlySession DEF FirstFree, FreePlaces
      <3>4. PICK r \in DisplayRecords : r = UserDisplay("seat0", v) /\ r.status # "free" /\ r.seat = "seat0"
        BY NewRecords, LocalDisplaysAssumptions DEF PlainTyped
      <3>5. PICK f \in DisplayRecords : f = Free /\ f.status = "free"
        BY NewRecords, LocalDisplaysAssumptions DEF PlainTyped
      <3>6. /\ \A e \in Displays \ {u, d} : displays'[e] = displays[e]
            /\ displays'[u] = r /\ displays'[d] = f
        BY <3>1, <3>3, <3>4, <3>5 DEF Core, DisplaysTyped
      <3>7. AutomaticOK'
        BY <3>1, <3>4, <3>6 DEF AutomaticOK, InStore
      <3>8. OnLiveSeats'
        BY <2>1, <3>4, <3>5, <3>6 DEF OnLiveSeats
      <3> QED BY <3>7, <3>8
    <2> QED BY <1>4, <2>2, <2>3, <2>4, SessionStepSameStore
  <1> QED BY <1>1, <1>2, <1>3, <1>4 DEF Next

\* Every step preserves the invariant.
LEMMA InvInductive == Inv /\ [Next]_vars => Inv'
  <1> SUFFICES ASSUME Inv, [Next]_vars PROVE Inv'
    OBVIOUS
  <1>1. setupPending \in BOOLEAN /\ Core /\ PlainTyped /\ AutomaticOK /\ OnLiveSeats
    BY DEF Inv, PlainTyped
  <1>2. CASE Next
    <2>1. Core'
      BY <1>1, <1>2, MakeCallKeeps, MainLoopKeeps, EnvironmentKeeps, SessionKeeps DEF Next
    <2>2. PlainTyped'
      BY <1>1, <1>2, CallTypesKept, MainLoopTypesKept, EnvironmentTypesKept, SessionTypesKept DEF Next
    <2>3. AutomaticOK' /\ OnLiveSeats'
      BY <1>2, StoreKeeps
    <2> QED BY <2>1, <2>2, <2>3 DEF Inv
  <1>3. CASE UNCHANGED vars
    <2>1. Core'
      BY <1>1, <1>3, CoreUnchanged
    <2>2. PlainTyped' /\ AutomaticOK' /\ OnLiveSeats'
      BY <1>1, <1>3 DEF vars, factoryVars, managerVars, PlainTyped, AutomaticOK, OnLiveSeats, InStore
    <2> QED BY <2>1, <2>2 DEF Inv
  <1> QED BY <1>2, <1>3

-----------------------------------------------------------------------------
(* The initial states.                                                     *)

\* The calls gdm_manager_start leaves to be made are for seats.
LEMMA SetToSeqTyped ==
    ASSUME NEW S, IsFiniteSet(S)
    PROVE  SetToSeq(S) \in [1..Cardinality(S) -> S] /\ Cardinality(S) \in Nat
  <1>1. Cardinality(S) \in Nat /\ ExistsBijection(1..Cardinality(S), S)
    BY FS_CardinalityType
  <1>2. \E f \in [1..Cardinality(S) -> S] : IsInjective(f)
    BY <1>1 DEF ExistsBijection, Bijection, Injection
  <1> QED BY <1>1, <1>2 DEF SetToSeq

LEMMA InvInitially == Init => Inv
  <1> SUFFICES ASSUME Init PROVE Inv
    OBVIOUS
  <1>1. /\ displays = [d \in Displays |-> Free] /\ idles = {} /\ automatic = NoDisplay
        /\ setupPending \in BOOLEAN
    BY LocalDisplaysAssumptions DEF Init
  <1>2. PICK S : S = {Ensure(s) : s \in {t \in Seats : seats[t] # "absent"}} /\ calls = SetToSeq(S)
    BY DEF Init
  <1>3. IsFiniteSet(S)
    <2> DEFINE T == {t \in Seats : seats[t] # "absent"}
               f == [s \in T |-> Ensure(s)]
    <2>1. IsFiniteSet(T)
      BY LocalDisplaysAssumptions, FS_Subset
    <2>2. f \in Surjection(T, S)
      BY <1>2 DEF Surjection
    <2> HIDE DEF T, f
    <2> QED BY <2>1, <2>2, FS_Surjection DEF ExistsSurjection
  <1>4. PICK n \in Nat : n = Cardinality(S) /\ calls \in [1..n -> S]
    BY <1>2, <1>3, SetToSeqTyped
  <1>5. S \subseteq {Ensure(s) : s \in Seats}
    BY <1>2
  <1>6. \A c \in S : c \in CallRecords /\ CallOK(c) /\ c.fn \notin FirstOnly
    <2> SUFFICES ASSUME NEW s \in Seats, NEW c, c = Ensure(s)
                 PROVE  c \in CallRecords /\ CallOK(c) /\ c.fn \notin FirstOnly
      BY <1>5
    <2>1. /\ c \in CallRecords /\ c.fn = "ensure_display_for_seat"
          /\ c.d = NoDisplay /\ c.arg = s
      BY CallTypes, CallFields
    <2> QED BY <2>1 DEF CallOK, OfDisplay, FirstOnly
  <1>7. calls \in Seq(S) /\ Len(calls) = n
    BY <1>4
  <1>8. CallsTyped /\ \A c \in Rest : c \in S
    BY <1>6, <1>7 DEF CallsTyped, Rest
  <1>9. Busy => First \in S
    BY <1>7 DEF Busy, First
  <1>10. RestOK
    BY <1>6, <1>8 DEF RestOK
  <1>11. Busy => FirstOK
    <2> SUFFICES ASSUME Busy PROVE FirstOK
      OBVIOUS
    <2>1. CallOK(First) /\ First.fn \notin FirstOnly
      BY <1>6, <1>9
    <2> QED BY <2>1 DEF FirstOK, FirstOnly
  <1>12. /\ Free \in DisplayRecords /\ Free.status = "free" /\ Free.session = "none"
         /\ Free.class = "greeter" /\ Free.registered = 0
    BY <1>1, NewRecords, LocalDisplaysAssumptions
  <1>13. DisplaysTyped /\ IdlesTyped /\ OrderOK /\ \A d : ~Queued(d)
    BY <1>1, <1>12 DEF DisplaysTyped, IdlesTyped, OrderOK, Queued
  <1>14. \A d \in Displays : displays[d] = Free
    BY <1>1
  <1>15. ASSUME NEW d \in Displays PROVE DisplayOK(d)
    BY <1>12, <1>13, <1>14 DEF DisplayOK, GreeterOK, UserOK, StatusOK, QueuedOK
  <1>16. Core
    BY <1>8, <1>10, <1>11, <1>13, <1>15 DEF Core
  <1>17. PlainTyped
    <2>1. 1 \in VTs /\ 0 \in 0..(MAX_DISPLAY_FAILURES + 1)
      BY LocalDisplaysAssumptions DEF VTs
    <2> QED BY <1>1, <2>1 DEF Init, PlainTyped, GDM_INITIAL_VT
  <1>18. AutomaticOK /\ OnLiveSeats
    BY <1>1, <1>12, <1>14 DEF AutomaticOK, OnLiveSeats
  <1> QED BY <1>16, <1>17, <1>18 DEF Inv

\* The invariant, of every behaviour.
LEMMA InvHolds == Spec => []Inv
  BY InvInitially, InvInductive, PTL DEF Spec

-----------------------------------------------------------------------------
(* What follows.                                                           *)

\* The type invariant is a part of it.
LEMMA InvTyped == Inv => TypeOK
  <1> SUFFICES ASSUME Inv PROVE TypeOK
    OBVIOUS
  <1>1. Core /\ PlainTyped /\ AutomaticOK
    BY DEF Inv
  <1>2. /\ displays \in [Displays -> DisplayRecords] /\ calls \in Seq(CallRecords)
        /\ idles \subseteq IdleSources \X IdleSources
    BY <1>1 DEF Core, DisplaysTyped, CallsTyped, IdlesTyped
  <1>3. \A c \in Rest : c.d = NoDisplay \/ InStore(c.d)
    BY <1>1 DEF Core, RestOK, CallOK
  <1>4. Busy => First.d = NoDisplay \/ InStore(First.d)
    BY <1>1 DEF Core, FirstOK, CallOK
  <1>5. \A i \in 1..Len(calls) : calls[i].d = NoDisplay \/ InStore(calls[i].d)
    <2>1. {calls[i] : i \in 1..Len(calls)} = IF Busy THEN {First} \union Rest ELSE {}
      BY <1>1, RestTyped DEF Core
    <2> SUFFICES ASSUME NEW i \in 1..Len(calls), NEW c, c = calls[i] PROVE c.d = NoDisplay \/ InStore(c.d)
      OBVIOUS
    <2>2. Busy /\ (c = First \/ c \in Rest)
      BY <2>1
    <2> QED BY <1>3, <1>4, <2>2
  <1>6. \A d \in Displays : Queued(d) => InStore(d)
    BY <1>1 DEF Core, DisplayOK, QueuedOK, InStore
  <1> QED BY <1>1, <1>2, <1>5, <1>6 DEF TypeOK, PlainTyped, AutomaticOK

\* The displays, the calls and the order of the idle sources keep their types; no call and no
\* idle source is left for a display that was disposed, however many displays there are.
THEOREM LocalTypeCorrect == Spec => []TypeOK
  BY InvHolds, InvTyped, PTL

\* delete_display takes every display of a seat that goes away, and nothing adds one again,
\* whatever was queued for it: with any number of seats and displays.
THEOREM DeadSeatsAreCleared == Spec => []NoDisplayOnDeadSeat
  <1>1. Inv => NoDisplayOnDeadSeat
    BY DEF Inv, OnLiveSeats, NoDisplayOnDeadSeat
  <1> QED BY <1>1, InvHolds, PTL

-----------------------------------------------------------------------------
(* What a step may never do.                                               *)

\* The main loop does not go on while a call is to be made.
LEMMA BusyMakesCall == ASSUME Next, Busy PROVE MakeCall
  <1>1. ~MainLoop
    BY DEF MainLoop, Busy, Dispatch, RunPurge, RunFinish, OnSeat0GraphicsCheckTimeout,
           OnFinishWaitingTimeout, OnVtChanged
  <1>2. ~Environment
    BY DEF Environment, Busy, Dispatch, OnUevent, VtSwitch, CreateTransientDisplay,
           OnSeatActivateGreeter, OnSeatRemoved, OnSeatPropertiesChanged
  <1>3. ASSUME NEW d \in Displays, Session(d) PROVE FALSE
    BY <1>3 DEF Session, Busy, Dispatch, UserIsLoaded, GreeterProceeds, SessionLost, RegisterDisplay,
           RegisterSession, GreeterEnds, StartUserSession, StartAutomaticSession, UserSessionEnds
  <1> QED BY <1>1, <1>2, <1>3 DEF Next

\* What is called is what is made.
LEMMA EnsureIsMade == ASSUME Next, Calling("ensure_display_for_seat") PROVE EnsureDisplayForSeat
  <1>1. MakeCall /\ Head(calls).fn = "ensure_display_for_seat"
    BY BusyMakesCall DEF Busy, Calling
  <1> QED BY <1>1 DEF MakeCall, Calling, DoSetStatus, DoUnmanage, DoFinish, DoFinishUnlessFailed,
             DoQueueFinish, DoFinishWaiting, ManagerHandler, DoSetUpGreeter, FactoryHandler

\* A login window that is not shown is being prepared.
LEMMA WindowIsPrepared ==
    ASSUME Core, NEW w \in LoginWindows("seat0"), displays[w].status \notin {"managed", "waiting"}
    PROVE  w \in DisplayForSeat("seat0")
  <1>1. /\ w \in Displays /\ displays[w].class = "greeter" /\ displays[w].seat = "seat0"
        /\ displays[w].session \in {"open", "running"}
    BY DEF LoginWindows
  <1>2. GreeterOK(w)
    BY <1>1 DEF Core, DisplayOK
  <1> QED BY <1>1, <1>2 DEF GreeterOK, DisplayForSeat

\* What ensure_display_for_seat finds when there is a login screen.
LEMMA ScreenIsFound ==
    ASSUME Core, Busy => First.fn # "unmanage", NEW e \in Displays, IsLoginScreen(e)
    PROVE  LoginWindows("seat0") # {} \/ DisplayForSeat("seat0") # {}
  <1>1. /\ displays[e].status \in {"prepared", "managed", "waiting"}
        /\ displays[e].class = "greeter" /\ displays[e].seat = "seat0"
    BY DEF IsLoginScreen, Seat0Greeters
  <1>2. CASE displays[e].status = "prepared"
    BY <1>1, <1>2 DEF DisplayForSeat
  <1>3. CASE displays[e].status \in {"managed", "waiting"}
    <2>1. displays[e].session = "running"
      BY <1>1, <1>3, ShownIsRunning
    <2> QED BY <1>1, <1>3, <2>1 DEF LoginWindows
  <1> QED BY <1>1, <1>2, <1>3

\* A login screen is added when neither logind nor the store has one.
LEMMA AddsWhenNone ==
    ASSUME Inv, Next, Calling("ensure_display_for_seat"), Arg = "seat0",
           NEW d \in FreePlaces, displays'[d].status # "free"
    PROVE  ~\E e \in Displays : IsLoginScreen(e)
  <1>1. Core /\ EnsureDisplayForSeat
    BY EnsureIsMade DEF Inv
  <1>2. Busy /\ First.fn = "ensure_display_for_seat"
    BY DEF Calling, Busy, First
  <1>3. displays' # displays
    BY DEF FreePlaces
  <1>4. AddLoginScreen("seat0") /\ DisplayForSeat("seat0") = {}
        /\ \/ LoginWindows("seat0") = {}
           \/ \E w \in LoginWindows("seat0") : displays[w].status \notin {"managed", "waiting"}
    BY <1>1, <1>3 DEF EnsureDisplayForSeat, SwitchToLoginWindow, WaitForGraphics, AddLoginScreen
  <1>5. LoginWindows("seat0") = {}
    BY <1>1, <1>4, WindowIsPrepared
  <1> QED BY <1>1, <1>2, <1>4, <1>5, ScreenIsFound

\* ensure_display_for_seat never adds a login screen to seat0 while there is one, although it
\* looks for them in two places: what logind does not list, or lists as not shown, the store
\* has as prepared.
THEOREM NoSecondLoginScreen == Spec => AddsOnlyIfNone
  <1>1. ASSUME Inv, [Next]_vars
        PROVE  [Calling("ensure_display_for_seat") /\ Arg = "seat0"
                => \A d \in FreePlaces : displays'[d].status # "free" => ~\E e \in Displays : IsLoginScreen(e)]_vars
    BY <1>1, AddsWhenNone
  <1> QED BY <1>1, InvHolds, PTL DEF Spec, AddsOnlyIfNone

\* Only FactoryFinished sets num_failures back, for a display that was managed or whose
\* greeter got no user.
LEMMA ResetIsEarned ==
    ASSUME Inv, Next, numFailures' < numFailures
    PROVE  displays[This].registered > 0 \/ displays[This].session = "nouser"
  <1>1. Core /\ numFailures \in Nat
    BY LocalDisplaysAssumptions DEF Inv, PlainTyped
  <1>2. ~UNCHANGED numFailures
    BY <1>1
  <1>3. FactoryHandler
    BY <1>2 DEF Next, MakeCall, DoSetStatus, DoUnmanage, DoFinish, DoFinishUnlessFailed, DoQueueFinish,
           DoFinishWaiting, ManagerHandler, DoSetUpGreeter, EnsureDisplayForSeat, factoryVars,
           MainLoop, RunPurge, RunFinish, OnSeat0GraphicsCheckTimeout, OnFinishWaitingTimeout,
           OnVtChanged, Environment, OnUevent, VtSwitch, CreateTransientDisplay,
           OnSeatActivateGreeter, OnSeatRemoved, OnSeatPropertiesChanged,
           Session, UserIsLoaded, GreeterProceeds, SessionLost, RegisterDisplay,
           RegisterSession, GreeterEnds, StartUserSession, StartAutomaticSession, UserSessionEnds
  <1>4. PICK d \in Displays : d = This
    BY <1>1, <1>3, CallOf DEF FactoryHandler, OfDisplay, CallNames
  <1>5. displays[d].status = "finished"
    BY <1>1, <1>3, <1>4 DEF FactoryHandler, FactoryFinished, FactoryFailed
  <1>6. Earned(d)
    BY <1>1, <1>5 DEF Core, DisplayOK, StatusOK
  <1> QED BY <1>4, <1>6 DEF Earned

\* Whatever handlers run inside one another, num_failures starts anew only for a display that
\* was managed once, or whose greeter got no user (set_up_greeter_session finishes it in the
\* call that fails it): no other failure is taken back.
THEOREM FailuresAreCounted == Spec => OnlySuccessOrNoUserResets
  <1>1. ASSUME Inv, [Next]_vars
        PROVE  [numFailures' < numFailures
                => displays[This].registered > 0 \/ displays[This].session = "nouser"]_vars
    BY <1>1, ResetIsEarned
  <1> QED BY <1>1, InvHolds, PTL DEF Spec, OnlySuccessOrNoUserResets

-----------------------------------------------------------------------------
(* The login screen of the initial VT.                                     *)

\* A login screen is about to wait for its end.
Waits == Busy /\ First.fn = "set_status" /\ First.arg = "waiting"

Waiting(d) == displays[d].status = "waiting" /\ ~displays[d].setup
WaitingScreen == \E d \in Displays : Waiting(d)

\* A greeter that has come to run, or was lost, without being managed yet.
Protects(d) ==
    /\ displays[d].class = "greeter" /\ displays[d].status = "prepared"
    /\ displays[d].session \in {"open", "running", "lost"}
Protected == \E d \in Displays : Protects(d)

\* The calls that will manage a login screen again, finish those that wait, or fail.
Remedies(c) ==
    \/ c \in {FinishWaiting, Ensure("seat0")}
    \/ c.fn = "set_status" /\ c.arg = "managed"
    \/ c.fn \in {"manager", "factory"} /\ displays[c.d].status \in {"managed", "failed"}
    \/ c.fn = "unmanage" /\ displays[c.d].status # "failed" /\ displays[c.d].registered # 2
Left == FinishWaiting \in Rest \/ Ensure("seat0") \in Rest
Remedy == Busy /\ (Left \/ Remedies(First))

InFront == activeVt = GDM_INITIAL_VT /\ numFailures <= MAX_DISPLAY_FAILURES

Kept ==
    /\ Waits => displays[First.d].setup \/ activeVt # GDM_INITIAL_VT
    /\ activeVt = NoVt => ~Waits /\ \A d \in Displays : displays[d].status # "waiting"
    /\ InFront /\ WaitingScreen => Protected \/ Remedy

\* A step after which no other display waits.
NoneWaits ==
    \A d \in Displays : displays'[d].status = "waiting"
                        => displays[d].status = "waiting" /\ displays'[d].setup = displays[d].setup

\* What a step must leave, if no other display waits after it.
LEMMA KeptStep ==
    ASSUME Kept, UNCHANGED activeVt, ~Waits', NoneWaits,
           numFailures' <= MAX_DISPLAY_FAILURES => numFailures <= MAX_DISPLAY_FAILURES \/ Remedy',
           WaitingScreen /\ InFront' /\ (Protected \/ Remedy)
           => Protected' \/ Remedy' \/ ~WaitingScreen'
    PROVE  Kept'
  <1>1. WaitingScreen' => WaitingScreen
    BY DEF WaitingScreen, Waiting, NoneWaits
  <1>2. InFront' => InFront \/ Remedy'
    BY DEF InFront
  <1>3. InFront' /\ WaitingScreen' => Protected' \/ Remedy'
    BY <1>1, <1>2 DEF Kept
  <1> QED BY <1>3 DEF Kept, NoneWaits

\* The rest of the stack stays.
LEMMA PopLeaves ==
    ASSUME Core, Busy, Return(<<>>)
    PROVE  ~Waits' /\ (Left => Remedy')
  <1>1. Busy' => First' \in Rest
    BY Pops DEF Core
  <1>2. ~Waits'
    <2> SUFFICES ASSUME Busy' PROVE First'.fn # "set_status"
      BY DEF Waits
    <2> QED BY <1>1 DEF Core, RestOK, FirstOnly
  <1>3. Busy' => Rest \subseteq {First'} \union Rest'
    <2> SUFFICES ASSUME Busy', NEW i \in 2..Len(calls) PROVE calls[i] \in {First'} \union Rest'
      BY DEF Rest
    <2>1. calls' = Tail(calls) /\ calls \in Seq(CallRecords)
      BY DEF Return, Core, CallsTyped
    <2>2. /\ calls' \in Seq(CallRecords) /\ Len(calls) \in Nat
          /\ Len(calls') = Len(calls) - 1 /\ calls'[i - 1] = calls[i]
      BY <2>1 DEF Busy
    <2>3. CASE i = 2
      BY <2>2, <2>3 DEF Busy, First
    <2>4. CASE i > 2
      <3>1. i - 1 \in 2..Len(calls')
        BY <2>2, <2>4
      <3>2. calls'[i - 1] \in Rest'
        BY <3>1 DEF Rest
      <3> QED BY <2>2, <3>2
    <2> QED BY <2>3, <2>4
  <1>4. Left => Busy' /\ (Left' \/ Remedies(First)')
    <2>1. ASSUME NEW c \in {FinishWaiting, Ensure("seat0")}, c \in Rest
          PROVE  Busy' /\ (Left' \/ Remedies(First)')
      <3>1. Busy' /\ (c = First' \/ c \in Rest')
        BY <1>1, <1>3, <2>1, Pops DEF Core
      <3> QED BY <2>1, <3>1 DEF Left, Remedies
    <2> QED BY <2>1 DEF Left
  <1> QED BY <1>2, <1>4 DEF Remedy

LEMMA PushLeaves ==
    ASSUME Busy', Rest \subseteq Rest'
    PROVE  Left => Remedy'
  BY DEF Left, Remedy

\* One display changes, and is not made to wait; if it was a protector it still is.
LEMMA OneChanges ==
    ASSUME NEW d \in Displays, \A e \in Displays \ {d} : displays'[e] = displays[e],
           displays'[d].status = "waiting"
           => displays[d].status = "waiting" /\ displays'[d].setup = displays[d].setup
    PROVE  /\ NoneWaits
           /\ Protected => Protected' \/ (Protects(d) /\ ~Protects(d)')
  <1>1. NoneWaits
    BY DEF NoneWaits
  <1>2. ASSUME NEW e \in Displays, Protects(e) PROVE Protected' \/ (Protects(d) /\ ~Protects(d)')
    <2>1. e # d => Protects(e)'
      BY <1>2 DEF Protects
    <2> QED BY <1>2, <2>1 DEF Protected
  <1> QED BY <1>1, <1>2 DEF Protected

\* No display changes.
LEMMA NoneChanges ==
    ASSUME UNCHANGED displays
    PROVE  /\ NoneWaits /\ (Protected => Protected') /\ (WaitingScreen' <=> WaitingScreen)
           /\ \A c : c.fn \in {"manager", "factory", "unmanage"} => (Remedies(c) => Remedies(c)')
  BY DEF NoneWaits, Protected, Protects, WaitingScreen, Waiting, Remedies

\* A display is managed, or made to wait when its VT is left or its initial setup is over.
LEMMA SetStatusKept == ASSUME Core, Kept, DoSetStatus PROVE Kept'
  <1>1. Busy /\ First.fn = "set_status" /\ FirstOK /\ Arg = First.arg
    BY CallOf DEF DoSetStatus, CallNames
  <1>2. PICK d \in Displays : d = First.d /\ d = This /\ InStore(d)
    BY CallOf DEF DoSetStatus, OfDisplay, FirstOnly, CallNames
  <1>3. PICK s \in {"prepared", "managed", "waiting"} : s = First.arg
    BY <1>1 DEF FirstOK, CallOK
  <1>4. /\ displays' = [displays EXCEPT ![d].status = s]
        /\ Continues(<<ToManager(d), ToFactory(d)>>) /\ UNCHANGED <<activeVt, numFailures>>
    BY <1>1, <1>2, <1>3 DEF DoSetStatus, factoryVars, Continues
  <1>5. /\ \A e \in Displays \ {d} : displays'[e] = displays[e]
        /\ displays'[d].status = s /\ displays'[d].setup = displays[d].setup
    BY <1>4, StatusSet DEF Core, Statuses
  <1>6. ToManager(d) \in CallRecords /\ ToFactory(d) \in CallRecords
    BY CallTypes
  <1>7. Busy' /\ First' = ToManager(d) /\ Rest' = {ToFactory(d)} \union Rest
    BY <1>4, <1>6, PushesTwo DEF Core
  <1>8. ~Waits' /\ (Left => Remedy')
    BY <1>7, PushLeaves, CallFields DEF Waits
  <1>9. s = "managed" => Remedy'
    BY <1>5, <1>7, CallFields DEF Remedy, Remedies
  <1>10. s # "managed" => (Protected => Protected') /\ (Remedy => Left)
    <2>1. s # "managed" => ~Protects(d)
      BY <1>1, <1>2, <1>3 DEF FirstOK, Protects
    <2>2. Protected => Protected' \/ Protects(d)
      BY <1>5 DEF Protected, Protects
    <2>3. s # "managed" => ~Remedies(First)
      BY <1>1, <1>3, CallFields DEF Remedies
    <2> QED BY <2>1, <2>2, <2>3 DEF Remedy
  <1>11. CASE s # "waiting"
    <2>1. NoneWaits
      BY <1>5, <1>11 DEF NoneWaits
    <2> QED BY <1>4, <1>8, <1>9, <1>10, <2>1, KeptStep
  <1>12. CASE s = "waiting"
    <2>1. Waits /\ activeVt # NoVt /\ (displays[d].setup \/ activeVt # GDM_INITIAL_VT)
      BY <1>1, <1>2, <1>3, <1>12 DEF Waits, Kept
    <2>2. displays[d].setup => (WaitingScreen' => WaitingScreen)
      BY <1>5 DEF WaitingScreen, Waiting
    <2>3. InFront' => InFront /\ displays[d].setup
      BY <1>4, <2>1 DEF InFront
    <2>4. InFront' /\ WaitingScreen' => Protected' \/ Remedy'
      BY <1>8, <1>9, <1>10, <1>12, <2>2, <2>3 DEF Kept
    <2> QED BY <1>4, <1>8, <2>1, <2>4 DEF Kept
  <1> QED BY <1>11, <1>12

\* unmanage and finish of a display whose session is over.
LEMMA ChangeStatusKept ==
    ASSUME Core, Kept, UNCHANGED <<activeVt, numFailures>>, NEW d \in Displays,
           NEW s \in {"unmanaged", "failed", "finished"}, Busy, ChangeStatus(d, s),
           displays[d].session \in {"exiting", "none", "nouser"},
           Remedies(First) => s = "failed" /\ displays[d].status # "failed"
    PROVE  Kept'
  <1>1. ~Protects(d)
    BY DEF Protects
  <1>2. CASE displays[d].status = s
    <2>1. Return(<<>>) /\ UNCHANGED displays /\ ~Remedies(First)
      BY <1>2 DEF ChangeStatus
    <2> QED BY <2>1, PopLeaves, NoneChanges, KeptStep DEF Remedy
  <1>3. CASE displays[d].status # s
    <2>1. /\ displays' = [displays EXCEPT ![d].status = s]
          /\ Continues(<<ToManager(d), ToFactory(d)>>)
      BY <1>3 DEF ChangeStatus, Continues
    <2>2. (\A e \in Displays \ {d} : displays'[e] = displays[e]) /\ displays'[d].status = s
      BY <2>1, StatusSet DEF Core, Statuses
    <2>3. ToManager(d) \in CallRecords /\ ToFactory(d) \in CallRecords
      BY CallTypes
    <2>4. Busy' /\ First' = ToManager(d) /\ Rest' = {ToFactory(d)} \union Rest
      BY <2>1, <2>3, PushesTwo DEF Core
    <2>5. ~Waits' /\ (Left => Remedy')
      BY <2>4, PushLeaves, CallFields DEF Waits
    <2>6. s = "failed" => Remedy'
      BY <2>2, <2>4, CallFields DEF Remedy, Remedies
    <2>7. NoneWaits /\ (Protected => Protected')
      BY <1>1, <2>2, OneChanges
    <2> QED BY <2>5, <2>6, <2>7, KeptStep DEF Remedy
  <1> QED BY <1>2, <1>3

LEMMA UnmanageKept == ASSUME Core, Kept, DoUnmanage PROVE Kept'
  <1>1. Busy /\ First.fn = "unmanage" /\ FirstOK
    BY CallOf DEF DoUnmanage, CallNames
  <1>2. PICK d \in Displays : d = First.d /\ d = This /\ InStore(d)
    BY CallOf DEF DoUnmanage, OfDisplay, FirstOnly, CallNames
  <1>3. PICK s \in {"unmanaged", "failed"} :
               ChangeStatus(d, s) /\ s = IF displays[d].registered = 2 THEN "unmanaged" ELSE "failed"
    BY <1>2 DEF DoUnmanage
  <1>4. displays[d].session \in {"exiting", "none", "nouser"}
    BY <1>1, <1>2 DEF FirstOK
  <1>5. Remedies(First) => s = "failed" /\ displays[d].status # "failed"
    BY <1>1, <1>2, <1>3, CallFields DEF Remedies
  <1>6. UNCHANGED <<activeVt, numFailures>>
    BY DEF DoUnmanage, factoryVars
  <1> QED BY <1>1, <1>3, <1>4, <1>5, <1>6, ChangeStatusKept

LEMMA FinishKept == ASSUME Core, Kept, DoFinish PROVE Kept'
  <1>1. Busy /\ First.fn = "finish" /\ FirstOK
    BY CallOf DEF DoFinish, CallNames
  <1>2. PICK d \in Displays : d = First.d /\ d = This /\ InStore(d)
    BY CallOf DEF DoFinish, OfDisplay, CallNames
  <1>3. ChangeStatus(d, "finished") /\ UNCHANGED <<activeVt, numFailures>>
    BY <1>2 DEF DoFinish, factoryVars
  <1>4. displays[d].session \in {"exiting", "none", "nouser"}
    BY <1>1, <1>2 DEF FirstOK, CallOK, Over
  <1>5. ~Remedies(First)
    BY <1>1, CallFields DEF Remedies
  <1> QED BY <1>1, <1>3, <1>4, <1>5, ChangeStatusKept

\* Calls that change no display and are no remedy.
LEMMA FinishUnlessFailedKept == ASSUME Core, Kept, DoFinishUnlessFailed PROVE Kept'
  <1>1. Busy /\ First.fn = "finish_unless_failed" /\ FirstOK
    BY CallOf DEF DoFinishUnlessFailed, CallNames
  <1>2. PICK d \in Displays : d = First.d /\ d = This /\ InStore(d)
    BY CallOf DEF DoFinishUnlessFailed, OfDisplay, CallNames
  <1>3. UNCHANGED <<displays, activeVt, numFailures>> /\ ~Remedies(First)
    <2>1. ~Remedies(First)
      BY <1>1, CallFields DEF Remedies
    <2> QED BY <2>1 DEF DoFinishUnlessFailed, factoryVars
  <1>4. Return(<<>>) \/ Return(<<Finish(d)>>)
    BY <1>2 DEF DoFinishUnlessFailed
  <1>5. ~Waits' /\ (Left => Remedy')
    <2>1. CASE Return(<<>>)
      BY <1>1, <2>1, PopLeaves
    <2>2. CASE Return(<<Finish(d)>>)
      <3>1. Finish(d) \in CallRecords /\ Continues(<<Finish(d)>>)
        BY <1>1, <2>2, CallTypes DEF Continues
      <3>2. Busy' /\ First' = Finish(d) /\ Rest' = Rest
        BY <3>1, PushesOne DEF Core
      <3> QED BY <3>2, PushLeaves, CallFields DEF Waits
    <2> QED BY <1>4, <2>1, <2>2
  <1> QED BY <1>3, <1>5, NoneChanges, KeptStep DEF Remedy

LEMMA QueueFinishKept == ASSUME Core, Kept, DoQueueFinish PROVE Kept'
  <1>1. Busy /\ First.fn = "queue_finish"
    BY CallOf DEF DoQueueFinish, CallNames
  <1>2. UNCHANGED <<displays, activeVt, numFailures>> /\ ~Remedies(First) /\ Return(<<>>)
    BY <1>1, CallFields DEF DoQueueFinish, factoryVars, Remedies
  <1> QED BY <1>1, <1>2, PopLeaves, NoneChanges, KeptStep DEF Remedy

LEMMA FinishWaitingKept == ASSUME Core, Kept, DoFinishWaiting PROVE Kept'
  <1>1. Busy /\ UNCHANGED <<activeVt, numFailures>> /\ First.fn = "finish_waiting"
    BY DEF DoFinishWaiting, factoryVars, Calling, Busy, First
  <1>2. CASE Return(<<>>) /\ UNCHANGED displays /\ ~WaitingScreen
    BY <1>1, <1>2, PopLeaves, NoneChanges, KeptStep
  <1>3. ASSUME NEW d \in Displays, displays[d].status = "waiting",
               displays' = [displays EXCEPT ![d].session = "none"],
               Return(<<Unmanage(d), Finish(d), FinishWaiting>>)
        PROVE  Kept'
    <2>1. /\ \A e \in Displays \ {d} : displays'[e] = displays[e]
          /\ displays'[d].setup = displays[d].setup
      BY <1>3, SessionSet DEF Core, SessionStates
    <2>2. Unmanage(d) \in CallRecords /\ Finish(d) \in CallRecords /\ FinishWaiting \in CallRecords
      BY CallTypes
    <2>3. Busy' /\ First' = Unmanage(d) /\ Rest' = {Finish(d), FinishWaiting} \union Rest
      BY <1>1, <1>3, <2>2, PushesThree DEF Core
    <2>4. ~Waits' /\ Remedy'
      BY <2>3, CallFields DEF Waits, Remedy, Left
    <2>5. NoneWaits
      BY <1>3, <2>1, OneChanges
    <2> QED BY <1>1, <2>4, <2>5, KeptStep
  <1>4. CASE ~\E d \in Displays : displays[d].status = "waiting"
    <2>1. ~WaitingScreen /\ Return(<<>>) /\ UNCHANGED displays
      BY <1>4 DEF WaitingScreen, Waiting, DoFinishWaiting
    <2> QED BY <1>2, <2>1
  <1> QED BY <1>3, <1>4 DEF DoFinishWaiting

\* The handlers: a managed or failed display goes on from the manager to the factory.
LEMMA ManagerKept == ASSUME Core, Kept, ManagerHandler PROVE Kept'
  <1>1. Busy /\ First.fn = "manager" /\ FirstOK
    BY CallOf DEF ManagerHandler, CallNames
  <1>2. PICK d \in Displays : d = First.d /\ d = This /\ InStore(d)
    BY CallOf DEF ManagerHandler, OfDisplay, FirstOnly, CallNames
  <1>3. /\ Rest # {} /\ Second = ToFactory(d)
        /\ displays[d].status = "prepared" => displays[d].session = "none"
    BY <1>1, <1>2 DEF FirstOK
  <1>4. UNCHANGED <<activeVt, numFailures>>
    BY DEF ManagerHandler, factoryVars
  <1>5. Remedies(First) <=> displays[d].status \in {"managed", "failed"}
    BY <1>1, <1>2, CallFields DEF Remedies
  <1>6. CASE /\ displays[d].status = "prepared"
             /\ \/ /\ \E s \in {"lookup", "automatic"} : displays' = [displays EXCEPT ![d].session = s]
                   /\ Return(<<>>)
                \/ Return(<<SetUpGreeter(d)>>) /\ UNCHANGED displays
    <2>1. ~Remedies(First) /\ ~Protects(d)
      BY <1>3, <1>5, <1>6 DEF Protects
    <2>2. (\A e \in Displays \ {d} : displays'[e] = displays[e]) /\ displays'[d].status = "prepared"
      <3>1. CASE UNCHANGED displays
        BY <1>6, <3>1
      <3>2. ASSUME NEW s \in {"lookup", "automatic"}, displays' = [displays EXCEPT ![d].session = s]
            PROVE  (\A e \in Displays \ {d} : displays'[e] = displays[e]) /\ displays'[d].status = "prepared"
        BY <1>6, <3>2, SessionSet DEF Core, SessionStates
      <3> QED BY <1>6, <3>1, <3>2
    <2>3. NoneWaits /\ (Protected => Protected')
      BY <2>1, <2>2, OneChanges
    <2>4. ~Waits' /\ (Left => Remedy')
      <3>1. CASE Return(<<>>)
        BY <1>1, <3>1, PopLeaves
      <3>2. CASE Return(<<SetUpGreeter(d)>>)
        <4>1. SetUpGreeter(d) \in CallRecords /\ Continues(<<SetUpGreeter(d)>>)
          BY <1>1, <3>2, CallTypes DEF Continues
        <4>2. Busy' /\ First' = SetUpGreeter(d) /\ Rest' = Rest
          BY <4>1, PushesOne DEF Core
        <4> QED BY <4>2, PushLeaves, CallFields DEF Waits
      <3> QED BY <1>6, <3>1, <3>2
    <2> QED BY <1>4, <2>1, <2>3, <2>4, KeptStep DEF Remedy
  <1>7. CASE Return(<<>>) /\ UNCHANGED displays
    <2>1. Busy' /\ First' = ToFactory(d)
      BY <1>1, <1>3, <1>7, Pops DEF Core
    <2>2. Remedies(First) => Remedy'
      BY <1>5, <1>7, <2>1, CallFields DEF Remedy, Remedies
    <2> QED BY <1>1, <1>4, <1>7, <2>2, PopLeaves, NoneChanges, KeptStep DEF Remedy
  <1> QED BY <1>2, <1>6, <1>7 DEF ManagerHandler

LEMMA SetUpGreeterKept == ASSUME Core, Kept, DoSetUpGreeter PROVE Kept'
  <1>1. Busy /\ First.fn = "set_up_greeter" /\ FirstOK
    BY CallOf DEF DoSetUpGreeter, CallNames
  <1>2. PICK d \in Displays : d = First.d /\ d = This /\ InStore(d)
    BY CallOf DEF DoSetUpGreeter, OfDisplay, FirstOnly, CallNames
  <1>3. displays[d].status = "prepared" /\ ~Protects(d)
    BY <1>1, <1>2 DEF FirstOK, Protects
  <1>4. ~Remedies(First)
    BY <1>1, CallFields DEF Remedies
  <1>5. UNCHANGED <<activeVt, numFailures>>
    BY DEF DoSetUpGreeter, factoryVars
  <1>6. CASE displays' = [displays EXCEPT ![d].session = "starting"] /\ Return(<<>>)
    <2>1. (\A e \in Displays \ {d} : displays'[e] = displays[e]) /\ displays'[d].status = "prepared"
      BY <1>3, <1>6, SessionSet DEF Core, SessionStates
    <2>2. NoneWaits /\ (Protected => Protected')
      BY <1>3, <2>1, OneChanges
    <2> QED BY <1>1, <1>4, <1>5, <1>6, <2>2, PopLeaves, KeptStep DEF Remedy
  <1>7. ASSUME NEW t \in {"prepared", "finished"},
               \/ t = "prepared" /\ displays' = [displays EXCEPT ![d].session = "nouser"]
               \/ t = "finished"
                  /\ displays' = [displays EXCEPT ![d].session = "nouser", ![d].status = "finished"]
        PROVE  NoneWaits /\ (Protected => Protected')
    <2>1. (\A e \in Displays \ {d} : displays'[e] = displays[e]) /\ displays'[d].status = t
      BY <1>3, <1>7, SessionSet, SessionAndStatusSet DEF Core, SessionStates, Statuses
    <2> QED BY <1>3, <2>1, OneChanges
  <1>8. CASE /\ Return(<<Unmanage(d), Finish(d)>>)
             /\ displays' = [displays EXCEPT ![d].session = "nouser"]
    <2>1. /\ Unmanage(d) \in CallRecords /\ Finish(d) \in CallRecords
          /\ Continues(<<Unmanage(d), Finish(d)>>)
      BY <1>1, <1>8, CallTypes DEF Continues
    <2>2. Busy' /\ First' = Unmanage(d) /\ Rest' = {Finish(d)} \union Rest
      BY <2>1, PushesTwo DEF Core
    <2>3. ~Waits' /\ (Left => Remedy')
      BY <2>2, PushLeaves, CallFields DEF Waits
    <2> QED BY <1>4, <1>5, <1>7, <1>8, <2>3, KeptStep DEF Remedy
  <1>9. CASE /\ Return(<<ToManager(d)>>)
             /\ displays' = [displays EXCEPT ![d].session = "nouser", ![d].status = "finished"]
    <2>1. ToManager(d) \in CallRecords /\ Continues(<<ToManager(d)>>)
      BY <1>1, <1>9, CallTypes DEF Continues
    <2>2. Busy' /\ First' = ToManager(d) /\ Rest' = Rest
      BY <2>1, PushesOne DEF Core
    <2>3. ~Waits' /\ (Left => Remedy')
      BY <2>2, PushLeaves, CallFields DEF Waits
    <2> QED BY <1>4, <1>5, <1>7, <1>9, <2>3, KeptStep DEF Remedy
  <1> QED BY <1>2, <1>6, <1>8, <1>9 DEF DoSetUpGreeter, GreeterHasNoUser

LEMMA FactoryKept ==
    ASSUME Seats = {"seat0"}, Core, PlainTyped, Kept, FactoryHandler
    PROVE  Kept'
  <1>1. Busy /\ First.fn = "factory"
    BY CallOf DEF FactoryHandler, CallNames
  <1>2. PICK d \in Displays : d = First.d /\ d = This /\ InStore(d)
    BY CallOf DEF FactoryHandler, OfDisplay, FirstOnly, CallNames
  <1>3. displays[d].seat = "seat0" /\ UNCHANGED <<displays, activeVt>>
    BY RecordTypes DEF Core, FactoryHandler
  <1>4. Remedies(First) <=> displays[d].status \in {"managed", "failed"}
    BY <1>1, <1>2, CallFields DEF Remedies
  <1>5. ASSUME NEW c \in {FinishWaiting, Ensure("seat0")}, Return(<<c>>) PROVE ~Waits' /\ Remedy'
    <2>1. c \in CallRecords /\ Continues(<<c>>)
      BY <1>1, <1>5, CallTypes, LocalDisplaysAssumptions DEF Continues
    <2>2. Busy' /\ First' = c
      BY <2>1, PushesOne DEF Core
    <2> QED BY <1>5, <2>2, CallFields DEF Waits, Remedy, Remedies
  <1>6. CASE Remedy' /\ ~Waits'
    BY <1>3, <1>6, NoneChanges, KeptStep
  <1>7. CASE Return(<<>>) /\ UNCHANGED numFailures /\ ~Remedies(First)
    BY <1>1, <1>3, <1>7, PopLeaves, NoneChanges, KeptStep DEF Remedy
  <1>8. CASE Return(<<>>) /\ numFailures' > MAX_DISPLAY_FAILURES /\ numFailures' \in Nat
    <2>1. ~InFront'
      BY <1>8, LocalDisplaysAssumptions DEF InFront
    <2>2. ~(numFailures' <= MAX_DISPLAY_FAILURES)
      BY <1>8, LocalDisplaysAssumptions
    <2> QED BY <1>1, <1>3, <1>8, <2>1, <2>2, PopLeaves, NoneChanges, KeptStep
  <1>9. CASE FactoryFinished(d)
    <2>1. displays[d].status = "finished"
      BY <1>9 DEF FactoryFinished
    <2> QED BY <1>3, <1>4, <1>5, <1>6, <1>7, <1>9, <2>1 DEF FactoryFinished
  <1>10. CASE FactoryFailed(d) /\ numFailures \in Nat
    <2>1. numFailures' \in Nat
      BY <1>10 DEF FactoryFailed
    <2> QED BY <1>3, <1>5, <1>6, <1>8, <1>10, <2>1 DEF FactoryFailed
  <1>11. CASE /\ displays[d].status \notin {"finished", "failed"} /\ UNCHANGED numFailures
              /\ Return(IF displays[d].status = "managed" THEN <<FinishWaiting>> ELSE <<>>)
    BY <1>4, <1>5, <1>6, <1>7, <1>11
  <1>12. numFailures \in Nat
    BY LocalDisplaysAssumptions DEF PlainTyped
  <1> QED BY <1>2, <1>9, <1>10, <1>11, <1>12 DEF FactoryHandler

\* A login screen that waits is a login window, unless it is being unmanaged.
LEMMA WaitingIsWindow ==
    ASSUME Seats = {"seat0"}, Core, Busy => First.fn # "unmanage", WaitingScreen
    PROVE  LoginWindows("seat0") # {}
  <1>1. PICK d \in Displays : displays[d].status = "waiting"
    BY DEF WaitingScreen, Waiting
  <1>2. displays[d].seat = "seat0" /\ displays[d].class = "greeter"
    BY <1>1, RecordTypes DEF Core, DisplayOK, UserOK
  <1>3. displays[d].session = "running"
    BY <1>1, <1>2, ShownIsRunning
  <1> QED BY <1>1, <1>2, <1>3 DEF LoginWindows

\* ensure_display_for_seat manages a login window, unless another is coming up.
LEMMA EnsureKept ==
    ASSUME Seats = {"seat0"}, Inv, Kept, EnsureDisplayForSeat
    PROVE  Kept'
  <1> USE DEF Inv
  <1>1. Busy /\ First.fn = "ensure_display_for_seat" /\ FirstOK /\ Arg = First.arg
    BY CallOf DEF EnsureDisplayForSeat, CallNames
  <1>2. Arg = "seat0" /\ UNCHANGED <<activeVt, numFailures>>
    BY <1>1 DEF FirstOK, CallOK, EnsureDisplayForSeat
  <1>3. ASSUME NEW w \in LoginWindows("seat0"), SwitchToLoginWindow("seat0", w) PROVE Kept'
    <2>1. w \in Displays /\ UNCHANGED displays /\ Return(<<SetStatus(w, "managed")>>)
      BY <1>3 DEF SwitchToLoginWindow, LoginWindows
    <2>2. SetStatus(w, "managed") \in CallRecords /\ Continues(<<SetStatus(w, "managed")>>)
      BY <1>1, <2>1, CallTypes DEF Continues, Statuses
    <2>3. Busy' /\ First' = SetStatus(w, "managed")
      BY <2>2, PushesOne DEF Core
    <2>4. ~Waits' /\ Remedy'
      BY <2>3, CallFields DEF Waits, Remedy, Remedies
    <2> QED BY <1>2, <2>1, <2>4, NoneChanges, KeptStep
  <1>4. ASSUME \/ LoginWindows("seat0") = {}
               \/ \E w \in LoginWindows("seat0") : displays[w].status \notin {"managed", "waiting"}
        PROVE  WaitingScreen => Protected
    <2>1. ASSUME NEW w \in LoginWindows("seat0"), displays[w].status \notin {"managed", "waiting"}
          PROVE  Protects(w) /\ w \in Displays
      BY <2>1, WindowIsPrepared DEF LoginWindows, DisplayForSeat, Protects
    <2> QED BY <1>1, <1>4, <2>1, WaitingIsWindow DEF Protected
  <1>5. ASSUME WaitingScreen => Protected,
               \/ Return(<<>>) /\ UNCHANGED displays
               \/ \E d \in Displays : /\ FirstFree(d)
                                      /\ displays' = [displays EXCEPT ![d] = LoginScreen("seat0")]
                                      /\ Return(<<SetStatus(d, "prepared")>>)
        PROVE  Kept'
    <2>1. CASE Return(<<>>) /\ UNCHANGED displays
      BY <1>1, <1>2, <1>5, <2>1, PopLeaves, NoneChanges, KeptStep
    <2>2. ASSUME NEW d \in Displays, FirstFree(d), Return(<<SetStatus(d, "prepared")>>),
                 displays' = [displays EXCEPT ![d] = LoginScreen("seat0")]
          PROVE  Kept'
      <3>1. PICK r \in DisplayRecords : r = LoginScreen("seat0") /\ r.status = "unmanaged"
        BY NewRecords, LocalDisplaysAssumptions DEF PlainTyped
      <3>2. displays'[d] = r /\ \A e \in Displays \ {d} : displays'[e] = displays[e]
        BY <2>2, <3>1, PlaceSet DEF Core
      <3>3. ~Protects(d)
        BY <2>2 DEF FirstFree, FreePlaces, Protects
      <3>4. NoneWaits /\ (Protected => Protected')
        BY <3>1, <3>2, <3>3, OneChanges
      <3>5. SetStatus(d, "prepared") \in CallRecords /\ Continues(<<SetStatus(d, "prepared")>>)
        BY <1>1, <2>2, CallTypes DEF Continues, Statuses
      <3>6. Busy' /\ First' = SetStatus(d, "prepared")
        BY <3>5, PushesOne DEF Core
      <3>7. ~Waits'
        BY <3>6, CallFields DEF Waits
      <3> QED BY <1>2, <1>5, <3>4, <3>7, KeptStep
    <2> QED BY <1>5, <2>1, <2>2
  <1>6. CASE \E w \in LoginWindows(Arg) : SwitchToLoginWindow(Arg, w)
    BY <1>2, <1>3, <1>6
  <1>7. CASE /\ \/ LoginWindows(Arg) = {}
                \/ \E w \in LoginWindows(Arg) : displays[w].status \notin {"managed", "waiting"}
             /\ WaitForGraphics(Arg) \/ AddLoginScreen(Arg)
    <2>1. WaitingScreen => Protected
      BY <1>2, <1>4, <1>7
    <2> QED BY <1>2, <1>5, <1>7, <2>1 DEF WaitForGraphics, AddLoginScreen
  <1> QED BY <1>6, <1>7 DEF EnsureDisplayForSeat

LEMMA MakeCallKept == ASSUME Seats = {"seat0"}, Inv, Kept, MakeCall PROVE Kept'
  BY SetStatusKept, UnmanageKept, FinishKept, FinishUnlessFailedKept, QueueFinishKept,
     FinishWaitingKept, ManagerKept, SetUpGreeterKept, FactoryKept, EnsureKept DEF MakeCall, Inv

\* The main loop goes on: no remedy is under way.
LEMMA IdleStep ==
    ASSUME Kept, ~Busy, UNCHANGED <<activeVt, numFailures>>, ~Waits', NoneWaits,
           Protected => Protected' \/ Remedy' \/ ~WaitingScreen'
    PROVE  Kept'
  BY KeptStep DEF Remedy

\* Events that change no display, and what they call.
LEMMA EventKept ==
    ASSUME Core, Kept, UNCHANGED <<displays, activeVt, numFailures>>,
           \/ Dispatch(<<>>)
           \/ \E c \in CallRecords : c.fn # "set_status" /\ Dispatch(<<c>>)
    PROVE  Kept'
  <1>1. ~Busy /\ ~Waits'
    <2>1. CASE Dispatch(<<>>)
      BY <2>1, DispatchNone DEF Waits
    <2>2. ASSUME NEW c \in CallRecords, c.fn # "set_status", Dispatch(<<c>>) PROVE ~Busy /\ ~Waits'
      BY <2>2, DispatchOne DEF Waits
    <2> QED BY <2>1, <2>2
  <1> QED BY <1>1, NoneChanges, IdleStep

\* Displays that leave the store are finished or failed, or all.
LEMMA DroppedKept ==
    ASSUME Core, Kept, Dispatch(<<>>), UNCHANGED <<activeVt, numFailures>>, NEW X \in SUBSET Displays,
           displays' = [d \in Displays |-> IF d \in X THEN Free ELSE displays[d]],
           X = Displays \/ \A d \in X : displays[d].status \in {"finished", "failed"}
    PROVE  Kept'
  <1>1. ~Busy /\ ~Waits'
    BY DispatchNone DEF Waits
  <1>2. Free.status = "free"
    BY DEF Free
  <1>3. \A d \in Displays : displays'[d] = IF d \in X THEN Free ELSE displays[d]
    OBVIOUS
  <1>4. NoneWaits
    BY <1>2, <1>3 DEF NoneWaits
  <1>5. CASE X = Displays
    <2>1. ~WaitingScreen'
      BY <1>2, <1>3, <1>5 DEF WaitingScreen, Waiting
    <2> QED BY <1>1, <1>4, <2>1, IdleStep
  <1>6. CASE \A d \in X : displays[d].status \in {"finished", "failed"}
    <2>1. \A d \in Displays : Protects(d) => Protects(d)'
      BY <1>3, <1>6 DEF Protects
    <2> QED BY <1>1, <1>4, <2>1, IdleStep DEF Protected
  <1> QED BY <1>5, <1>6

\* on_vt_changed: whoever comes back to the initial VT gets a login screen ensured.
LEMMA VtChangedKept == ASSUME Inv, Kept, OnVtChanged PROVE Kept'
  <1> USE DEF Inv
  <1>1. /\ ~Busy /\ activeVt' = vt /\ vt # activeVt /\ vt \in VTs
        /\ UNCHANGED <<displays, numFailures>>
    BY DEF OnVtChanged, Busy, PlainTyped
  <1>2. activeVt' # NoVt
    BY <1>1 DEF VTs, NoVt
  <1>3. WaitingScreen' => WaitingScreen
    BY <1>1, NoneChanges
  <1>4. CASE activeVt = NoVt
    <2>1. ~WaitingScreen
      BY <1>4 DEF Kept, WaitingScreen, Waiting
    <2>2. ~Waits'
      BY <1>1, <1>4 DEF OnVtChanged, Waits, Busy
    <2> QED BY <1>2, <1>3, <2>1, <2>2 DEF Kept
  <1>5. ASSUME NEW w \in LoginWindows("seat0") \union {NoDisplay}, VtHandler(w) PROVE Kept'
    <2>1. Ensure("seat0") \in CallRecords
      BY CallTypes, LocalDisplaysAssumptions
    <2>2. CASE Dispatch(<<>>) /\ vt # GDM_INITIAL_VT
      <3>1. ~Waits' /\ ~InFront'
        BY <1>1, <2>2, DispatchNone DEF Waits, InFront
      <3> QED BY <1>2, <3>1 DEF Kept
    <2>3. CASE Dispatch(<<Ensure("seat0")>>)
      <3>1. Busy' /\ First' = Ensure("seat0")
        BY <2>1, <2>3, DispatchOne
      <3>2. ~Waits' /\ Remedy'
        BY <3>1, CallFields DEF Waits, Remedy, Remedies
      <3> QED BY <1>2, <3>2 DEF Kept
    <2>4. CASE /\ w # NoDisplay /\ activeVt = GDM_INITIAL_VT
               /\ \/ Dispatch(<<SetStatus(w, "waiting")>>) /\ vt # GDM_INITIAL_VT
                  \/ Dispatch(<<SetStatus(w, "waiting"), Ensure("seat0")>>)
      <3>1. activeVt' # GDM_INITIAL_VT /\ ~InFront'
        BY <1>1, <2>4 DEF InFront
      <3> QED BY <1>2, <3>1 DEF Kept
    <2> QED BY <1>5, <2>2, <2>3, <2>4, VtHandlerCalls
  <1> QED BY <1>4, <1>5 DEF OnVtChanged

LEMMA MainLoopKept == ASSUME Inv, Kept, MainLoop PROVE Kept'
  <1>1. Core
    BY DEF Inv
  <1>2. CASE RunPurge
    <2> DEFINE done == {d \in Displays : displays[d].status \in {"finished", "failed"}}
    <2>1. /\ Dispatch(<<>>) /\ UNCHANGED <<activeVt, numFailures>>
          /\ displays' = [d \in Displays |-> IF d \in done THEN Free ELSE displays[d]]
      BY <1>2 DEF RunPurge, factoryVars
    <2>2. done \in SUBSET Displays /\ \A d \in done : displays[d].status \in {"finished", "failed"}
      OBVIOUS
    <2> HIDE DEF done
    <2> QED BY <1>1, <2>1, <2>2, DroppedKept
  <1>3. CASE RunFinish
    <2>1. PICK d \in Displays : Dispatch(<<Finish(d)>>) /\ UNCHANGED <<displays, activeVt, numFailures>>
      BY <1>3 DEF RunFinish, factoryVars
    <2>2. Finish(d) \in CallRecords /\ Finish(d).fn # "set_status"
      BY CallTypes, CallFields
    <2> QED BY <1>1, <2>1, <2>2, EventKept
  <1>4. Ensure("seat0") \in CallRecords /\ FinishWaiting \in CallRecords
        /\ Ensure("seat0").fn # "set_status" /\ FinishWaiting.fn # "set_status"
    BY CallTypes, CallFields, LocalDisplaysAssumptions
  <1>5. CASE OnSeat0GraphicsCheckTimeout
    BY <1>1, <1>4, <1>5, EventKept DEF OnSeat0GraphicsCheckTimeout
  <1>6. CASE OnFinishWaitingTimeout
    BY <1>1, <1>4, <1>6, EventKept DEF OnFinishWaitingTimeout
  <1> QED BY <1>2, <1>3, <1>5, <1>6, VtChangedKept DEF MainLoop

\* A place of the store is taken by a display that does not wait.
LEMMA PlaceKept ==
    ASSUME Core, Kept, ~Busy, UNCHANGED <<activeVt, numFailures>>, ~Waits',
           NEW d \in Displays, displays[d].status = "free",
           NEW r \in DisplayRecords, r.status # "waiting", displays' = [displays EXCEPT ![d] = r]
    PROVE  Kept'
  <1>1. displays'[d] = r /\ \A e \in Displays \ {d} : displays'[e] = displays[e]
    BY PlaceSet DEF Core
  <1>2. NoneWaits /\ (Protected => Protected')
    BY <1>1, OneChanges DEF Protects
  <1> QED BY <1>2, IdleStep

LEMMA EnvironmentKept ==
    ASSUME Seats = {"seat0"}, Inv, Kept, Environment
    PROVE  Kept'
  <1> USE DEF Inv
  <1>1. Ensure("seat0") \in CallRecords /\ Ensure("seat0").fn # "set_status"
    BY CallTypes, CallFields, LocalDisplaysAssumptions
  <1>2. CASE OnUevent
    BY <1>1, <1>2, EventKept DEF OnUevent
  <1>3. CASE VtSwitch
    BY <1>3, EventKept DEF VtSwitch
  <1>4. CASE CreateTransientDisplay
    <2>1. PICK d \in Displays : /\ FirstFree(d) /\ Dispatch(<<SetStatus(d, "prepared")>>)
                                /\ displays' = [displays EXCEPT ![d] = LoginScreen("seat0")]
                                /\ UNCHANGED <<activeVt, numFailures>>
      BY <1>4 DEF CreateTransientDisplay, factoryVars
    <2>2. PICK r \in DisplayRecords : r = LoginScreen("seat0") /\ r.status = "unmanaged"
      BY NewRecords, LocalDisplaysAssumptions DEF PlainTyped
    <2>3. SetStatus(d, "prepared") \in CallRecords
      BY CallTypes DEF Statuses
    <2>4. ~Busy /\ First' = SetStatus(d, "prepared")
      BY <2>1, <2>3, DispatchOne
    <2>5. ~Waits' /\ displays[d].status = "free"
      BY <2>1, <2>4, CallFields DEF Waits, FirstFree, FreePlaces
    <2> QED BY <2>1, <2>2, <2>4, <2>5, PlaceKept
  <1>5. ASSUME NEW s \in Seats, OnSeatActivateGreeter(s) PROVE Kept'
    BY <1>1, <1>5, EventKept DEF OnSeatActivateGreeter
  <1>6. ASSUME NEW s \in Seats, OnSeatRemoved(s) PROVE Kept'
    BY <1>6 DEF OnSeatRemoved
  <1>7. ASSUME NEW s \in Seats, OnSeatPropertiesChanged(s) PROVE Kept'
    <2>1. s = "seat0" /\ UNCHANGED <<activeVt, numFailures>>
      BY <1>7 DEF OnSeatPropertiesChanged
    <2>2. CASE Dispatch(<<Ensure(s)>>) /\ UNCHANGED displays
      BY <1>1, <2>1, <2>2, EventKept
    <2>3. CASE Dispatch(<<>>) /\ Deleted(s)
      <3> DEFINE gone == {d \in Displays : displays[d].seat = s}
      <3>1. displays' = [d \in Displays |-> IF d \in gone THEN Free ELSE displays[d]]
        BY <2>3 DEF Deleted
      <3>2. gone = Displays
        BY <2>1, RecordTypes DEF Core
      <3> HIDE DEF gone
      <3> QED BY <2>1, <2>3, <3>1, <3>2, DroppedKept
    <2> QED BY <1>7, <2>2, <2>3 DEF OnSeatPropertiesChanged
  <1> QED BY <1>2, <1>3, <1>4, <1>5, <1>6, <1>7 DEF Environment

\* The session of one display goes on or ends; the display is a protector afterwards if it
\* was one before, or it is unmanaged before anything else happens.
LEMMA SessionStepKept ==
    ASSUME Core, Kept, ~Busy, UNCHANGED <<activeVt, numFailures>>, ~Waits', NEW d \in Displays,
           NEW s \in SessionStates, displays' = [displays EXCEPT ![d].session = s],
           Protects(d) => s \in {"open", "running", "lost"} \/ Remedy'
    PROVE  Kept'
  <1>1. /\ \A e \in Displays \ {d} : displays'[e] = displays[e]
        /\ displays'[d].status = displays[d].status /\ displays'[d].class = displays[d].class
        /\ displays'[d].session = s /\ displays'[d].setup = displays[d].setup
    BY SessionSet DEF Core
  <1>2. NoneWaits /\ (Protected => Protected' \/ (Protects(d) /\ ~Protects(d)'))
    BY <1>1, OneChanges
  <1>3. Protects(d) => Protects(d)' \/ Remedy'
    BY <1>1 DEF Protects
  <1> QED BY <1>2, <1>3, IdleStep

LEMMA EarlySessionKept ==
    ASSUME Core, Kept, NEW d \in Displays, UserIsLoaded(d) \/ GreeterProceeds(d) \/ SessionLost(d)
    PROVE  Kept'
  <1>1. UNCHANGED <<activeVt, numFailures>>
    BY DEF UserIsLoaded, GreeterProceeds, SessionLost, factoryVars
  <1>2. PICK from \in {"lookup", "automatic", "starting", "open"},
             to \in {"automatic", "open", "running", "lost", "none"} :
               Steps(d, from, to) /\ (from # "lookup" => to \in {"open", "running", "lost"})
    BY DEF UserIsLoaded, GreeterProceeds, SessionLost
  <1>3. displays[d].session = from /\ displays' = [displays EXCEPT ![d].session = to]
    BY <1>2 DEF Steps
  <1>4. ~Busy /\ ~Waits'
    <2>1. Dispatch(<<>>) \/ Dispatch(<<SetUpGreeter(d)>>)
      BY DEF UserIsLoaded, GreeterProceeds, SessionLost
    <2>2. SetUpGreeter(d) \in CallRecords
      BY CallTypes
    <2> QED BY <2>1, <2>2, DispatchNone, DispatchOne, CallFields DEF Waits
  <1>5. Protects(d) => to \in {"open", "running", "lost"}
    BY <1>2, <1>3 DEF Protects
  <1>6. to \in SessionStates
    BY DEF SessionStates
  <1> QED BY <1>1, <1>3, <1>4, <1>5, <1>6, SessionStepKept

LEMMA RegisteredKept ==
    ASSUME Core, Kept, NEW d \in Displays, RegisterDisplay(d) \/ RegisterSession(d)
    PROVE  Kept'
  <1>1. UNCHANGED <<activeVt, numFailures>>
    BY DEF RegisterDisplay, RegisterSession, factoryVars
  <1>2. PICK n \in {1, 2} : displays' = [displays EXCEPT ![d].registered = n]
    BY DEF RegisterDisplay, RegisterSession
  <1>3. n \in 0..2
    OBVIOUS
  <1>4. /\ \A e \in Displays \ {d} : displays'[e] = displays[e]
        /\ displays'[d].status = displays[d].status /\ displays'[d].class = displays[d].class
        /\ displays'[d].session = displays[d].session /\ displays'[d].setup = displays[d].setup
    BY <1>2, <1>3, RegisteredSet DEF Core
  <1>5. NoneWaits /\ (Protected => Protected')
    BY <1>4, OneChanges DEF Protects
  <1>6. ~Busy /\ ~Waits'
    <2>1. Dispatch(<<>>) \/ Dispatch(<<SetStatus(d, "managed")>>)
      BY DEF RegisterDisplay, RegisterSession
    <2>2. PICK c \in CallRecords : c = SetStatus(d, "managed")
      BY CallTypes DEF Statuses
    <2>3. c.arg # "waiting"
      BY <2>2, CallFields
    <2>4. ~Busy /\ (Busy' => First' = c)
      BY <2>1, <2>2, DispatchNone, DispatchOne
    <2> QED BY <2>3, <2>4 DEF Waits
  <1> QED BY <1>1, <1>5, <1>6, IdleStep

\* A protector that ends is unmanaged, and fails, before anything else happens.
LEMMA EndedKept ==
    ASSUME Core, Kept, NEW d \in Displays, GreeterEnds(d) \/ UserSessionEnds(d)
    PROVE  Kept'
  <1>1. UNCHANGED <<activeVt, numFailures>>
    BY DEF GreeterEnds, UserSessionEnds, factoryVars
  <1>2. PICK from \in {"running", "exiting"}, to \in {"exiting", "none"},
             c \in {QueueFinish(d), FinishUnlessFailed(d)} :
               Steps(d, from, to) /\ Dispatch(<<Unmanage(d), c>>)
    BY DEF GreeterEnds, UserSessionEnds
  <1>3. displays[d].session = from /\ displays' = [displays EXCEPT ![d].session = to]
        /\ to \in SessionStates
    BY <1>2 DEF Steps, SessionStates
  <1>4. /\ displays'[d].status = displays[d].status
        /\ displays'[d].registered = displays[d].registered
    BY <1>3, SessionSet DEF Core
  <1>5. Unmanage(d) \in CallRecords /\ c \in CallRecords
    BY CallTypes
  <1>6. ~Busy /\ Busy' /\ First' = Unmanage(d)
    BY <1>2, <1>5, DispatchTwo
  <1>7. ~Waits'
    BY <1>6, CallFields DEF Waits
  <1>8. Protects(d) => Remedy'
    <2>1. Protects(d) => displays[d].registered = 0 /\ displays[d].status = "prepared"
      BY <1>6 DEF Protects, Core, DisplayOK, StatusOK
    <2> QED BY <1>4, <1>6, <2>1, CallFields DEF Remedy, Remedies
  <1> QED BY <1>1, <1>3, <1>6, <1>7, <1>8, SessionStepKept

LEMMA StartUserSessionKept ==
    ASSUME Inv, Kept, NEW d \in Displays, activeVt # NoVt, StartUserSession(d)
    PROVE  Kept'
  <1> USE DEF Inv
  <1>1. /\ UNCHANGED <<activeVt, numFailures>> /\ displays[d].session = "running"
        /\ displays[d].status \in {"managed", "waiting"}
    BY DEF StartUserSession, factoryVars
  <1>2. PICK u \in Displays, v \in {NoVt} \union VTs :
               FirstFree(u) /\ displays' = [displays EXCEPT ![u] = UserDisplay(displays[d].seat, v)]
    BY DEF StartUserSession
  <1>3. displays[u].status = "free" /\ displays[d].seat \in Seats /\ u # d
    BY <1>1, <1>2, RecordTypes DEF FirstFree, FreePlaces, Core
  <1>4. PICK r \in DisplayRecords : r = UserDisplay(displays[d].seat, v) /\ r.status = "unmanaged"
    BY <1>3, NewRecords DEF PlainTyped
  <1>5. /\ displays'[u] = r /\ \A e \in Displays \ {u} : displays'[e] = displays[e]
    BY <1>2, <1>4, PlaceSet DEF Core
  <1>6. CASE Dispatch(<<>>)
    <2>1. ~Busy /\ ~Waits'
      BY <1>6, DispatchNone DEF Waits
    <2> QED BY <1>1, <1>2, <1>3, <1>4, <2>1, PlaceKept
  <1>7. CASE Dispatch(<<SetStatus(d, "waiting")>>) /\ displays[d].setup
    <2>1. SetStatus(d, "waiting") \in CallRecords
      BY CallTypes DEF Statuses
    <2>2. ~Busy /\ First' = SetStatus(d, "waiting")
      BY <1>7, <2>1, DispatchOne
    <2>3. displays'[d].setup
      BY <1>3, <1>5, <1>7
    <2>4. Waits' => displays'[First'.d].setup
      BY <2>2, <2>3, CallFields
    <2>5. NoneWaits /\ (Protected => Protected')
      BY <1>3, <1>4, <1>5, OneChanges DEF Protects
    <2>6. InFront' /\ WaitingScreen' => Protected'
      BY <1>1, <2>2, <2>5 DEF InFront, WaitingScreen, Waiting, NoneWaits, Kept, Remedy
    <2> QED BY <1>1, <2>4, <2>6 DEF Kept
  <1> QED BY <1>6, <1>7 DEF StartUserSession

LEMMA StartAutomaticSessionKept ==
    ASSUME Inv, Kept, NEW d \in Displays, StartAutomaticSession(d)
    PROVE  Kept'
  <1> USE DEF Inv
  <1>1. /\ displays[d].session = "automatic" /\ UNCHANGED <<activeVt, numFailures>>
        /\ Dispatch(<<>>)
    BY DEF StartAutomaticSession, factoryVars
  <1>2. ~Busy /\ ~Waits'
    BY <1>1, DispatchNone DEF Waits
  <1>3. PICK u \in Displays, v \in VTs :
               /\ FirstFree(u)
               /\ displays' = [displays EXCEPT ![u] = UserDisplay("seat0", v), ![d] = Free]
    BY DEF StartAutomaticSession
  <1>4. PICK r \in DisplayRecords : r = UserDisplay("seat0", v) /\ r.status = "unmanaged"
    BY NewRecords, LocalDisplaysAssumptions DEF PlainTyped
  <1>5. PICK f \in DisplayRecords : f = Free /\ f.status = "free"
    BY NewRecords, LocalDisplaysAssumptions DEF PlainTyped
  <1>6. displays' = [displays EXCEPT ![u] = r, ![d] = f]
    BY <1>3, <1>4, <1>5
  <1>7. /\ \A e \in Displays \ {u, d} : displays'[e] = displays[e]
        /\ displays'[u].status # "waiting" /\ displays'[d].status # "waiting"
    BY <1>4, <1>5, <1>6 DEF Core, DisplaysTyped
  <1>8. ~Protects(u) /\ ~Protects(d)
    BY <1>1, <1>3 DEF Protects, FirstFree, FreePlaces
  <1>9. NoneWaits
    BY <1>7 DEF NoneWaits
  <1>10. Protected => Protected'
    <2> SUFFICES ASSUME NEW e \in Displays, Protects(e) PROVE Protects(e)'
      BY DEF Protected
    <2> QED BY <1>7, <1>8 DEF Protects
  <1> QED BY <1>1, <1>2, <1>9, <1>10, IdleStep

LEMMA SessionKept == ASSUME Inv, Kept, NEW d \in Displays, Session(d) PROVE Kept'
  BY EarlySessionKept, RegisteredKept, EndedKept, StartUserSessionKept, StartAutomaticSessionKept
     DEF Session, Inv

LEMMA KeptUnchanged == ASSUME Kept, UNCHANGED vars PROVE Kept'
  <1>1. UNCHANGED <<displays, calls, activeVt, numFailures>>
    BY DEF vars, factoryVars
  <1>2. UNCHANGED <<Busy, First, Rest>>
    BY <1>1 DEF Busy, First, Rest
  <1>3. (Waits' <=> Waits) /\ (Remedy' <=> Remedy)
    BY <1>1, <1>2 DEF Waits, Remedy, Remedies, Left
  <1>4. NoneWaits /\ (Protected => Protected') /\ (WaitingScreen' <=> WaitingScreen)
    BY <1>1, NoneChanges
  <1> QED BY <1>1, <1>2, <1>3, <1>4 DEF Kept, InFront

\* Every step preserves what keeps the login screen.
LEMMA KeptInductive == ASSUME Seats = {"seat0"} PROVE Inv /\ Kept /\ [Next]_vars => Kept'
  BY MakeCallKept, MainLoopKept, EnvironmentKept, SessionKept, KeptUnchanged DEF Next

LEMMA KeptInitially == Init => Kept
  <1> SUFFICES ASSUME Init PROVE Kept
    OBVIOUS
  <1>1. \A d \in Displays : displays[d].status = "free"
    BY DEF Init, Free
  <1>2. activeVt = NoVt /\ NoVt # GDM_INITIAL_VT
    BY DEF Init, NoVt, GDM_INITIAL_VT
  <1>3. ~Waits
    <2>1. Busy => CallOK(First)
      BY InvInitially DEF Inv, Core, FirstOK
    <2>2. Busy => ~InStore(First.d)
      BY <1>1 DEF InStore
    <2> QED BY <2>1, <2>2 DEF Waits, CallOK, OfDisplay, FirstOnly
  <1> QED BY <1>1, <1>2, <1>3 DEF Kept, WaitingScreen, Waiting

\* At rest there is no remedy, and a protector would be a second login screen.
LEMMA KeptAtRest ==
    ASSUME Seats = {"seat0"}, Inv, Kept
    PROVE  ActiveLoginScreenIsKept
  <1> SUFFICES ASSUME calls = <<>>, InFront, NEW d \in Displays, Seat0Greeters = {d}, Waiting(d)
               PROVE  FALSE
    BY DEF ActiveLoginScreenIsKept, InFront, Waiting
  <1>1. ~Busy /\ WaitingScreen
    BY DEF Busy, WaitingScreen
  <1>2. PICK e \in Displays : Protects(e)
    BY <1>1 DEF Kept, Remedy, Protected
  <1>3. displays[e].seat = "seat0"
    BY RecordTypes DEF Inv, Core
  <1>4. e \in Seat0Greeters
    BY <1>2, <1>3 DEF Protects, Seat0Greeters
  <1>5. e = d
    BY <1>4
  <1> QED BY <1>2, <1>5 DEF Protects, Waiting

\* The one login screen of the initial VT never rests waiting to be finished while that VT is
\* active, unless the factory has given up.  There is one seat: num_failures is the factory's,
\* and a display of another seat that finishes sets it back without a look at seat0.
THEOREM LoginScreenIsKept ==
    ASSUME Seats = {"seat0"}
    PROVE  Spec => []ActiveLoginScreenIsKept
  <1>1. Inv /\ Kept => ActiveLoginScreenIsKept
    BY KeptAtRest
  <1>2. Inv /\ Kept /\ [Next]_vars => Kept'
    BY KeptInductive
  <1> QED BY <1>1, <1>2, KeptInitially, InvHolds, PTL DEF Spec

-----------------------------------------------------------------------------
(* The remote display factory, whose store and sessions are its own.       *)

\* One inhibitor at a time: what suspend_inhibited stands for between the calls.
OneInhibitor ==
    /\ inhibitCalls \in {0, 1}
    /\ inhibitCalls = 1 => fd = NoFd
    /\ suspendInhibited <=> (inhibitCalls = 1 \/ fd # NoFd)

RemoteInv == RemoteTypeOK /\ NoInhibitorLost /\ OneInhibitor

-----------------------------------------------------------------------------
\* What inhibit_suspend leaves of the inhibitor invariants.
LEMMA InhibitSuspendKeeps ==
    ASSUME RemoteInv, InhibitSuspend
    PROVE  /\ suspendInhibited' \in BOOLEAN /\ inhibitCalls' \in Nat /\ nextFd' \in Nat
           /\ fd' \in 1..nextFd' \cup {NoFd} /\ openFds' \subseteq 1..nextFd'
           /\ NoInhibitorLost' /\ OneInhibitor'
  <1>1. CASE /\ ~suspendInhibited
             /\ suspendInhibited' = TRUE
             /\ inhibitCalls' = inhibitCalls + 1
             /\ UNCHANGED <<fd, openFds, nextFd>>
    <2>1. inhibitCalls = 0 /\ fd = NoFd
      BY <1>1 DEF RemoteInv, OneInhibitor
    <2> QED BY <1>1, <2>1 DEF RemoteInv, RemoteTypeOK, NoInhibitorLost, OneInhibitor
  <1>2. CASE UNCHANGED inhibitVars
    BY <1>2 DEF RemoteInv, RemoteTypeOK, NoInhibitorLost, OneInhibitor, inhibitVars
  <1> QED BY <1>1, <1>2 DEF InhibitSuspend

\* What uninhibit_suspend leaves of them.
LEMMA UninhibitSuspendKeeps ==
    ASSUME RemoteInv, UninhibitSuspend
    PROVE  /\ suspendInhibited' \in BOOLEAN /\ inhibitCalls' \in Nat /\ nextFd' \in Nat
           /\ fd' \in 1..nextFd' \cup {NoFd} /\ openFds' \subseteq 1..nextFd'
           /\ NoInhibitorLost' /\ OneInhibitor'
  BY DEF RemoteInv, RemoteTypeOK, NoInhibitorLost, OneInhibitor, UninhibitSuspend,
         inhibitVars, NoFd

\* The store is finite, whatever the bound.
LEMMA StoreFinite == ASSUME RemoteInv PROVE IsFiniteSet(DOMAIN store)
  <1>1. created \in Nat /\ DOMAIN store \subseteq 1..created
    BY FactoryAssumptions DEF RemoteInv, RemoteTypeOK
  <1>2. IsFiniteSet(1..created)
    BY <1>1, FS_Interval
  <1> QED BY <1>1, <1>2, FS_Subset

\* A display that is created is counted.
LEMMA CreateDisplayKeeps ==
    ASSUME NEW owner \in Users \cup {Greeter}, RemoteInv, CreateDisplay(owner),
           creationUsers' \subseteq Users, sessions' \subseteq Users
    PROVE  RemoteInv'
  <1>1. created' \in 0..MaxRemoteDisplays /\ created \in Nat
    BY FactoryAssumptions DEF RemoteInv, RemoteTypeOK, CreateDisplay
  <1>2. DOMAIN store' = DOMAIN store \cup {created'} /\ created' \notin DOMAIN store
    BY FactoryAssumptions DEF RemoteInv, RemoteTypeOK, CreateDisplay
  <1>3. DOMAIN store' \subseteq 1..created'
    BY <1>1, <1>2 DEF RemoteInv, RemoteTypeOK, CreateDisplay
  <1>4. store' \in [DOMAIN store' -> Users \cup {Greeter}]
    BY <1>2 DEF RemoteInv, RemoteTypeOK, CreateDisplay
  <1>5. count' = Cardinality(DOMAIN store')
    BY <1>2, StoreFinite, FS_AddElement
       DEF RemoteInv, RemoteTypeOK, CreateDisplay
  <1>6. InhibitSuspend
    BY DEF CreateDisplay
  <1> QED BY <1>1, <1>3, <1>4, <1>5, <1>6, InhibitSuspendKeeps DEF RemoteInv, RemoteTypeOK

\* A display that is removed is no longer counted.
LEMMA DisplayRemovedKeeps ==
    ASSUME NEW d \in RemoteDisplays, RemoteInv, DisplayRemoved(d)
    PROVE  RemoteInv'
  <1>1. DOMAIN store' = DOMAIN store \ {d} /\ d \in DOMAIN store
    BY DEF DisplayRemoved
  <1>2. store' \in [DOMAIN store' -> Users \cup {Greeter}]
    BY <1>1 DEF RemoteInv, RemoteTypeOK, DisplayRemoved
  <1>3. count' = Cardinality(DOMAIN store')
    BY <1>1, StoreFinite, FS_RemoveElement
       DEF RemoteInv, RemoteTypeOK, DisplayRemoved
  <1>4. created' \in 0..MaxRemoteDisplays /\ DOMAIN store' \subseteq 1..created'
    BY <1>1 DEF RemoteInv, RemoteTypeOK, DisplayRemoved
  <1>5. creationUsers' \subseteq Users /\ sessions' \subseteq Users
    BY DEF RemoteInv, RemoteTypeOK, DisplayRemoved, userVars
  <1>6. CASE UninhibitSuspend
    BY <1>2, <1>3, <1>4, <1>5, <1>6, UninhibitSuspendKeeps DEF RemoteInv, RemoteTypeOK
  <1>7. CASE UNCHANGED inhibitVars
    BY <1>2, <1>3, <1>4, <1>5, <1>7
       DEF RemoteInv, RemoteTypeOK, NoInhibitorLost, OneInhibitor, inhibitVars
  <1> QED BY <1>6, <1>7 DEF DisplayRemoved

\* Every step of the factory preserves the invariant.
LEMMA RemoteInvInductive == RemoteInv /\ [RemoteNext]_remoteVars => RemoteInv'
  <1> SUFFICES ASSUME RemoteInv, [RemoteNext]_remoteVars PROVE RemoteInv'
    OBVIOUS
  <1>1. CASE CreateRemoteDisplay
    <2>1. CreateDisplay(Greeter) /\ creationUsers' \subseteq Users /\ sessions' \subseteq Users
      BY <1>1 DEF RemoteInv, RemoteTypeOK, CreateRemoteDisplay, userVars
    <2> QED BY <2>1, CreateDisplayKeeps
  <1>2. ASSUME NEW u \in Users, CreateUserDisplay(u) PROVE RemoteInv'
    <2>1. CreateDisplay(u) /\ creationUsers' \subseteq Users /\ sessions' \subseteq Users
      BY <1>2 DEF RemoteInv, RemoteTypeOK, CreateUserDisplay
    <2> QED BY <2>1, CreateDisplayKeeps
  <1>3. ASSUME NEW u \in Users,
               DestroyUserDisplay(u) \/ SessionOpens(u) \/ SessionEnds(u)
        PROVE  RemoteInv'
    <2>1. UNCHANGED <<created, store, count, inhibitVars>>
      BY <1>3 DEF DestroyUserDisplay, SessionOpens, SessionEnds
    <2>2. creationUsers' \subseteq Users /\ sessions' \subseteq Users
      BY <1>3 DEF RemoteInv, RemoteTypeOK, DestroyUserDisplay, SessionOpens, SessionEnds
    <2> QED BY <2>1, <2>2 DEF RemoteInv, RemoteTypeOK, NoInhibitorLost, OneInhibitor, inhibitVars
  <1>4. ASSUME NEW d \in RemoteDisplays, DisplayRemoved(d) PROVE RemoteInv'
    BY <1>4, DisplayRemovedKeeps
  <1>5. CASE InhibitDone
    <2>1. inhibitCalls = 1 /\ fd = NoFd /\ openFds = {} /\ suspendInhibited /\ inhibitCalls' = 0
      BY <1>5 DEF RemoteInv, OneInhibitor, NoInhibitorLost, InhibitDone
    <2>2. UNCHANGED <<created, store, count, userVars>>
      BY <1>5 DEF InhibitDone
    <2>3. CASE /\ nextFd' = nextFd + 1
               /\ fd' = nextFd'
               /\ openFds' = openFds \cup {nextFd'}
               /\ UNCHANGED suspendInhibited
      <3>1. nextFd \in Nat /\ nextFd' \in Nat /\ fd' \in 1..nextFd' /\ fd' # NoFd
        BY <2>3 DEF RemoteInv, RemoteTypeOK, NoFd
      <3>2. openFds' = {fd'}
        BY <2>1, <2>3
      <3>3. OneInhibitor'
        BY <2>1, <2>3, <3>1 DEF OneInhibitor
      <3> QED BY <2>1, <2>2, <2>3, <3>1, <3>2, <3>3
              DEF RemoteInv, RemoteTypeOK, NoInhibitorLost, userVars
    <2>4. CASE /\ suspendInhibited' = FALSE
               /\ fd' \in {fd, NoFd}
               /\ UNCHANGED <<openFds, nextFd>>
      <3>1. fd' = NoFd
        BY <2>1, <2>4
      <3>2. NoInhibitorLost' /\ OneInhibitor'
        BY <2>1, <2>4, <3>1 DEF NoInhibitorLost, OneInhibitor
      <3>3. RemoteTypeOK'
        BY <2>1, <2>2, <2>4, <3>1 DEF RemoteInv, RemoteTypeOK, userVars
      <3> QED BY <3>2, <3>3 DEF RemoteInv
    <2> QED BY <1>5, <2>3, <2>4 DEF InhibitDone
  <1>6. CASE UNCHANGED remoteVars
    BY <1>6 DEF RemoteInv, RemoteTypeOK, NoInhibitorLost, OneInhibitor, remoteVars,
                userVars, inhibitVars
  <1> QED BY <1>1, <1>2, <1>3, <1>4, <1>5, <1>6 DEF RemoteNext

\* The invariant holds when the daemon starts.
LEMMA RemoteInvInitially == RemoteInit => RemoteInv
  <1> SUFFICES ASSUME RemoteInit PROVE RemoteInv
    OBVIOUS
  <1>1. DOMAIN store = {} /\ Cardinality(DOMAIN store) = 0
    BY FS_EmptySet DEF RemoteInit
  <1>2. store \in [DOMAIN store -> Users \cup {Greeter}]
    BY DEF RemoteInit
  <1>3. created \in 0..MaxRemoteDisplays /\ count = 0
    BY FactoryAssumptions DEF RemoteInit
  <1>4. fd = NoFd /\ openFds = {} /\ inhibitCalls = 0 /\ nextFd = 0 /\ suspendInhibited = FALSE
    BY DEF RemoteInit
  <1>5. RemoteTypeOK
    <2>1. creationUsers = {} /\ sessions = {}
      BY DEF RemoteInit
    <2>2. DOMAIN store \subseteq 1..created /\ count = Cardinality(DOMAIN store)
      BY <1>1, <1>3
    <2>3. inhibitCalls \in Nat /\ nextFd \in Nat /\ suspendInhibited \in BOOLEAN
      BY <1>4
    <2> QED BY <1>2, <1>3, <1>4, <2>1, <2>2, <2>3 DEF RemoteTypeOK
  <1>6. NoInhibitorLost /\ OneInhibitor
    BY <1>4 DEF NoInhibitorLost, OneInhibitor
  <1> QED BY <1>5, <1>6 DEF RemoteInv

\* The factory's variables keep their types and remote_displays_count is exact.
THEOREM FactoryTypeCorrect == RemoteSpec => []RemoteTypeOK
  <1>1. RemoteInv => RemoteTypeOK
    BY DEF RemoteInv
  <1> QED BY <1>1, RemoteInvInitially, RemoteInvInductive, PTL DEF RemoteSpec

\* No reply of logind, however late, makes the factory lose an inhibitor it holds.
THEOREM InhibitorIsTracked == RemoteSpec => []NoInhibitorLost
  <1>1. RemoteInv => NoInhibitorLost
    BY DEF RemoteInv
  <1> QED BY <1>1, RemoteInvInitially, RemoteInvInductive, PTL DEF RemoteSpec

\* suspend_inhibited is set without a call under way only with an inhibitor in hand.
THEOREM InhibitionIsReal == RemoteSpec => []InhibitedWhileRemote
  <1>1. RemoteInv => InhibitedWhileRemote
    BY DEF RemoteInv, OneInhibitor, InhibitedWhileRemote
  <1> QED BY <1>1, RemoteInvInitially, RemoteInvInductive, PTL DEF RemoteSpec

\* Only the removal of the last remote display releases the inhibitor.
THEOREM ReleaseIsLast == RemoteSpec => ReleasedOnlyAfterLast
  <1>1. RemoteInv /\ RemoteInv' /\ [RemoteNext]_remoteVars
        => [fd # NoFd /\ fd' = NoFd => DOMAIN store' = {}]_remoteVars
    <2> SUFFICES ASSUME RemoteInv, RemoteInv', RemoteNext, fd # NoFd, fd' = NoFd
                 PROVE  DOMAIN store' = {}
      OBVIOUS
    <2>1. ~InhibitDone /\ ~InhibitSuspend
      BY DEF RemoteInv, OneInhibitor, InhibitDone, InhibitSuspend, inhibitVars
    <2>2. PICK d \in RemoteDisplays : DisplayRemoved(d)
      BY <2>1 DEF RemoteNext, CreateRemoteDisplay, CreateUserDisplay, CreateDisplay,
                  DestroyUserDisplay, SessionOpens, SessionEnds, inhibitVars
    <2>3. count' = 0
      BY <2>2 DEF DisplayRemoved, inhibitVars
    <2>4. IsFiniteSet(DOMAIN store')
      <3>1. IsFiniteSet(DOMAIN store) /\ DOMAIN store' = DOMAIN store \ {d}
        BY <2>2, StoreFinite DEF DisplayRemoved
      <3> QED BY <3>1, FS_Subset
    <2>5. Cardinality(DOMAIN store') = 0
      BY <2>3 DEF RemoteInv, RemoteTypeOK
    <2> QED BY <2>4, <2>5, FS_EmptySet
  <1> QED BY <1>1, RemoteInvInitially, RemoteInvInductive, PTL DEF RemoteSpec, ReleasedOnlyAfterLast
=============================================================================
