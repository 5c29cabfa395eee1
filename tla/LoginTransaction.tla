--------------------------- MODULE LoginTransaction ---------------------------
(***************************************************************************)
(* What a session worker promises the daemon, whatever it is asked and     *)
(* whatever PAM does: a transaction goes through its stages one at a time  *)
(* and may at any stage fall back to nothing; a program is launched only   *)
(* from an opened session, at most one per transaction; and when the       *)
(* transaction is over, what it held is given back.  SessionWorker         *)
(* implements this specification.                                          *)
(***************************************************************************)
EXTENDS Integers

VARIABLES
    stage,            \* how far the transaction is
    program,          \* the session program
    held              \* what PAM keeps for the transaction: credentials, session

vars == <<stage, program, held>>

\* none, set up, authenticated, authorized, accredited, opened, started
Stages == 0..6
Accredited == 4
Opened == 5
Started == 6

Init == stage = 0 /\ program = "none" /\ held = {}

\* One stage further; accrediting may, and opening does, make PAM hold something.
Advance ==
    /\ stage < Opened
    /\ stage' = stage + 1
    /\ \/ stage' < Accredited /\ UNCHANGED held
       \/ stage' = Accredited /\ held' \in SUBSET {"credentials"}
       \/ stage' = Opened /\ held' = held \cup {"session"}
    /\ UNCHANGED program

\* A stage was refused, or the worker ends: everything is given back.
GiveUp ==
    /\ program = "none"
    /\ stage' = 0
    /\ held' = {}
    /\ UNCHANGED program

Launch ==
    /\ stage = Opened
    /\ program = "none"
    /\ program' = "running"
    /\ UNCHANGED <<stage, held>>

LaunchNoticed ==
    /\ stage = Opened
    /\ program # "none"
    /\ stage' = Started
    /\ UNCHANGED <<program, held>>

ProgramEnds ==
    /\ program = "running"
    /\ program' = "dead"
    /\ UNCHANGED <<stage, held>>

\* The end of the program is seen: the transaction is closed.
Close ==
    /\ stage = Started
    /\ program = "dead"
    /\ program' = "none"
    /\ stage' = 0
    /\ held' = {}

Next == Advance \/ GiveUp \/ Launch \/ LaunchNoticed \/ ProgramEnds \/ Close

Spec == Init /\ [][Next]_vars
====
