------------------------------- MODULE EndsOnce -------------------------------
(***************************************************************************)
(* What is promised of a thing that ends (a call, an eval run), without    *)
(* handlers, replicas, workers or janitors.  It ends one way and stays     *)
(* so.  Whether its ending is told is settled once, when it has ended or   *)
(* as it does; some endings are never told.  What was settled may be told  *)
(* so many times or be lost, and nobody settles it again.                  *)
(***************************************************************************)
EXTENDS Naturals

CONSTANTS
  Thing,
  Unended,   \* what the ending of a thing is before it has one
  Silent     \* the endings nobody is told of

VARIABLES
  ending,    \* how each thing ended
  settled,   \* it is settled whether that is told
  owed,      \* how many tellings may still come
  told,      \* how many there were
  copies     \* how many a thing may have: its own, and fixed

vars == <<ending, settled, owed, told, copies>>

Init == /\ ending = [t \in Thing |-> Unended]
        /\ settled = [t \in Thing |-> FALSE]
        /\ owed = [t \in Thing |-> 0] /\ told = [t \in Thing |-> 0]
        /\ copies \in [Thing -> 1 .. 2]

Stands(t)   == ending'[t] = ending[t]
Ends(t)     == ending[t] = Unended /\ ending'[t] # Unended
Keeps(t)    == settled'[t] = settled[t] /\ owed'[t] = owed[t]
TellsNot(t) == told'[t] = told[t]

End(t) == Ends(t) /\ Keeps(t) /\ TellsNot(t)

\* The ending and the settling may be one transaction, or two.
Settle(t) ==
  /\ Ends(t) \/ (Stands(t) /\ ending[t] # Unended)
  /\ ~settled[t] /\ settled'[t]
  /\ owed'[t] <= (IF ending'[t] \in Silent THEN 0 ELSE copies[t])
  /\ TellsNot(t)

Tell(t) ==
  /\ Stands(t) /\ settled'[t] = settled[t]
  /\ owed'[t] < owed[t] /\ told'[t] = told[t] + 1

Lose(t) ==
  /\ Stands(t) /\ settled'[t] = settled[t]
  /\ owed'[t] < owed[t] /\ TellsNot(t)

Same(t) == Stands(t) /\ Keeps(t) /\ TellsNot(t)

\* One transaction may end several things; each makes a step of its own, or none.
Next == /\ \A t \in Thing : Same(t) \/ End(t) \/ Settle(t) \/ Tell(t) \/ Lose(t)
        /\ copies' = copies

Spec == Init /\ [][Next]_vars

\* What follows: nothing is told that has not ended and been settled, nor oftener than it
\* may be, nor of a silent ending.
Bounded == \A t \in Thing :
  /\ told[t] + owed[t] <= copies[t]
  /\ ~settled[t] => told[t] = 0 /\ owed[t] = 0
  /\ settled[t] => ending[t] # Unended
  /\ ending[t] \in Silent => told[t] = 0 /\ owed[t] = 0
=============================================================================
