------------------------------ MODULE MCRunner ------------------------------
(***************************************************************************)
(* Small instances of Runner.                                              *)
(***************************************************************************)
EXTENDS Runner, TLC

CONSTANTS p, q, a, b   \* questions, and the devices that hold copies

OneQuestion == {p}
TwoQuestions == {p, q}

\* Both devices hold every stage, or each its own.
EverywhereCopies == [device : {a, b}, stage : Stage]
\* Only the second stage has a copy to spare.
SpareCopies == [device : {a}, stage : Stage] \cup {[device |-> b, stage |-> Stages - 1]}
OneStageCopies == [device : {a, b}, stage : {0}]
=============================================================================
