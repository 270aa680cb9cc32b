------------------------------ MODULE MCOwner -------------------------------
(***************************************************************************)
(* Instances of Owner, with the readings the code waits for.               *)
(***************************************************************************)
EXTENDS Owner

TakeBack == {TRUE}
BothButtons == {TRUE, FALSE}
=============================================================================
