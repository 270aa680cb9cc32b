------------------------------ MODULE MCDaemon ------------------------------
(***************************************************************************)
(* Small instances of Daemon.                                              *)
(***************************************************************************)
EXTENDS Daemon

One == {1}
OneAndTwo == {1, 2}
Two == 1..2
None == {}

Fail == {"fail"}
Crashes == {"crash"}
Anything == {"crash", "leave", "fail", "suspect"}

\* Room and speed: the same for all, or the first device twice the others.
OneSlot == [d \in Device |-> 1]
FirstHasTwo == [d \in Device |-> IF d = 1 THEN 2 ELSE 1]
TwoSlots == [d \in Device |-> 2]
OneSpeed == [d \in Device |-> 1]
FirstIsFast == [d \in Device |-> IF d = 1 THEN 2 ELSE 1]
=============================================================================
