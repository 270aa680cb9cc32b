---------------------------- MODULE MCMembership ----------------------------
(***************************************************************************)
(* Small instances of Membership.                                          *)
(***************************************************************************)
EXTENDS Membership, TLC

CONSTANTS a, b, c   \* the devices

Pair == {a, b}
Trio == {a, b, c}

\* Everyone joins through a, which was told to join through nobody.
JoinThroughA == [d \in Device |-> IF d = a THEN {} ELSE {a}]

\* One pool for all, and c in a pool of its own.
OnePool == [d \in Device |-> "pool"]
CElsewhere == [d \in Device |-> IF d = c THEN "other" ELSE "pool"]

\* No broadcast gets through, or every one does.
NoDiscovery == {}
FullDiscovery == Device

\* The founder a, which was told to join through nobody, was joined by b and c
\* and has left gracefully; both have heard so.
FirstRow == [incarnation |-> 1, heartbeat |-> 1, state |-> "active"]
LeftRow == [incarnation |-> 1, heartbeat |-> 2, state |-> "left"]
FounderLeft ==
  /\ up = [d \in Device |-> d # a]
  /\ incarnation = [d \in Device |-> 1]
  /\ heartbeat = [d \in Device |-> IF d = a THEN 2 ELSE 1]
  /\ state = [d \in Device |-> IF d = a THEN "left" ELSE "active"]
  /\ table = [r \in Device |->
                IF r = a THEN EmptyTable
                ELSE [d \in Device |-> IF d = a THEN LeftRow ELSE FirstRow]]
  /\ verdict = [r \in Device |->
                  IF r = a THEN [d \in Device |-> "down"] ELSE [d \in Device |-> "alive"]]
  /\ exchanges = {}
  /\ published = [d \in Device |-> IF d = a THEN {FirstRow, LeftRow} ELSE {FirstRow}]
FounderReturnsSpec == FounderLeft /\ [][Next]_vars /\ Fairness

\* Symmetric seeds for the runs that use symmetry.
JoinEachOther == [d \in Device |-> Device \ {d}]
Symmetry == Permutations(Device)
=============================================================================
