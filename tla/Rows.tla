-------------------------------- MODULE Rows --------------------------------
(***************************************************************************)
(* One device's entry in the membership table (pool/members.py, Member),   *)
(* and the order that makes a change newer than another.                   *)
(*                                                                         *)
(* Of the entry's many fields the table itself only ever looks at the      *)
(* stamp and at the state; what the device hosts is the business of        *)
(* Placement and Daemon and is left out of a row here.                     *)
(***************************************************************************)
EXTENDS Naturals

CONSTANTS
  Device,   \* the names devices can have
  NoRow     \* what a table answers for a name it never heard of

State == {"active", "draining", "away", "left"}

Row == [incarnation : Nat, heartbeat : Nat, state : State]

ASSUME NoRowIsNoRow == NoRow \notin Row

\* Member.stamp compares as a pair: a restart (a new incarnation) beats any
\* heartbeat of the run before it.
Newer(a, b) ==
  \/ a.incarnation > b.incarnation
  \/ /\ a.incarnation = b.incarnation
     /\ a.heartbeat > b.heartbeat

SameStamp(a, b) ==
  /\ a.incarnation = b.incarnation
  /\ a.heartbeat = b.heartbeat

\* A table: what is known of each name.
Table == [Device -> Row \cup {NoRow}]

EmptyTable == [d \in Device |-> NoRow]
=============================================================================
