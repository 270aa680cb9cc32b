-------------------------------- MODULE Views -------------------------------
(***************************************************************************)
(* What the leaderless membership table promises its readers, without      *)
(* messages, rounds, timeouts or addresses: each device publishes a        *)
(* sequence of ever newer rows about itself, and each reader's view of a   *)
(* device jumps from one published row to a newer published row, until the *)
(* reader itself stops and forgets everything.                             *)
(***************************************************************************)
EXTENDS Rows

VARIABLES
  published,  \* published[d]: every row d ever wrote about itself
  view        \* view[r][d]: what r now believes of d

vars == <<published, view>>

TypeOK ==
  /\ published \in [Device -> SUBSET Row]
  /\ view \in [Device -> Table]

Init ==
  /\ published = [d \in Device |-> {}]
  /\ view = [r \in Device |-> EmptyTable]

\* d changes something about itself: a row newer than all its earlier rows.
Publish(d) ==
  LET row == view'[d][d]
  IN  /\ row \in Row
      /\ \A old \in published[d] : Newer(row, old)
      /\ published' = [published EXCEPT ![d] = @ \cup {row}]
      /\ view' = [view EXCEPT ![d][d] = row]

\* r hears something: any of its entries for other devices may advance.
Learn(r) ==
  /\ view' \in [Device -> Table]
  /\ \A q \in Device \ {r} : view'[q] = view[q]
  /\ \A d \in Device :
       \/ view'[r][d] = view[r][d]
       \/ /\ d # r
          /\ view'[r][d] \in published[d]
          /\ view[r][d] # NoRow => Newer(view'[r][d], view[r][d])
  /\ UNCHANGED published

\* r's process ends, and its table with it.
Forget(r) ==
  /\ view' = [view EXCEPT ![r] = EmptyTable]
  /\ UNCHANGED published

Next == \E d \in Device : Publish(d) \/ Learn(d) \/ Forget(d)

Spec == Init /\ [][Next]_vars
=============================================================================
