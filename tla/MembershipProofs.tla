-------------------------- MODULE MembershipProofs --------------------------
(***************************************************************************)
(* Theorems about Membership, for every set of devices, every pool layout, *)
(* every seed list and every bound.                                        *)
(***************************************************************************)
EXTENDS Membership, TLAPS

-----------------------------------------------------------------------------
(* Type correctness. *)

\* Whoever a round picks is a device.
LEMMA TargetsAreDevices ==
  ASSUME TypeOK, NEW d \in Device, NEW targets \in TargetSets(d)
  PROVE  targets \subseteq Device
<1>1. Seeds[d] \subseteq Device
  BY JoinAssumption
<1>2. Others(d) \subseteq Device
  BY DEF Others
<1> DEFINE alive == {e \in Others(d) : Liveness(d, e) = "alive"}
           gone  == Others(d) \ alive
           few   == IF Cardinality(alive) < Fanout THEN Cardinality(alive) ELSE Fanout
           ones  == IF gone = {} THEN {{}} ELSE {{e} : e \in gone}
           seeds == IF alive = {} THEN Seeds[d] ELSE {}
<1>3. TargetSets(d) = {sample \cup one \cup seeds : sample \in kSubset(few, alive), one \in ones}
  BY DEF TargetSets
<1>4. PICK sample \in kSubset(few, alive), one \in ones : targets = sample \cup one \cup seeds
  <2> HIDE DEF few, ones, seeds
  <2> QED
    BY <1>3
<1>5. sample \subseteq Device
  <2> HIDE DEF few
  <2> QED
    BY <1>2 DEF kSubset
<1>6. one \subseteq Device
  BY <1>2
<1> QED
  BY <1>1, <1>4, <1>5, <1>6

\* Merging rows of the right shape keeps tables and verdicts in shape.
LEMMA MergeType ==
  ASSUME TypeOK, NEW r \in Device, NEW rows \in Table, Merge(r, rows)
  PROVE  /\ table' \in [Device -> Table]
         /\ verdict' \in [Device -> [Device -> Verdict]]
         /\ Merged(r, rows) \in Table
<1> USE DEF TypeOK, Table
<1>1. [d \in Device |-> IF IsNews(r, d, rows) THEN rows[d] ELSE table[r][d]] \in Table
  OBVIOUS
<1>2. [d \in Device |-> IF IsNews(r, d, rows) THEN "alive" ELSE verdict[r][d]]
        \in [Device -> Verdict]
  BY DEF Verdict
<1> QED
  BY <1>1, <1>2 DEF Merge, Merged

LEMMA TypeStep == TypeOK /\ [Next]_vars => TypeOK'
<1> SUFFICES ASSUME TypeOK, [Next]_vars PROVE TypeOK'
  OBVIOUS
<1> USE DEF TypeOK
<1>1. ASSUME NEW d \in Device, NEW i \in Nat, NEW h \in Nat, NEW s \in State,
             PublishRow(d, i, h, s)
      PROVE  /\ incarnation' \in [Device -> Nat]
             /\ heartbeat' \in [Device -> Nat]
             /\ table' \in [Device -> Table]
             /\ verdict' \in [Device -> [Device -> Verdict]]
             /\ published' \in [Device -> SUBSET Row]
  BY <1>1 DEF PublishRow, Table, Row, Verdict
<1>2. ASSUME NEW d \in Device, Start(d) PROVE TypeOK'
  <2>1. PICK i \in Nat : PublishRow(d, i, 1, "active")
    BY <1>2, BoundAssumption DEF Start
  <2> QED
    BY <1>1, <1>2, <2>1 DEF Start, State
<1>3. ASSUME NEW d \in Device, Publish(d) PROVE TypeOK'
  BY <1>1, <1>3 DEF Publish
<1>4. ASSUME NEW d \in Device, NEW s \in State, ChangeState(d, s) PROVE TypeOK'
  BY <1>4 DEF ChangeState
<1>5. ASSUME NEW d \in Device, Stop(d) PROVE TypeOK'
  <2>1. exchanges' \in SUBSET Exchange
    <3>1. ASSUME NEW x \in exchanges
          PROVE  (IF x.from = d THEN [x EXCEPT !.phase = "late"] ELSE x) \in Exchange
      BY DEF Exchange, Phase
    <3> QED
      BY <1>5, <3>1 DEF Stop
  <2>2. EmptyTable \in Table /\ [e \in Device |-> "down"] \in [Device -> Verdict]
    BY DEF EmptyTable, Table, Verdict
  <2> QED
    BY <1>5, <2>1, <2>2 DEF Stop
<1>6. ASSUME NEW d \in Device, Gossip(d) PROVE TypeOK'
  BY <1>6, TargetsAreDevices DEF Gossip, Ask, Exchange, Phase, Caller
<1>7. ASSUME NEW d \in Device, NEW t \in Device, Found(d, t) PROVE TypeOK'
  BY <1>7 DEF Found, Ask, Exchange, Phase, Caller
<1>8. ASSUME NEW x \in exchanges, Receive(x) PROVE TypeOK'
  <2>1. x \in Exchange
    OBVIOUS
  <2>2. CASE Pool[x.from] = Pool[x.to]
    <3>1. Merge(x.to, x.rows)
      BY <1>8, <2>2 DEF Receive
    <3>2. Merged(x.to, x.rows) \in Table
      BY <2>1, <3>1, MergeType DEF Exchange
    <3>3. [x EXCEPT !.phase = "answered", !.rows = Merged(x.to, x.rows)] \in Exchange
      BY <2>1, <3>2 DEF Exchange, Phase
    <3>4. exchanges' \in SUBSET Exchange
      BY <1>8, <2>2, <3>3 DEF Receive
    <3> QED
      BY <1>8, <2>1, <3>1, <3>4, MergeType DEF Receive, Exchange
  <2>3. CASE Pool[x.from] # Pool[x.to]
    BY <1>8, <2>3 DEF Receive
  <2> QED
    BY <2>2, <2>3
<1>9. ASSUME NEW x \in exchanges, Answer(x) PROVE TypeOK'
  BY <1>9, MergeType DEF Answer, Exchange
<1>10. ASSUME NEW x \in exchanges, TimeOut(x) PROVE TypeOK'
  BY <1>10 DEF TimeOut, Exchange, Phase
<1>11. ASSUME NEW x \in exchanges, ReceiveLate(x) PROVE TypeOK'
  BY <1>11, MergeType DEF ReceiveLate, Exchange
<1>12. ASSUME NEW x \in exchanges, Lose(x) PROVE TypeOK'
  BY <1>12 DEF Lose
<1>13. ASSUME NEW r \in Device, NEW d \in Device, GrowQuiet(r, d) PROVE TypeOK'
  BY <1>13 DEF GrowQuiet, Verdict
<1>14. ASSUME NEW r \in Device, NEW d \in Device, MarkUnreachable(r, d) PROVE TypeOK'
  BY <1>14 DEF MarkUnreachable, Verdict
<1>15. CASE UNCHANGED vars
  BY <1>15 DEF vars
<1> QED
  BY <1>2, <1>3, <1>4, <1>5, <1>6, <1>7, <1>8, <1>9, <1>10, <1>11, <1>12, <1>13,
     <1>14, <1>15 DEF Next

\* Every variable keeps its type.
THEOREM TypeCorrect == Spec => []TypeOK
<1>1. Init => TypeOK
  BY DEF Init, TypeOK, State, EmptyTable, Table, Verdict
<1> QED
  BY <1>1, TypeStep, PTL DEF Spec

-----------------------------------------------------------------------------
(* What one step can do to an entry, to a message and to a history. *)

\* Changed by a merge: the entry is one the message carried, and newer.
HeardIn(r, d, x) ==
  /\ r # d
  /\ r \in {x.from, x.to}
  /\ x.rows[d] # NoRow
  /\ table'[r][d] = x.rows[d]
  /\ Known(r, d) => Newer(x.rows[d], table[r][d])

\* The entry is a row its device has just published about itself.
JustPublished(d) ==
  /\ up'[d]
  /\ table'[d][d] \in published'[d]
  /\ table'[d][d].incarnation = incarnation'[d]
  /\ table'[d][d].heartbeat = heartbeat'[d]
  /\ up[d] => /\ incarnation'[d] = incarnation[d]
              /\ heartbeat'[d] = heartbeat[d] + 1

EntryStep(r, d) ==
  \/ table'[r][d] = table[r][d] /\ (r = d => up'[r] = up[r]
                                            /\ incarnation'[r] = incarnation[r]
                                            /\ heartbeat'[r] = heartbeat[r])
  \/ ~up'[r] /\ table'[r][d] = NoRow
  \/ r = d /\ JustPublished(d)
  \/ \E x \in exchanges : HeardIn(r, d, x)

LEMMA MergeEntries ==
  ASSUME TypeOK, NEW x \in exchanges, NEW q \in {x.from, x.to}, Merge(q, x.rows),
         UNCHANGED <<up, incarnation, heartbeat>>, NEW r \in Device, NEW d \in Device
  PROVE  EntryStep(r, d)
<1>1. CASE r = q /\ IsNews(r, d, x.rows)
  <2>1. table'[r][d] = x.rows[d]
    BY <1>1 DEF Merge, TypeOK, Table
  <2> QED
    BY <1>1, <2>1 DEF IsNews, HeardIn, Known, EntryStep
<1>2. CASE ~(r = q /\ IsNews(r, d, x.rows))
  <2>1. table'[r][d] = table[r][d]
    BY <1>2 DEF Merge, TypeOK, Table
  <2> QED
    BY <2>1 DEF EntryStep
<1> QED
  BY <1>1, <1>2

LEMMA PublishEntries ==
  ASSUME TypeOK, NEW p \in Device, NEW i \in Nat, NEW h \in Nat, NEW s \in State,
         PublishRow(p, i, h, s), up' = [up EXCEPT ![p] = TRUE],
         up[p] => i = incarnation[p] /\ h = heartbeat[p] + 1,
         NEW r \in Device, NEW d \in Device
  PROVE  EntryStep(r, d)
<1>1. CASE r = p /\ d = p
  <2>1. JustPublished(p)
    BY <1>1 DEF PublishRow, TypeOK, Table, JustPublished
  <2> QED
    BY <1>1, <2>1 DEF EntryStep
<1>2. CASE ~(r = p /\ d = p)
  BY <1>2 DEF PublishRow, TypeOK, Table, EntryStep
<1> QED
  BY <1>1, <1>2

\* Every entry of every table, in every step, is one of the four cases.
LEMMA EntrySteps ==
  ASSUME TypeOK, [Next]_vars, NEW r \in Device, NEW d \in Device
  PROVE  EntryStep(r, d)
<1>1. ASSUME NEW p \in Device, Start(p) PROVE EntryStep(r, d)
  <2>1. PICK i \in Nat : PublishRow(p, i, 1, "active")
    BY <1>1, BoundAssumption DEF Start
  <2> QED
    BY <1>1, <2>1, PublishEntries DEF Start, State
<1>2. ASSUME NEW p \in Device, Publish(p) PROVE EntryStep(r, d)
  <2>1. up' = [up EXCEPT ![p] = TRUE]
    BY <1>2 DEF Publish, TypeOK
  <2>2. incarnation[p] \in Nat /\ heartbeat[p] + 1 \in Nat /\ state[p] \in State
    BY DEF TypeOK
  <2>3. PublishRow(p, incarnation[p], heartbeat[p] + 1, state[p])
    BY <1>2 DEF Publish
  <2> QED
    BY <2>1, <2>2, <2>3, PublishEntries
<1>3. ASSUME NEW p \in Device, Stop(p) PROVE EntryStep(r, d)
  BY <1>3 DEF Stop, TypeOK, Table, EmptyTable, EntryStep
<1>4. ASSUME NEW x \in exchanges, Receive(x) PROVE EntryStep(r, d)
  <2>1. CASE Pool[x.from] = Pool[x.to]
    BY <1>4, <2>1, MergeEntries DEF Receive
  <2>2. CASE Pool[x.from] # Pool[x.to]
    BY <1>4, <2>2 DEF Receive, EntryStep
  <2> QED
    BY <2>1, <2>2
<1>5. ASSUME NEW x \in exchanges, Answer(x) PROVE EntryStep(r, d)
  BY <1>5, MergeEntries DEF Answer
<1>6. ASSUME NEW x \in exchanges, ReceiveLate(x) PROVE EntryStep(r, d)
  <2>1. CASE Pool[x.from] = Pool[x.to]
    BY <1>6, <2>1, MergeEntries DEF ReceiveLate
  <2>2. CASE Pool[x.from] # Pool[x.to]
    BY <1>6, <2>2 DEF ReceiveLate, EntryStep
  <2> QED
    BY <2>1, <2>2
<1>7. CASE UNCHANGED <<up, incarnation, heartbeat, table>>
  BY <1>7 DEF EntryStep
<1> QED
  BY <1>1, <1>2, <1>3, <1>4, <1>5, <1>6, <1>7
     DEF Next, vars, ChangeState, Gossip, Found, TimeOut, Lose, GrowQuiet, MarkUnreachable

\* A message carries only what an earlier message or some table said.
LEMMA MessageSteps ==
  ASSUME TypeOK, [Next]_vars, NEW y \in exchanges', NEW d \in Device, y.rows[d] # NoRow
  PROVE  \/ \E x \in exchanges : x.rows[d] = y.rows[d]
         \/ \E r \in Device : table[r][d] = y.rows[d]
<1> DEFINE Carried == \/ \E x \in exchanges : x.rows[d] = y.rows[d]
                      \/ \E r \in Device : table[r][d] = y.rows[d]
<1> SUFFICES Carried
  OBVIOUS
<1>1. ASSUME NEW p \in Device, Stop(p) PROVE Carried
  <2>1. PICK x \in exchanges : y = IF x.from = p THEN [x EXCEPT !.phase = "late"] ELSE x
    BY <1>1 DEF Stop
  <2>2. y.rows = x.rows
    BY <2>1 DEF TypeOK, Exchange
  <2> QED
    BY <2>2
<1>2. ASSUME NEW p \in Device, Gossip(p) PROVE Carried
  BY <1>2 DEF Gossip, Ask
<1>3. ASSUME NEW p \in Device, NEW t \in Device, Found(p, t) PROVE Carried
  BY <1>3 DEF Found, Ask
<1>4. ASSUME NEW x \in exchanges, Receive(x) PROVE Carried
  <2>1. CASE y \in exchanges
    BY <2>1
  <2>2. CASE y \notin exchanges
    <3>1. y = [x EXCEPT !.phase = "answered", !.rows = Merged(x.to, x.rows)]
      BY <1>4, <2>2 DEF Receive
    <3>2. y.rows = Merged(x.to, x.rows) /\ x.to \in Device
      BY <3>1 DEF TypeOK, Exchange
    <3> QED
      BY <3>2 DEF Merged
  <2> QED
    BY <2>1, <2>2
<1>5. ASSUME NEW x \in exchanges, TimeOut(x) PROVE Carried
  <2>1. CASE y \in exchanges
    BY <2>1
  <2>2. CASE y \notin exchanges
    <3>1. y = [x EXCEPT !.phase = "late"]
      BY <1>5, <2>2 DEF TimeOut
    <3> QED
      BY <3>1 DEF TypeOK, Exchange
  <2> QED
    BY <2>1, <2>2
<1>6. CASE exchanges' \subseteq exchanges
  BY <1>6
<1> QED
  BY <1>1, <1>2, <1>3, <1>4, <1>5, <1>6
     DEF Next, vars, Start, Publish, ChangeState, Answer, ReceiveLate, Lose, GrowQuiet,
         MarkUnreachable

\* What a step adds to the history of a device, and the stamp it gets: either
\* nothing, or one row of the same run with the next heartbeat, or the first
\* row of a run whose incarnation no row had yet.
HistoryStep(d) ==
  \/ UNCHANGED <<published[d], incarnation[d], heartbeat[d]>>
  \/ \E row \in Row :
       /\ published'[d] = published[d] \cup {row}
       /\ row.incarnation = incarnation'[d]
       /\ row.heartbeat = heartbeat'[d]
       /\ \/ incarnation'[d] = incarnation[d] /\ heartbeat'[d] = heartbeat[d] + 1
          \/ /\ ~ClockMayStepBack
             /\ incarnation'[d] = incarnation[d] + 1
          \/ /\ ClockMayStepBack
             /\ \A old \in published[d] : old.incarnation # incarnation'[d]

LEMMA HistorySteps ==
  ASSUME TypeOK, [Next]_vars, NEW d \in Device
  PROVE  HistoryStep(d)
<1>1. ASSUME NEW p \in Device, Start(p) PROVE HistoryStep(d)
  <2>1. PICK i \in 1..MaxIncarnation :
          /\ IF ClockMayStepBack
             THEN \A row \in published[p] : row.incarnation # i
             ELSE i = incarnation[p] + 1
          /\ PublishRow(p, i, 1, "active")
    BY <1>1 DEF Start
  <2>2. i \in Nat
    BY BoundAssumption
  <2> DEFINE row == [incarnation |-> i, heartbeat |-> 1, state |-> "active"]
  <2>3. row \in Row
    BY <2>2 DEF Row, State
  <2>4. CASE d = p
    <3>1. /\ published'[d] = published[d] \cup {row}
          /\ incarnation'[d] = i
          /\ heartbeat'[d] = 1
      BY <2>1, <2>4 DEF PublishRow, TypeOK
    <3> QED
      BY <2>1, <2>3, <2>4, <3>1 DEF HistoryStep
  <2>5. CASE d # p
    BY <2>1, <2>5 DEF PublishRow, TypeOK, HistoryStep
  <2> QED
    BY <2>4, <2>5
<1>2. ASSUME NEW p \in Device, Publish(p) PROVE HistoryStep(d)
  <2> DEFINE row == [incarnation |-> incarnation[p], heartbeat |-> heartbeat[p] + 1,
                     state |-> state[p]]
  <2>1. row \in Row
    BY DEF TypeOK, Row
  <2>2. CASE d = p
    <3>1. /\ published'[d] = published[d] \cup {row}
          /\ incarnation'[d] = incarnation[d]
          /\ heartbeat'[d] = heartbeat[d] + 1
      BY <1>2, <2>2 DEF Publish, PublishRow, TypeOK
    <3> QED
      BY <2>1, <2>2, <3>1 DEF HistoryStep
  <2>3. CASE d # p
    BY <1>2, <2>3 DEF Publish, PublishRow, TypeOK, HistoryStep
  <2> QED
    BY <2>2, <2>3
<1>3. CASE UNCHANGED <<published, incarnation, heartbeat>>
  BY <1>3 DEF HistoryStep
<1> QED
  BY <1>1, <1>2, <1>3
     DEF Next, vars, ChangeState, Stop, Gossip, Found, Receive, Answer, TimeOut,
         ReceiveLate, Lose, GrowQuiet, MarkUnreachable

-----------------------------------------------------------------------------
(* Verdicts. *)

\* A verdict turns to "alive" only together with its entry.
LEMMA VerdictSteps ==
  ASSUME TypeOK, [Next]_vars, NEW r \in Device, NEW d \in Device, r # d,
         verdict[r][d] # "alive", verdict'[r][d] = "alive"
  PROVE  table'[r][d] # table[r][d]
<1> USE DEF TypeOK
<1>1. ASSUME NEW q \in Device, NEW rows \in Table, Merge(q, rows)
      PROVE  table'[r][d] # table[r][d]
  <2>1. r = q /\ IsNews(r, d, rows)
    BY <1>1 DEF Merge
  <2>2. table'[r][d] = rows[d] /\ rows[d] \in Row
    BY <1>1, <2>1 DEF Merge, Table, IsNews
  <2> QED
    BY <2>1, <2>2 DEF IsNews, Newer, Row, Table
<1>2. ASSUME NEW p \in Device, NEW i, NEW h, NEW s, PublishRow(p, i, h, s)
      PROVE  FALSE
  BY <1>2 DEF PublishRow
<1>3. ASSUME NEW p \in Device, Stop(p) PROVE FALSE
  BY <1>3 DEF Stop
<1>4. ASSUME NEW p \in Device, NEW q \in Device, GrowQuiet(p, q) PROVE FALSE
  BY <1>4 DEF GrowQuiet
<1>5. ASSUME NEW p \in Device, NEW q \in Device, MarkUnreachable(p, q) PROVE FALSE
  BY <1>5 DEF MarkUnreachable
<1>6. ASSUME NEW x \in exchanges, Receive(x) \/ ReceiveLate(x) \/ Answer(x)
      PROVE  table'[r][d] # table[r][d]
  <2>1. x.from \in Device /\ x.to \in Device /\ x.rows \in Table
    BY DEF Exchange
  <2> QED
    BY <1>1, <1>6, <2>1 DEF Receive, ReceiveLate, Answer
<1> QED
  BY <1>2, <1>3, <1>4, <1>5, <1>6
     DEF Next, vars, Start, Publish, ChangeState, Gossip, Found, TimeOut, Lose

-----------------------------------------------------------------------------
(* Only a device itself writes its entry. *)

LEMMA OneWriterStep ==
  ASSUME TypeOK, OnlyOwnerWrites, [Next]_vars
  PROVE  OnlyOwnerWrites'
<1>1. ASSUME NEW d \in Device PROVE published[d] \subseteq published'[d]
  BY HistorySteps DEF HistoryStep
<1>2. ASSUME NEW r \in Device, NEW d \in Device, table'[r][d] # NoRow
      PROVE  table'[r][d] \in published'[d]
  <2>1. EntryStep(r, d)
    BY EntrySteps
  <2> QED
    BY <1>1, <1>2, <2>1 DEF EntryStep, JustPublished, HeardIn, OnlyOwnerWrites, Known
<1>3. ASSUME NEW y \in exchanges', NEW d \in Device, y.rows[d] # NoRow
      PROVE  y.rows[d] \in published'[d]
  BY <1>1, <1>3, MessageSteps DEF OnlyOwnerWrites, Known
<1> QED
  BY <1>2, <1>3 DEF OnlyOwnerWrites, Known

\* Whatever any table or any message says about a device, that device
\* published itself.
THEOREM OneWriter == Spec => []OnlyOwnerWrites
<1>1. Init => OnlyOwnerWrites
  BY DEF Init, OnlyOwnerWrites, Known, EmptyTable
<1>2. TypeOK /\ OnlyOwnerWrites /\ [Next]_vars => OnlyOwnerWrites'
  BY OneWriterStep
<1> QED
  BY <1>1, <1>2, TypeCorrect, PTL DEF Spec

-----------------------------------------------------------------------------
(* Stamps: the strengthening that makes NobodyAhead inductive. *)

\* The rows of the current run are numbered up to the current heartbeat, and
\* while the wall clock only moves forward no row belongs to a later run.
HistoryBehind ==
  \A d \in Device : \A row \in published[d] :
    /\ row.incarnation = incarnation[d] => row.heartbeat <= heartbeat[d]
    /\ ~ClockMayStepBack => row.incarnation <= incarnation[d]

StampInv == HistoryBehind /\ StampsNameRows

LEMMA StampStep ==
  ASSUME TypeOK, StampInv, [Next]_vars
  PROVE  StampInv'
<1>1. ASSUME NEW d \in Device, NEW a \in published'[d]
      PROVE  /\ a.incarnation = incarnation'[d] => a.heartbeat <= heartbeat'[d]
             /\ ~ClockMayStepBack => a.incarnation <= incarnation'[d]
  <2>1. HistoryStep(d)
    BY HistorySteps
  <2>2. /\ incarnation[d] \in Nat /\ heartbeat[d] \in Nat
        /\ \A row \in published[d] : row.incarnation \in Nat /\ row.heartbeat \in Nat
    BY DEF TypeOK, Row
  <2> QED
    BY <1>1, <2>1, <2>2 DEF HistoryStep, StampInv, HistoryBehind, Row
<1>2. ASSUME NEW d \in Device, NEW a \in published'[d], NEW b \in published'[d],
             SameStamp(a, b)
      PROVE  a = b
  <2>1. HistoryStep(d)
    BY HistorySteps
  <2>2. /\ incarnation[d] \in Nat /\ heartbeat[d] \in Nat
        /\ \A row \in published[d] : row.incarnation \in Nat /\ row.heartbeat \in Nat
    BY DEF TypeOK, Row
  <2>3. CASE a \in published[d] /\ b \in published[d]
    BY <1>2, <2>3 DEF StampInv, StampsNameRows
  <2>4. CASE ~(a \in published[d] /\ b \in published[d])
    <3>1. PICK row \in Row :
            /\ published'[d] = published[d] \cup {row}
            /\ \A old \in published[d] : ~SameStamp(old, row)
      BY <2>1, <2>2, <2>4
         DEF HistoryStep, SameStamp, StampInv, HistoryBehind, Row
    <3> QED
      BY <1>2, <2>4, <3>1 DEF SameStamp
  <2> QED
    BY <2>3, <2>4
<1> QED
  BY <1>1, <1>2 DEF StampInv, HistoryBehind, StampsNameRows

LEMMA StampsInvariant == Spec => []StampInv
<1>1. Init => StampInv
  BY DEF Init, StampInv, HistoryBehind, StampsNameRows
<1>2. TypeOK /\ StampInv /\ [Next]_vars => StampInv'
  BY StampStep
<1> QED
  BY <1>1, <1>2, TypeCorrect, PTL DEF Spec

\* A stamp names one row, whatever the wall clock does.
THEOREM StampsAreNames == Spec => []StampsNameRows
<1>1. StampInv => StampsNameRows
  BY DEF StampInv
<1> QED
  BY <1>1, StampsInvariant, PTL

-----------------------------------------------------------------------------
(* A running device's own entry. *)

LEMMA OwnEntryStep ==
  ASSUME TypeOK, OwnEntryIsMine, [Next]_vars
  PROVE  OwnEntryIsMine'
<1> SUFFICES ASSUME NEW d \in Device, up'[d]
             PROVE  /\ table'[d][d] # NoRow
                    /\ table'[d][d].incarnation = incarnation'[d]
                    /\ table'[d][d].heartbeat = heartbeat'[d]
  BY DEF OwnEntryIsMine, Known
<1>1. EntryStep(d, d)
  BY EntrySteps
<1>2. CASE JustPublished(d)
  <2>1. published'[d] \subseteq Row
    BY TypeStep DEF TypeOK
  <2> QED
    BY <1>2, <2>1, NoRowIsNoRow DEF JustPublished
<1> QED
  BY <1>1, <1>2 DEF EntryStep, HeardIn, OwnEntryIsMine, Known

\* Nobody else's account of a running device replaces its own entry, even when
\* that account carries a larger stamp because the wall clock was set back.
THEOREM OwnEntry == Spec => []OwnEntryIsMine
<1>1. Init => OwnEntryIsMine
  BY DEF Init, OwnEntryIsMine
<1>2. TypeOK /\ OwnEntryIsMine /\ [Next]_vars => OwnEntryIsMine'
  BY OwnEntryStep
<1> QED
  BY <1>1, <1>2, TypeCorrect, PTL DEF Spec

\* While wall clocks only move forward, no account of a running device is
\* ahead of it: its next heartbeat is news to every reader.
THEOREM NoAccountAhead == ASSUME ~ClockMayStepBack PROVE Spec => []NobodyAhead
<1>1. TypeOK /\ OnlyOwnerWrites /\ StampInv /\ OwnEntryIsMine => NobodyAhead
  <2> SUFFICES ASSUME TypeOK, OnlyOwnerWrites, StampInv, OwnEntryIsMine,
                      NEW r \in Device, NEW d \in Device, up[d], Known(r, d)
               PROVE  ~Newer(table[r][d], table[d][d])
    BY DEF NobodyAhead
  <2>1. table[r][d] \in published[d] /\ table[r][d] \in Row
    BY DEF OnlyOwnerWrites, TypeOK
  <2> QED
    BY <2>1 DEF StampInv, HistoryBehind, OwnEntryIsMine, Newer, TypeOK, Row
<1> QED
  BY <1>1, TypeCorrect, OneWriter, StampsInvariant, OwnEntry, PTL

-----------------------------------------------------------------------------
(* What a step may never do to an entry. *)

\* A reader's entries only move forward while it runs.
THEOREM MovesForward == Spec => EntriesMoveForward
<1> DEFINE Forward ==
      \A r, d \in Device :
        (up[r] /\ up'[r] /\ Known(r, d)) =>
          \/ table'[r][d] = table[r][d]
          \/ table'[r][d] # NoRow /\ Newer(table'[r][d], table[r][d])
<1>1. ASSUME TypeOK, OwnEntryIsMine, [Next]_vars PROVE Forward
  <2> SUFFICES ASSUME NEW r \in Device, NEW d \in Device, up[r], up'[r], Known(r, d),
                      table'[r][d] # table[r][d]
               PROVE  table'[r][d] # NoRow /\ Newer(table'[r][d], table[r][d])
    OBVIOUS
  <2>1. EntryStep(r, d)
    BY <1>1, EntrySteps
  <2>2. CASE \E x \in exchanges : HeardIn(r, d, x)
    BY <2>2 DEF HeardIn
  <2>3. CASE r = d /\ JustPublished(d)
    <3>1. table'[d][d] \in Row
      BY <1>1, <2>3, TypeStep DEF JustPublished, TypeOK
    <3> QED
      BY <1>1, <2>3, <3>1, NoRowIsNoRow DEF JustPublished, OwnEntryIsMine, Newer, TypeOK
  <2> QED
    BY <2>1, <2>2, <2>3 DEF EntryStep
<1> QED
  BY <1>1, TypeCorrect, OwnEntry, PTL DEF Spec, EntriesMoveForward

\* A device taken for gone is revived only by a newer row of its own.
THEOREM RevivedByNews == Spec => OnlyNewsRevives
<1> DEFINE Revival ==
      \A r, d \in Device :
        (up[r] /\ r # d /\ Liveness(r, d) # "alive" /\ Liveness(r, d)' = "alive") =>
          /\ table'[r][d] \in published'[d]
          /\ Known(r, d) => Newer(table'[r][d], table[r][d])
<1>1. ASSUME TypeOK, OnlyOwnerWrites, [Next]_vars PROVE Revival
  <2> SUFFICES ASSUME NEW r \in Device, NEW d \in Device, up[r], r # d,
                      Liveness(r, d) # "alive", Liveness(r, d)' = "alive"
               PROVE  /\ table'[r][d] \in published'[d]
                      /\ Known(r, d) => Newer(table'[r][d], table[r][d])
    OBVIOUS
  <2>1. table'[r][d] \in published'[d]
    BY <1>1, OneWriterStep DEF Liveness, OnlyOwnerWrites, Known
  <2>2. table'[r][d] # table[r][d]
    BY <1>1, VerdictSteps DEF Liveness
  <2>3. table'[r][d] # NoRow
    BY DEF Liveness
  <2> QED
    BY <1>1, <2>1, <2>2, <2>3, EntrySteps DEF EntryStep, HeardIn
<1> QED
  BY <1>1, TypeCorrect, OneWriter, PTL DEF Spec, OnlyNewsRevives

-----------------------------------------------------------------------------
(* Having left is final. *)

\* No row of a run follows a "left" row of the same run unless it says "left"
\* too, and a running device that has published "left" will publish it again.
LeftLast ==
  \A d \in Device : \A a \in published[d] : a.state = "left" =>
    /\ \A b \in published[d] : 
         b.incarnation = a.incarnation /\ b.heartbeat > a.heartbeat => b.state = "left"
    /\ up[d] /\ a.incarnation = incarnation[d] => state[d] = "left"

LEMMA LeftLastStep ==
  ASSUME TypeOK, StampInv, LeftLast, [Next]_vars
  PROVE  LeftLast'
<1> SUFFICES ASSUME NEW d \in Device, NEW a \in published'[d], a.state = "left"
             PROVE  /\ \A b \in published'[d] : 
                         b.incarnation = a.incarnation /\ b.heartbeat > a.heartbeat
                           => b.state = "left"
                    /\ up'[d] /\ a.incarnation = incarnation'[d] => state'[d] = "left"
  BY DEF LeftLast
<1> DEFINE Goal == /\ \A b \in published'[d] : 
                         b.incarnation = a.incarnation /\ b.heartbeat > a.heartbeat
                           => b.state = "left"
                   /\ up'[d] /\ a.incarnation = incarnation'[d] => state'[d] = "left"
<1> USE DEF TypeOK, Row
<1>1. ASSUME NEW p \in Device, Start(p) PROVE Goal
  <2>1. PICK i \in 1..MaxIncarnation :
          /\ IF ClockMayStepBack
             THEN \A row \in published[p] : row.incarnation # i
             ELSE i = incarnation[p] + 1
          /\ PublishRow(p, i, 1, "active")
    BY <1>1 DEF Start
  <2>2. i \in Nat
    BY BoundAssumption
  <2>3. CASE d = p
    <3> DEFINE row == [incarnation |-> i, heartbeat |-> 1, state |-> "active"]
    <3>1. published'[d] = published[d] \cup {row} /\ incarnation'[d] = i
      BY <2>1, <2>3 DEF PublishRow
    <3>2. \A old \in published[d] : old.incarnation # i
      BY <2>1, <2>2, <2>3 DEF StampInv, HistoryBehind
    <3> QED
      BY <3>1, <3>2 DEF LeftLast
  <2>4. CASE d # p
    BY <1>1, <2>1, <2>4 DEF PublishRow, Start, LeftLast
  <2> QED
    BY <2>3, <2>4
<1>2. ASSUME NEW p \in Device, Publish(p) PROVE Goal
  <2>1. CASE d = p
    <3> DEFINE row == [incarnation |-> incarnation[d], heartbeat |-> heartbeat[d] + 1,
                       state |-> state[d]]
    <3>1. /\ published'[d] = published[d] \cup {row}
          /\ incarnation'[d] = incarnation[d]
          /\ up[d] /\ up'[d] = up[d] /\ state' = state
      BY <1>2, <2>1 DEF Publish, PublishRow
    <3>2. \A old \in published[d] :
            old.incarnation = incarnation[d] => old.heartbeat <= heartbeat[d]
      BY DEF StampInv, HistoryBehind
    <3>3. row.incarnation = incarnation[d] /\ row.heartbeat = heartbeat[d] + 1
          /\ row.state = state[d]
      OBVIOUS
    <3> HIDE DEF row
    <3>4. CASE a \in published[d]
      BY <3>1, <3>3, <3>4 DEF LeftLast
    <3>5. CASE a = row
      BY <3>1, <3>2, <3>3, <3>5
    <3> QED
      BY <3>1, <3>4, <3>5
  <2>2. CASE d # p
    BY <1>2, <2>2 DEF Publish, PublishRow, LeftLast
  <2> QED
    BY <2>1, <2>2
<1>3. ASSUME NEW p \in Device, NEW s \in State, ChangeState(p, s) PROVE Goal
  BY <1>3 DEF ChangeState, LeftLast
<1>4. ASSUME NEW p \in Device, Stop(p) PROVE Goal
  BY <1>4 DEF Stop, LeftLast
<1>5. CASE UNCHANGED <<published, incarnation, up, state>>
  BY <1>5 DEF LeftLast
<1> QED
  BY <1>1, <1>2, <1>3, <1>4, <1>5
     DEF Next, vars, Gossip, Found, Receive, Answer, TimeOut, ReceiveLate, Lose,
         GrowQuiet, MarkUnreachable

LEMMA LeftLastInvariant == Spec => []LeftLast
<1>1. Init => LeftLast
  BY DEF Init, LeftLast
<1>2. TypeOK /\ StampInv /\ LeftLast /\ [Next]_vars => LeftLast'
  BY LeftLastStep
<1> QED
  BY <1>1, <1>2, TypeCorrect, StampsInvariant, PTL DEF Spec

\* A reader that knows a device left never sees it present again in that run.
THEOREM LeavingIsFinal == Spec => LeftIsFinal
<1> DEFINE Final ==
      \A r, d \in Device :
        (up[r] /\ up'[r] /\ Known(r, d) /\ table[r][d].state = "left") =>
          \/ table'[r][d].state = "left"
          \/ table'[r][d].incarnation > table[r][d].incarnation
    Forward ==
      \A r, d \in Device :
        (up[r] /\ up'[r] /\ Known(r, d)) =>
          \/ table'[r][d] = table[r][d]
          \/ table'[r][d] # NoRow /\ Newer(table'[r][d], table[r][d])
<1>1. ASSUME TypeOK, OnlyOwnerWrites, StampInv, LeftLast, [Next]_vars, Forward
      PROVE  Final
  <2> SUFFICES ASSUME NEW r \in Device, NEW d \in Device, up[r], up'[r], Known(r, d),
                      table[r][d].state = "left", table'[r][d] # table[r][d],
                      ~(table'[r][d].incarnation > table[r][d].incarnation)
               PROVE  table'[r][d].state = "left"
    OBVIOUS
  <2>1. table'[r][d] # NoRow /\ Newer(table'[r][d], table[r][d])
    BY <1>1
  <2>2. table'[r][d] \in published'[d] /\ table[r][d] \in published[d]
    BY <1>1, <2>1, OneWriterStep DEF OnlyOwnerWrites, Known
  <2>3. published[d] \subseteq published'[d]
    BY <1>1, HistorySteps DEF HistoryStep
  <2> QED
    BY <1>1, <2>1, <2>2, <2>3, LeftLastStep DEF LeftLast, Newer
<1> QED
  BY <1>1, TypeCorrect, OneWriter, StampsInvariant, LeftLastInvariant, MovesForward, PTL
     DEF Spec, EntriesMoveForward, LeftIsFinal

-----------------------------------------------------------------------------
(* Pools. *)

\* A message only tells of its sender's pool, and an answer only comes from it.
MessagesStayInPool ==
  \A x \in exchanges :
    /\ \A d \in Device : x.rows[d] # NoRow => Pool[d] = Pool[x.from]
    /\ x.phase = "answered" => Pool[x.from] = Pool[x.to]

PoolInv == PoolsNeverMix /\ MessagesStayInPool

LEMMA PoolMerge ==
  ASSUME TypeOK, PoolsNeverMix, NEW q \in Device, NEW rows \in Table, Merge(q, rows),
         \A d \in Device : rows[d] # NoRow => Pool[d] = Pool[q]
  PROVE  /\ PoolsNeverMix'
         /\ \A d \in Device : Merged(q, rows)[d] # NoRow => Pool[d] = Pool[q]
<1>1. \A d \in Device : Merged(q, rows)[d] # NoRow => Pool[d] = Pool[q]
  BY DEF Merged, PoolsNeverMix, Known
<1>2. \A r, d \in Device : table'[r][d] = IF r = q THEN Merged(q, rows)[d] ELSE table[r][d]
  BY DEF Merge, Merged, TypeOK, Table
<1> QED
  BY <1>1, <1>2 DEF PoolsNeverMix, Known

LEMMA PoolPublish ==
  ASSUME TypeOK, PoolsNeverMix, NEW p \in Device, NEW i, NEW h, NEW s, PublishRow(p, i, h, s)
  PROVE  PoolsNeverMix'
<1>1. \A r, d \in Device : table'[r][d] = table[r][d] \/ r = d
  BY DEF PublishRow, TypeOK, Table
<1> QED
  BY <1>1 DEF PoolsNeverMix, Known

LEMMA PoolStep ==
  ASSUME TypeOK, PoolInv, [Next]_vars
  PROVE  PoolInv'
<1> USE DEF PoolInv
<1>1. ASSUME NEW p \in Device, Start(p) \/ Publish(p) PROVE PoolInv'
  <2>1. PoolsNeverMix'
    BY <1>1, PoolPublish DEF Start, Publish
  <2> QED
    BY <1>1, <2>1 DEF Start, Publish, MessagesStayInPool
<1>2. ASSUME NEW p \in Device, Stop(p) PROVE PoolInv'
  <2>1. PoolsNeverMix'
    BY <1>2 DEF Stop, TypeOK, Table, EmptyTable, PoolsNeverMix, Known
  <2>2. ASSUME NEW y \in exchanges'
        PROVE  /\ \A d \in Device : y.rows[d] # NoRow => Pool[d] = Pool[y.from]
               /\ y.phase = "answered" => Pool[y.from] = Pool[y.to]
    <3>1. PICK x \in exchanges : y = IF x.from = p THEN [x EXCEPT !.phase = "late"] ELSE x
      BY <1>2 DEF Stop
    <3>2. /\ y.rows = x.rows /\ y.from = x.from /\ y.to = x.to
          /\ y.phase = x.phase \/ y.phase = "late"
      BY <3>1 DEF TypeOK, Exchange
    <3> QED
      BY <3>2 DEF MessagesStayInPool
  <2> QED
    BY <2>1, <2>2 DEF MessagesStayInPool
<1>3. ASSUME NEW p \in Device,
             \A y \in exchanges' :
               \/ y \in exchanges
               \/ \E t \in Device, by \in Caller : y = Ask(p, t, by, table[p]),
             table' = table
      PROVE  PoolInv'
  BY <1>3 DEF Ask, MessagesStayInPool, PoolsNeverMix, Known
<1>4. ASSUME NEW p \in Device, Gossip(p) PROVE PoolInv'
  <2>1. \A y \in exchanges' :
          \/ y \in exchanges
          \/ \E t \in Device, by \in Caller : y = Ask(p, t, by, table[p])
    BY <1>4, TargetsAreDevices DEF Gossip, Caller
  <2> QED
    BY <1>3, <1>4, <2>1 DEF Gossip
<1>5. ASSUME NEW p \in Device, NEW t \in Device, Found(p, t) PROVE PoolInv'
  BY <1>3, <1>5 DEF Found, Caller
<1>6. ASSUME NEW x \in exchanges, Receive(x), Pool[x.from] = Pool[x.to] PROVE PoolInv'
  <2> DEFINE answer == [x EXCEPT !.phase = "answered", !.rows = Merged(x.to, x.rows)]
  <2>1. x.to \in Device /\ x.rows \in Table
    BY DEF TypeOK, Exchange
  <2>2. /\ PoolsNeverMix'
        /\ \A d \in Device : Merged(x.to, x.rows)[d] # NoRow => Pool[d] = Pool[x.to]
    BY <1>6, <2>1, PoolMerge DEF Receive, MessagesStayInPool
  <2>3. answer.rows = Merged(x.to, x.rows) /\ answer.from = x.from /\ answer.to = x.to
    BY DEF TypeOK, Exchange
  <2>4. exchanges' = (exchanges \ {x}) \cup {answer}
    BY <1>6 DEF Receive
  <2> HIDE DEF answer
  <2> QED
    BY <1>6, <2>2, <2>3, <2>4 DEF MessagesStayInPool
<1>7. ASSUME NEW x \in exchanges, Receive(x) \/ ReceiveLate(x), Pool[x.from] # Pool[x.to]
      PROVE  PoolInv'
  BY <1>7 DEF Receive, ReceiveLate, MessagesStayInPool, PoolsNeverMix, Known
<1>8. ASSUME NEW x \in exchanges, NEW q \in {x.from, x.to}, Merge(q, x.rows),
             Pool[x.from] = Pool[x.to], exchanges' \subseteq exchanges
      PROVE  PoolInv'
  <2>1. q \in Device /\ x.rows \in Table
    BY DEF TypeOK, Exchange
  <2>2. PoolsNeverMix'
    BY <1>8, <2>1, PoolMerge DEF MessagesStayInPool
  <2> QED
    BY <1>8, <2>2 DEF MessagesStayInPool
<1>9. ASSUME NEW x \in exchanges, ReceiveLate(x), Pool[x.from] = Pool[x.to] PROVE PoolInv'
  BY <1>8, <1>9 DEF ReceiveLate
<1>10. ASSUME NEW x \in exchanges, Answer(x) PROVE PoolInv'
  BY <1>8, <1>10 DEF Answer, MessagesStayInPool
<1>11. ASSUME NEW x \in exchanges, TimeOut(x) PROVE PoolInv'
  <2> DEFINE z == [x EXCEPT !.phase = "late"]
  <2>1. exchanges' \subseteq exchanges \cup {z} /\ table' = table
    BY <1>11 DEF TimeOut
  <2>2. z.rows = x.rows /\ z.from = x.from /\ z.to = x.to /\ z.phase = "late"
    BY DEF TypeOK, Exchange
  <2> HIDE DEF z
  <2> QED
    BY <2>1, <2>2 DEF MessagesStayInPool, PoolsNeverMix, Known
<1>12. CASE table' = table /\ exchanges' \subseteq exchanges
  BY <1>12 DEF MessagesStayInPool, PoolsNeverMix, Known
<1> QED
  BY <1>1, <1>2, <1>4, <1>5, <1>6, <1>7, <1>9, <1>10, <1>11, <1>12
     DEF Next, vars, ChangeState, Lose, GrowQuiet, MarkUnreachable

\* Devices of different pools never hear of one another, even indirectly.
THEOREM PoolsStayApart == Spec => []PoolsNeverMix
<1>1. Init => PoolInv
  BY DEF Init, PoolInv, PoolsNeverMix, MessagesStayInPool, Known, EmptyTable
<1>2. TypeOK /\ PoolInv /\ [Next]_vars => PoolInv'
  BY PoolStep
<1>3. PoolInv => PoolsNeverMix
  BY DEF PoolInv
<1> QED
  BY <1>1, <1>2, <1>3, TypeCorrect, PTL DEF Spec

-----------------------------------------------------------------------------
(* The table keeps the promise of Views. *)

\* The instance speaks of the same rows, the same order and the same tables.
LEMMA SameVocabulary ==
  /\ V!Row = Row
  /\ V!Table = Table
  /\ V!EmptyTable = EmptyTable
  /\ \A a, b : V!Newer(a, b) <=> Newer(a, b)
BY DEF V!Row, Row, V!State, State, V!Table, Table, V!EmptyTable, EmptyTable, V!Newer, Newer

LEMMA PublishIsPublish ==
  ASSUME TypeOK, TypeOK', StampInv, [Next]_vars, ~ClockMayStepBack,
         NEW p \in Device, NEW i, NEW h, NEW s, PublishRow(p, i, h, s),
         incarnation'[p] # incarnation[p] \/ heartbeat'[p] # heartbeat[p]
  PROVE  V!Publish(p)
<1> DEFINE row == [incarnation |-> i, heartbeat |-> h, state |-> s]
<1>1. /\ published' = [published EXCEPT ![p] = @ \cup {row}]
      /\ table' = [table EXCEPT ![p][p] = row]
      /\ incarnation'[p] = i /\ heartbeat'[p] = h
  BY DEF PublishRow, TypeOK
<1>2. table'[p][p] = row
  BY <1>1 DEF TypeOK, Table
<1>3. row \in Row
  BY <1>1 DEF TypeOK
<1>4. row.incarnation = i /\ row.heartbeat = h
  OBVIOUS
<1>5. ASSUME NEW old \in published[p] PROVE Newer(row, old)
  <2>1. HistoryStep(p)
    BY HistorySteps
  <2>2. old \in Row /\ incarnation[p] \in Nat /\ heartbeat[p] \in Nat
    BY DEF TypeOK
  <2> HIDE DEF row
  <2> QED
    BY <1>1, <1>4, <2>1, <2>2 DEF HistoryStep, StampInv, HistoryBehind, Newer, Row
<1>6. table'[p][p] \in V!Row /\ \A old \in published[p] : V!Newer(table'[p][p], old)
  BY <1>2, <1>3, <1>5, SameVocabulary
<1>7. /\ published' = [published EXCEPT ![p] = @ \cup {table'[p][p]}]
      /\ table' = [table EXCEPT ![p][p] = table'[p][p]]
  BY <1>1, <1>2
<1> QED
  BY <1>6, <1>7 DEF V!Publish

LEMMA MergeIsLearn ==
  ASSUME TypeOK, TypeOK', NEW q \in Device, NEW rows \in Table, Merge(q, rows),
         \A d \in Device : rows[d] # NoRow => rows[d] \in published[d],
         UNCHANGED published
  PROVE  V!Learn(q)
<1>1. \A r \in Device \ {q} : table'[r] = table[r]
  BY DEF Merge, TypeOK
<1>2. \A d \in Device : table'[q][d] = IF IsNews(q, d, rows) THEN rows[d] ELSE table[q][d]
  BY DEF Merge, TypeOK, Table
<1> QED
  BY <1>1, <1>2, SameVocabulary DEF V!Learn, IsNews, TypeOK

LEMMA StepRefines ==
  ASSUME TypeOK, OnlyOwnerWrites, StampInv, ~ClockMayStepBack, [Next]_vars
  PROVE  [V!Next]_(V!vars)
<1>1. TypeOK'
  BY TypeStep
<1>2. ASSUME NEW p \in Device, Start(p) PROVE V!Next
  <2>1. PICK i \in 1..MaxIncarnation : i = incarnation[p] + 1 /\ PublishRow(p, i, 1, "active")
    BY <1>2 DEF Start
  <2>2. incarnation'[p] # incarnation[p]
    BY <2>1 DEF PublishRow, TypeOK
  <2> QED
    BY <1>1, <2>1, <2>2, PublishIsPublish DEF V!Next
<1>3. ASSUME NEW p \in Device, Publish(p) PROVE V!Next
  <2>1. heartbeat'[p] # heartbeat[p]
    BY <1>3 DEF Publish, PublishRow, TypeOK
  <2>2. PublishRow(p, incarnation[p], heartbeat[p] + 1, state[p])
    BY <1>3 DEF Publish
  <2>3. V!Publish(p)
    BY <1>1, <2>1, <2>2, PublishIsPublish
  <2> QED
    BY <2>3 DEF V!Next
<1>4. ASSUME NEW p \in Device, Stop(p) PROVE V!Next
  BY <1>4, SameVocabulary DEF Stop, V!Forget, V!Next
<1>5. ASSUME NEW x \in exchanges, NEW q \in {x.from, x.to}, Merge(q, x.rows),
             UNCHANGED published
      PROVE  V!Next
  <2>1. q \in Device /\ x.rows \in Table
    BY DEF TypeOK, Exchange
  <2>2. V!Learn(q)
    BY <1>1, <1>5, <2>1, MergeIsLearn DEF OnlyOwnerWrites
  <2> QED
    BY <2>1, <2>2 DEF V!Next
<1>6. ASSUME NEW x \in exchanges, Receive(x) \/ ReceiveLate(x) \/ Answer(x)
      PROVE  V!Next \/ UNCHANGED <<published, table>>
  BY <1>5, <1>6 DEF Receive, ReceiveLate, Answer
<1>7. CASE UNCHANGED <<published, table>>
  BY <1>7 DEF V!vars
<1> QED
  BY <1>2, <1>3, <1>4, <1>6, <1>7
     DEF Next, vars, ChangeState, Gossip, Found, TimeOut, Lose, GrowQuiet, MarkUnreachable,
         V!vars

\* While wall clocks only move forward, every behaviour of the table, its
\* messages and its failures is a behaviour of the abstract views.
THEOREM TableImplementsViews == ASSUME ~ClockMayStepBack PROVE Spec => ViewsPromise
<1>1. Init => V!Init
  BY DEF Init, V!Init, EmptyTable, V!EmptyTable
<1>2. TypeOK /\ OnlyOwnerWrites /\ StampInv /\ [Next]_vars => [V!Next]_(V!vars)
  BY StepRefines
<1> QED
  BY <1>1, <1>2, TypeCorrect, OneWriter, StampsInvariant, PTL
     DEF Spec, ViewsPromise, V!Spec
=============================================================================
