----------------------------- MODULE Membership -----------------------------
(***************************************************************************)
(* The membership table of pool/members.py, carried between devices by     *)
(* pool/gossip.py, the /gossip handler of pool/api.py and the parts of     *)
(* pool/daemon.py that publish and exchange tables.                        *)
(*                                                                         *)
(* Each device writes only its own row and merges whatever it hears by     *)
(* stamp. A round of gossip takes the digest of the table ONCE and sends   *)
(* it to every target, one after the other; a target may answer late,      *)
(* after the sender has stopped waiting, or never; processes may end at    *)
(* any moment and start again with an empty table.                         *)
(*                                                                         *)
(* Time is kept per reader and per device as the verdict the code derives  *)
(* from it (liveness): the only way time passes is that a verdict gets     *)
(* worse.                                                                  *)
(***************************************************************************)
EXTENDS Rows, FiniteSets, FiniteSetsExt

CONSTANTS
  Pool,               \* Pool[d]: the pool_id d is configured with
  Seeds,              \* Seeds[d]: the devices d was told to join through
  Discovering,        \* the devices whose broadcasts reach one another
  Fanout,             \* how many live devices a round talks to
  ClockMayStepBack,   \* whether time.time_ns() may be smaller after a restart
  Changes,            \* bound: the states devices change to while they run
  MaxIncarnation,     \* bound: runs of one device
  MaxHeartbeat,       \* bound: rows published in one run
  MaxExchanges        \* bound: exchanges in flight at once

ASSUME JoinAssumption ==
  /\ Seeds \in [Device -> SUBSET Device]
  /\ Discovering \subseteq Device
ASSUME BoundAssumption ==
  /\ MaxIncarnation \in Nat
  /\ MaxHeartbeat \in Nat
  /\ MaxExchanges \in Nat
  /\ Fanout \in Nat
  /\ Changes \subseteq State
  /\ ClockMayStepBack \in BOOLEAN

VARIABLES
  up,           \* up[d]: d's process is running
  incarnation,  \* incarnation[d], heartbeat[d]: the stamp of d's last row
  heartbeat,
  state,        \* state[d]: the daemon's own _state, not yet published
  table,        \* table[r][d]: r's entry for d
  verdict,      \* verdict[r][d]: what the time since the entry advanced says
  exchanges,    \* the calls to /gossip that are under way
  published     \* history: every row each device ever published

vars == <<up, incarnation, heartbeat, state, table, verdict, exchanges, published>>

Verdict == {"alive", "suspect", "down"}

\* A call to another device's /gossip. "asked": the sender is waiting for the
\* answer; "answered": the answer (rows) is on its way back; "late": the sender
\* stopped waiting, but the request can still arrive.
Phase == {"asked", "answered", "late"}

\* The thread that makes the call: the beat, or the one that hears broadcasts.
Caller == {"beat", "discovery"}

Exchange ==
  [from : Device, to : Device, by : Caller, phase : Phase, rows : Table]

TypeOK ==
  /\ up \in [Device -> BOOLEAN]
  /\ incarnation \in [Device -> Nat]
  /\ heartbeat \in [Device -> Nat]
  /\ state \in [Device -> State]
  /\ table \in [Device -> Table]
  /\ verdict \in [Device -> [Device -> Verdict]]
  /\ exchanges \in SUBSET Exchange
  /\ published \in [Device -> SUBSET Row]

Init ==
  /\ up = [d \in Device |-> FALSE]
  /\ incarnation = [d \in Device |-> 0]
  /\ heartbeat = [d \in Device |-> 0]
  /\ state = [d \in Device |-> "active"]
  /\ table = [r \in Device |-> EmptyTable]
  /\ verdict = [r \in Device |-> [d \in Device |-> "down"]]
  /\ exchanges = {}
  /\ published = [d \in Device |-> {}]

-----------------------------------------------------------------------------
(* Reading a table. *)

\* MemberTable.liveness
Liveness(r, d) ==
  IF table[r][d] = NoRow THEN "down"
  ELSE IF d = r THEN "alive"
  ELSE IF table[r][d].state = "left" THEN "down"
  ELSE verdict[r][d]

\* The devices a round of gossip may be sent to, and how it may pick them.
Others(r) == {d \in Device \ {r} : table[r][d] # NoRow /\ table[r][d].state # "left"}

\* Mutant: the devices d was told to join through are forgotten.
TargetSetsWithoutSeeds(r) ==
  LET alive == {d \in Others(r) : Liveness(r, d) = "alive"}
  IN  {alive, Others(r)}

TargetSets(r) ==
  LET alive == {d \in Others(r) : Liveness(r, d) = "alive"}
      gone  == Others(r) \ alive
      few   == IF Cardinality(alive) < Fanout THEN Cardinality(alive) ELSE Fanout
  IN  { sample \cup one \cup (IF alive = {} THEN Seeds[r] ELSE {}) :
          sample \in kSubset(few, alive),
          one \in IF gone = {} THEN {{}} ELSE {{d} : d \in gone} }

\* Mutants: whatever is heard replaces the entry; so does the same stamp again;
\* a restart is not told from an old run.
IsNewsAnyway(r, d, rows) == d # r /\ rows[d] # NoRow

IsNewsUnlessOlder(r, d, rows) ==
  /\ IsNewsAnyway(r, d, rows)
  /\ table[r][d] # NoRow => ~Newer(table[r][d], rows[d])

IsNewsByHeartbeat(r, d, rows) ==
  /\ IsNewsAnyway(r, d, rows)
  /\ table[r][d] # NoRow => rows[d].heartbeat > table[r][d].heartbeat

\* MemberTable.merge: the reader's own row is never replaced, any other entry
\* only by a strictly newer one.
IsNews(r, d, rows) ==
  /\ d # r
  /\ rows[d] # NoRow
  /\ table[r][d] # NoRow => Newer(rows[d], table[r][d])

Merge(r, rows) ==
  /\ table' = [table EXCEPT ![r] =
                 [d \in Device |-> IF IsNews(r, d, rows) THEN rows[d] ELSE @[d]]]
  /\ verdict' = [verdict EXCEPT ![r] =
                   [d \in Device |-> IF IsNews(r, d, rows) THEN "alive" ELSE @[d]]]

\* What r's table holds once rows are merged: the digest it answers with.
Merged(r, rows) ==
  [d \in Device |-> IF IsNews(r, d, rows) THEN rows[d] ELSE table[r][d]]

-----------------------------------------------------------------------------
(* A device about itself. *)

\* Daemon.publish: one row, its heartbeat moved on, the state as it is now.
PublishRow(d, i, h, s) ==
  LET row == [incarnation |-> i, heartbeat |-> h, state |-> s]
  IN  /\ table' = [table EXCEPT ![d][d] = row]
      /\ verdict' = [verdict EXCEPT ![d][d] = "alive"]
      /\ published' = [published EXCEPT ![d] = @ \cup {row}]
      /\ incarnation' = [incarnation EXCEPT ![d] = i]
      /\ heartbeat' = [heartbeat EXCEPT ![d] = h]

\* Mutants: a restart begins the first incarnation again; a change of state is
\* published under the heartbeat that is already out.
StartAgain(d) ==
  /\ ~up[d]
  /\ PublishRow(d, 1, 1, "active")
  /\ up' = [up EXCEPT ![d] = TRUE]
  /\ state' = [state EXCEPT ![d] = "active"]
  /\ UNCHANGED exchanges

PublishUnderOldStamp(d) ==
  /\ up[d]
  /\ PublishRow(d, incarnation[d], heartbeat[d], state[d])
  /\ UNCHANGED <<up, state, exchanges>>

\* The constructor: a new incarnation from the wall clock, an empty table,
\* and a first row.
Start(d) ==
  /\ ~up[d]
  /\ \E i \in 1..MaxIncarnation :
       /\ IF ClockMayStepBack
          THEN \A row \in published[d] : row.incarnation # i
          ELSE i = incarnation[d] + 1
       /\ PublishRow(d, i, 1, "active")
  /\ up' = [up EXCEPT ![d] = TRUE]
  /\ state' = [state EXCEPT ![d] = "active"]
  /\ UNCHANGED exchanges

Publish(d) ==
  /\ up[d]
  /\ heartbeat[d] < MaxHeartbeat
  /\ PublishRow(d, incarnation[d], heartbeat[d] + 1, state[d])
  /\ UNCHANGED <<up, state, exchanges>>

\* set_owner_busy, the end of a drain, and a graceful stop each change the
\* state first and publish afterwards. Once it has left, a device stays left.
ChangeState(d, s) ==
  /\ up[d]
  /\ s \in Changes
  /\ \/ state[d] = "active"   /\ s = "draining"
     \/ state[d] = "draining" /\ s = "away"
     \/ state[d] \in {"draining", "away"} /\ s = "active"
     \/ state[d] # "left" /\ s = "left"
  /\ state' = [state EXCEPT ![d] = s]
  /\ UNCHANGED <<up, incarnation, heartbeat, table, verdict, exchanges, published>>

\* The process ends, after a graceful leave or in the middle of anything. A
\* request that was still to arrive here dies with the process; one that this
\* device had sent may still arrive.
Stop(d) ==
  /\ up[d]
  /\ up' = [up EXCEPT ![d] = FALSE]
  /\ table' = [table EXCEPT ![d] = EmptyTable]
  /\ verdict' = [verdict EXCEPT ![d] = [e \in Device |-> "down"]]
  /\ exchanges' =
       {IF x.from = d THEN [x EXCEPT !.phase = "late"] ELSE x :
          x \in {y \in exchanges : /\ ~(y.to = d /\ y.phase = "late")
                                   /\ ~(y.from = d /\ y.phase = "answered")
                                   /\ ~(y.from = d /\ y.to = d)}}
  /\ UNCHANGED <<incarnation, heartbeat, state, published>>

-----------------------------------------------------------------------------
(* Gossip. *)

Ask(d, t, by, rows) ==
  [from |-> d, to |-> t, by |-> by, phase |-> "asked", rows |-> rows]

\* Daemon._gossip: the digest is taken once, before the loop over the targets.
\* All of the round's calls are opened here and proceed in any order.
Gossip(d) ==
  /\ up[d]
  /\ \A x \in exchanges : (x.from = d /\ x.by = "beat") => x.phase = "late"
  /\ \E targets \in TargetSets(d) :
       /\ targets # {}
       /\ exchanges' = exchanges \cup {Ask(d, t, "beat", table[d]) : t \in targets}
  /\ Cardinality(exchanges') <= MaxExchanges
  /\ UNCHANGED <<up, incarnation, heartbeat, state, table, verdict, published>>

\* Daemon._found: a broadcast names a device whose address is not in the table.
\* Its thread asks one device at a time, whatever the beat is doing.
Found(d, t) ==
  /\ up[d]
  /\ {d, t} \subseteq Discovering
  /\ d # t
  /\ table[d][t] = NoRow
  /\ \A x \in exchanges : (x.from = d /\ x.by = "discovery") => x.phase = "late"
  /\ exchanges' = exchanges \cup {Ask(d, t, "discovery", table[d])}
  /\ Cardinality(exchanges') <= MaxExchanges
  /\ UNCHANGED <<up, incarnation, heartbeat, state, table, verdict, published>>

\* Mutant: nobody looks at the pool the rows come from.
ReceiveFromAnyPool(x) ==
  /\ x.phase = "asked"
  /\ up[x.to]
  /\ Merge(x.to, x.rows)
  /\ exchanges' = (exchanges \ {x}) \cup
       {[x EXCEPT !.phase = "answered", !.rows = Merged(x.to, x.rows)]}
  /\ UNCHANGED <<up, incarnation, heartbeat, state, published>>

\* The /gossip handler and Daemon.receive: another pool is refused (409, which
\* the sender drops), otherwise merge and answer with the whole table, in one step:
\* rows merged by another thread between the two calls would be in the answer as well.
\* Every sender is a device of some pool and names it; the handler also takes a request
\* that names none.
Receive(x) ==
  /\ x.phase = "asked"
  /\ up[x.to]
  /\ IF Pool[x.from] = Pool[x.to]
     THEN /\ Merge(x.to, x.rows)
          /\ exchanges' = (exchanges \ {x}) \cup
               {[x EXCEPT !.phase = "answered", !.rows = Merged(x.to, x.rows)]}
     ELSE /\ exchanges' = exchanges \ {x}
          /\ UNCHANGED <<table, verdict>>
  /\ UNCHANGED <<up, incarnation, heartbeat, state, published>>

\* The sender gets the answer while it is still waiting, and merges it.
Answer(x) ==
  /\ x.phase = "answered"
  /\ Merge(x.from, x.rows)
  /\ exchanges' = exchanges \ {x}
  /\ UNCHANGED <<up, incarnation, heartbeat, state, published>>

\* Mutant: a phase of its own that nothing else knows of.
TimeOutForGood(x) ==
  /\ x.phase \in {"asked", "answered"}
  /\ exchanges' = (exchanges \ {x}) \cup {[x EXCEPT !.phase = "lost"]}
  /\ UNCHANGED <<up, incarnation, heartbeat, state, table, verdict, published>>

\* exchange() gives up after its timeout: an answer under way is lost, a
\* request under way may yet be handled.
TimeOut(x) ==
  /\ x.phase \in {"asked", "answered"}
  /\ exchanges' = IF x.phase = "asked"
                  THEN (exchanges \ {x}) \cup {[x EXCEPT !.phase = "late"]}
                  ELSE exchanges \ {x}
  /\ UNCHANGED <<up, incarnation, heartbeat, state, table, verdict, published>>

\* A request handled after its sender gave up: merged, the answer unread.
ReceiveLate(x) ==
  /\ x.phase = "late"
  /\ up[x.to]
  /\ IF Pool[x.from] = Pool[x.to]
     THEN Merge(x.to, x.rows)
     ELSE UNCHANGED <<table, verdict>>
  /\ exchanges' = exchanges \ {x}
  /\ UNCHANGED <<up, incarnation, heartbeat, state, published>>

\* The request never arrives: refused, unreachable, lost.
Lose(x) ==
  /\ x.phase \in {"asked", "late"}
  /\ exchanges' = exchanges \ {x}
  /\ UNCHANGED <<up, incarnation, heartbeat, state, table, verdict, published>>

-----------------------------------------------------------------------------
(* Time and direct evidence. *)

\* r has not seen d's stamp advance for suspect_after, then for down_after.
GrowQuiet(r, d) ==
  /\ up[r]
  /\ r # d
  /\ table[r][d] # NoRow
  /\ verdict[r][d] # "down"
  /\ verdict' = [verdict EXCEPT ![r][d] = IF @ = "alive" THEN "suspect" ELSE "down"]
  /\ UNCHANGED <<up, incarnation, heartbeat, state, table, exchanges, published>>

\* Mutant: the reader's finding is written into the row of the other.
MarkUnreachableInRow(r, d) ==
  /\ up[r]
  /\ r # d
  /\ table[r][d] # NoRow
  /\ table' = [table EXCEPT ![r][d].state = "left"]
  /\ UNCHANGED <<up, incarnation, heartbeat, state, verdict, exchanges, published>>

\* MemberTable.mark_unreachable: a request failed against d.
MarkUnreachable(r, d) ==
  /\ up[r]
  /\ r # d
  /\ table[r][d] # NoRow
  /\ verdict' = [verdict EXCEPT ![r][d] = "down"]
  /\ UNCHANGED <<up, incarnation, heartbeat, state, table, exchanges, published>>

-----------------------------------------------------------------------------

Next ==
  \/ \E d \in Device : Start(d)
  \/ \E d \in Device : Publish(d)
  \/ \E d \in Device, s \in State : ChangeState(d, s)
  \/ \E d \in Device : Stop(d)
  \/ \E d \in Device : Gossip(d)
  \/ \E d, t \in Device : Found(d, t)
  \/ \E x \in exchanges : Receive(x)
  \/ \E x \in exchanges : Answer(x)
  \/ \E x \in exchanges : TimeOut(x)
  \/ \E x \in exchanges : ReceiveLate(x)
  \/ \E x \in exchanges : Lose(x)
  \/ \E r, d \in Device : GrowQuiet(r, d)
  \/ \E r, d \in Device : MarkUnreachable(r, d)

Spec == Init /\ [][Next]_vars

\* What the beat, the timeout and the network keep doing: a round picks its
\* targets at random, so while t stays among those d may pick, d keeps picking
\* it; a pair of running devices does not lose every exchange for ever; and a
\* request whose sender gave up does not linger for ever either.
GossipTo(d, t) ==
  Gossip(d) /\ \E x \in exchanges' \ exchanges : x.from = d /\ x.to = t
ReceiveFrom(d, t) == \E x \in exchanges : x.from = d /\ x.to = t /\ Receive(x)
AnswerFrom(d, t) == \E x \in exchanges : x.from = d /\ x.to = t /\ Answer(x)

EndOfExchange ==
  \E x \in exchanges : TimeOut(x) \/ (x.phase = "late" /\ (ReceiveLate(x) \/ Lose(x)))

Fairness ==
  /\ WF_vars(EndOfExchange)
  /\ \A d \in Device : \A t \in Device \ {d} :
       /\ SF_vars(GossipTo(d, t))
       /\ SF_vars(ReceiveFrom(d, t))
       /\ SF_vars(AnswerFrom(d, t))

FairSpec == Spec /\ Fairness

-----------------------------------------------------------------------------
(* Properties. *)

Known(r, d) == table[r][d] # NoRow

\* Only a device itself ever writes its entry (members.py: "Only that device
\* ever writes it"): whatever a table or a message says of d, d published.
OnlyOwnerWrites ==
  /\ \A r, d \in Device : Known(r, d) => table[r][d] \in published[d]
  /\ \A x \in exchanges : \A d \in Device :
       x.rows[d] # NoRow => x.rows[d] \in published[d]

\* A stamp names one row: two rows a device published with the same stamp are
\* the same row, so readers that hold equal stamps agree on everything.
StampsNameRows ==
  \A d \in Device : \A a, b \in published[d] : SameStamp(a, b) => a = b

\* No account of a running device is ahead of that device, so its next
\* heartbeat is news to everyone. This is what a new incarnation at restart is
\* for (members.py: "a restart begins a new incarnation, so its counter
\* starting over is not mistaken for old news").
NobodyAhead ==
  \A r, d \in Device :
    up[d] /\ Known(r, d) => ~Newer(table[r][d], table[d][d])

\* A running device's own entry is the last row it published: nobody else's
\* account of it, however it got here, replaces it.
OwnEntryIsMine ==
  \A d \in Device : up[d] =>
    /\ Known(d, d)
    /\ table[d][d].incarnation = incarnation[d]
    /\ table[d][d].heartbeat = heartbeat[d]

\* Devices configured differently never learn of one another, not even through
\* a third device (api.py refuses the exchange before anything is merged).
PoolsNeverMix ==
  \A r, d \in Device : Known(r, d) => Pool[r] = Pool[d]

\* While a reader runs, each of its entries only ever moves to a newer row:
\* late answers, stale digests and reordered requests undo nothing.
EntriesMoveForward ==
  [][\A r, d \in Device :
       (up[r] /\ up'[r] /\ Known(r, d)) =>
         \/ table'[r][d] = table[r][d]
         \/ table'[r][d] # NoRow /\ Newer(table'[r][d], table[r][d])]_vars

\* Having left is final for that run of the process: a reader that knows d left
\* never takes it for present again unless d was started anew.
LeftIsFinal ==
  [][\A r, d \in Device :
       (up[r] /\ up'[r] /\ Known(r, d) /\ table[r][d].state = "left") =>
         \/ table'[r][d].state = "left"
         \/ table'[r][d].incarnation > table[r][d].incarnation]_vars

\* A device that was taken for gone is brought back only by its own newer row
\* (members.py, mark_unreachable: "brought back by its own next heartbeat"),
\* never by old news arriving late.
OnlyNewsRevives ==
  [][\A r, d \in Device :
       (up[r] /\ r # d /\ Liveness(r, d) # "alive" /\ Liveness(r, d)' = "alive") =>
         /\ table'[r][d] \in published'[d]
         /\ Known(r, d) => Newer(table'[r][d], table[r][d])]_vars

\* Once every device is running for good, every table comes to agree with every
\* device about itself: late joiners are introduced through a seed or through
\* one another, a restarted device is noticed, and no wrong verdict of a reader
\* cuts it off (gossip.py: "so a partition heals and a restarted device is
\* noticed").
Converges ==
  (<>[](\A d \in Device : up[d])) =>
    <>[](\A r, d \in Device : table[r][d] = table[d][d])

\* The table implements the promise of Views.
V == INSTANCE Views WITH view <- table
ViewsPromise == V!Spec
=============================================================================
