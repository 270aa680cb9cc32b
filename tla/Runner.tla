------------------------------- MODULE Runner -------------------------------
(***************************************************************************)
(* Questions run by one device over copies of the stages: pool/runner.py   *)
(* with the chain of runner/chain.py, the choice of copies of              *)
(* pool/router.py, the sessions of transport/sessions.py and the check of  *)
(* transport/server.py that a copy's cache is where the requester thinks.  *)
(*                                                                         *)
(* The copies are on other devices (a device never marks itself as         *)
(* unreachable). A text is its length. Each question is a thread; all      *)
(* share the record of how many questions the device has on each copy, and *)
(* its table.                                                              *)
(***************************************************************************)
EXTENDS Integers, FiniteSets

CONSTANTS
  Question,         \* the questions, one thread each
  Copy,             \* the copies of stages there are, as device and stage
  Stages,           \* PoolConfig.stages
  MaxNewTokens,     \* generate's max_new_tokens
  MaxFailovers,     \* PoolRunner.max_failovers
  MaxBusyRetries,   \* PoolRunner.max_busy_retries
  PatienceEnds      \* whether a stage may have no copy for longer than patience

Stage == 0 .. Stages - 1

ASSUME RunnerAssumption ==
  /\ IsFiniteSet(Question)
  /\ Stages \in Nat \ {0}
  /\ \A c \in Copy : c.stage \in Stage
  /\ \A s \in Stage : \E c \in Copy : c.stage = s
  /\ MaxNewTokens \in Nat \ {0}
  /\ MaxFailovers \in Nat
  /\ MaxBusyRetries \in Nat
  /\ PatienceEnds \in BOOLEAN

DeviceName == {c.device : c \in Copy}

VARIABLES
  serving,    \* the copies that answer calls
  listed,     \* the copies the device's table shows as alive, active and ready
  full,       \* the copies at their limit
  cache,      \* cache[c][q]: positions c has cached under q's present request id
  load,       \* PoolRunner._load
  pc,         \* pc[q]: "routing", "rerouting", "passing", "done", "failed"
  route,      \* route[q][s]: the copy of stage s that q uses
  hop,        \* hop[q]: the stage that the pass under way has come to
  text,       \* text[q]: the length of ids, one for the prompt and one per token
  sent,       \* sent[q]: how many positions this pass sends
  position,   \* position[q]: cache_position
  avoid,      \* avoid[q]: the devices q has found unhappy
  failovers,  \* failovers[q], busy[q]: what has gone wrong so far
  busy

env == <<serving, listed, full>>
progress == <<text, sent, position>>
troubles == <<avoid, failovers, busy>>
vars == <<serving, listed, full, cache, load, pc, route, hop, text, sent, position,
          avoid, failovers, busy>>

Routes == {r \in [Stage -> Copy] : \A s \in Stage : r[s].stage = s}

MaxText == 1 + MaxNewTokens

TypeOK ==
  /\ serving \in SUBSET Copy /\ listed \in SUBSET Copy /\ full \in SUBSET Copy
  /\ cache \in [Copy -> [Question -> 0..MaxText]]
  /\ load \in [Copy -> 0..Cardinality(Question)]
  /\ pc \in [Question -> {"routing", "rerouting", "passing", "done", "failed"}]
  /\ route \in [Question -> Routes]
  /\ hop \in [Question -> Stage]
  /\ text \in [Question -> 1..MaxText]
  /\ sent \in [Question -> 1..MaxText]
  /\ position \in [Question -> 0..MaxText]
  /\ avoid \in [Question -> SUBSET DeviceName]
  /\ failovers \in [Question -> 0..MaxFailovers + 1]
  /\ busy \in [Question -> 0..MaxBusyRetries + 1]

Init ==
  /\ serving = Copy /\ listed = Copy /\ full = {}
  /\ cache = [c \in Copy |-> [q \in Question |-> 0]]
  /\ load = [c \in Copy |-> 0]
  /\ pc = [q \in Question |-> "routing"]
  /\ route = [q \in Question |-> CHOOSE r \in Routes : TRUE]
  /\ hop = [q \in Question |-> 0]
  /\ text = [q \in Question |-> 1]
  /\ sent = [q \in Question |-> 1]
  /\ position = [q \in Question |-> 0]
  /\ avoid = [q \in Question |-> {}]
  /\ failovers = [q \in Question |-> 0]
  /\ busy = [q \in Question |-> 0]

-----------------------------------------------------------------------------
(* Choosing a route. *)

\* pick_route: any copy of each stage may have the best score.
RoutesOver(copies) == {r \in Routes : \A s \in Stage : r[s] \in copies}

\* PoolRunner.route: without the devices to avoid, or else with them.
Choices(q) ==
  LET preferred == RoutesOver({c \in listed : c.device \notin avoid[q]})
  IN  IF preferred # {} THEN preferred ELSE RoutesOver(listed)

Max0(n) == IF n > 0 THEN n ELSE 0

\* _charge
Charge(r, delta) ==
  [c \in Copy |-> IF r[c.stage] = c THEN Max0(load[c] + delta) ELSE load[c]]

\* A route, and a new request id: nothing of the text is cached anywhere yet,
\* so the first pass sends all of it.  _await_route and _charge in one step: what is
\* in between waits for nobody, and load is charged under its own lock.
TakeRoute(q) ==
  /\ pc[q] \in {"routing", "rerouting"}
  /\ \E r \in Choices(q) :
       /\ route' = [route EXCEPT ![q] = r]
       /\ load' = Charge(r, 1)
  /\ cache' = [c \in Copy |-> [cache[c] EXCEPT ![q] = 0]]
  /\ sent' = [sent EXCEPT ![q] = text[q]]
  /\ position' = [position EXCEPT ![q] = 0]
  /\ hop' = [hop EXCEPT ![q] = 0]
  /\ pc' = [pc EXCEPT ![q] = "passing"]
  /\ UNCHANGED <<env, text, troubles>>

\* _await_route raises. The first time that is before the try of generate; after
\* a failover it is inside, and its finally discharges the route left behind.
GiveUpWaiting(q) ==
  /\ PatienceEnds
  /\ pc[q] \in {"routing", "rerouting"}
  /\ Choices(q) = {}
  /\ load' = IF pc[q] = "rerouting" THEN Charge(route[q], -1) ELSE load
  /\ pc' = [pc EXCEPT ![q] = "failed"]
  /\ UNCHANGED <<env, cache, route, hop, progress, troubles>>

-----------------------------------------------------------------------------
(* A pass, hop by hop. *)

At(q) == route[q][hop[q]]

\* Only the first pass under a request id can be refused.
Refused(q) == position[q] = 0 /\ At(q) \in full

\* Mutant: nobody checks.
CacheTrusted(q) == TRUE

\* _assert_cache_agrees
CacheAgrees(q) == cache[At(q)][q] = position[q]

IsLastStep(q) == text[q] = MaxNewTokens

\* The copy computes; at the last step it drops the session as well.
Compute(q) ==
  /\ pc[q] = "passing"
  /\ At(q) \in serving
  /\ ~Refused(q)
  /\ CacheAgrees(q)
  /\ cache' = [cache EXCEPT ![At(q)][q] = IF IsLastStep(q) THEN 0 ELSE @ + sent[q]]

NextHop(q) ==
  /\ Compute(q)
  /\ hop[q] < Stages - 1
  /\ hop' = [hop EXCEPT ![q] = @ + 1]
  /\ UNCHANGED <<env, load, pc, route, progress, troubles>>

\* The last hop returns a token: a stop token, or the next of the text.
NextToken(q) ==
  /\ Compute(q)
  /\ hop[q] = Stages - 1
  /\ hop' = [hop EXCEPT ![q] = 0]
  /\ position' = [position EXCEPT ![q] = @ + sent[q]]
  /\ text' = [text EXCEPT ![q] = @ + 1]
  /\ sent' = [sent EXCEPT ![q] = 1]
  /\ IF IsLastStep(q)
     THEN pc' = [pc EXCEPT ![q] = "done"] /\ load' = Charge(route[q], -1)
     ELSE UNCHANGED <<pc, load>>
  /\ UNCHANGED <<env, route, troubles>>

\* Mutant: the question is over and still counted.
StopTokenStillCounted(q) ==
  /\ Compute(q)
  /\ hop[q] = Stages - 1
  /\ position' = [position EXCEPT ![q] = @ + sent[q]]
  /\ pc' = [pc EXCEPT ![q] = "done"]
  /\ UNCHANGED <<env, load, route, hop, text, sent, troubles>>

StopToken(q) ==
  /\ Compute(q)
  /\ hop[q] = Stages - 1
  /\ position' = [position EXCEPT ![q] = @ + sent[q]]
  /\ pc' = [pc EXCEPT ![q] = "done"]
  /\ load' = Charge(route[q], -1)
  /\ UNCHANGED <<env, route, hop, text, sent, troubles>>

\* The route is let go of, to look for another or to give up the question.
LetGo(q, gaveUp) ==
  /\ load' = Charge(route[q], -1)
  /\ pc' = [pc EXCEPT ![q] = IF gaveUp THEN "failed" ELSE "rerouting"]
  /\ avoid' = [avoid EXCEPT ![q] = IF gaveUp THEN @ ELSE @ \cup {At(q).device}]

\* Mutants: a busy copy, or a lost one, is tried for ever.
FindBusyAgain(q) ==
  /\ pc[q] = "passing"
  /\ At(q) \in serving
  /\ Refused(q)
  /\ busy' = [busy EXCEPT ![q] = @ + 1]
  /\ LetGo(q, FALSE)
  /\ UNCHANGED <<env, cache, route, hop, progress, failovers>>

FailOverAgain(q) == LetGo(q, FALSE) /\ UNCHANGED failovers

\* HopError.is_busy
FindBusy(q) ==
  /\ pc[q] = "passing"
  /\ At(q) \in serving
  /\ Refused(q)
  /\ busy' = [busy EXCEPT ![q] = @ + 1]
  /\ LetGo(q, busy'[q] > MaxBusyRetries)
  /\ UNCHANGED <<env, cache, route, hop, progress, failovers>>

FailOver(q) ==
  /\ failovers' = [failovers EXCEPT ![q] = @ + 1]
  /\ LetGo(q, failovers'[q] > MaxFailovers)

\* HopError.is_node_loss, because the copy is gone or because the call was lost:
\* the device is marked unreachable, all it holds with it.
FindGone(q) ==
  /\ pc[q] = "passing"
  /\ FailOver(q)
  /\ listed' = IF pc'[q] = "failed" THEN listed
               ELSE {c \in listed : c.device # At(q).device}
  /\ UNCHANGED <<serving, full, cache, route, hop, progress, busy>>

\* The copy answered, but not with a result: its cache was lost, or it failed.
FindUnhappy(q) ==
  /\ pc[q] = "passing"
  /\ At(q) \in serving
  /\ ~Refused(q)
  /\ FailOver(q)
  /\ UNCHANGED <<env, cache, route, hop, progress, busy>>

-----------------------------------------------------------------------------
(* The copies, and what the table says of them. *)

\* A copy stops, and its sessions with it.
Fall(c) ==
  /\ c \in serving
  /\ serving' = serving \ {c}
  /\ cache' = [cache EXCEPT ![c] = [q \in Question |-> 0]]
  /\ full' = full \ {c}
  /\ UNCHANGED <<listed, load, pc, route, hop, progress, troubles>>

Rise(c) ==
  /\ c \notin serving
  /\ serving' = serving \cup {c}
  /\ UNCHANGED <<listed, full, cache, load, pc, route, hop, progress, troubles>>

\* Gossip brings a row of c's device, be it an old one, or no row for too long.
Relist(c) ==
  /\ listed' = IF c \in listed THEN listed \ {c} ELSE listed \cup {c}
  /\ UNCHANGED <<serving, full, cache, load, pc, route, hop, progress, troubles>>

Fill(c) ==
  /\ c \in serving
  /\ full' = IF c \in full THEN full \ {c} ELSE full \cup {c}
  /\ UNCHANGED <<serving, listed, cache, load, pc, route, hop, progress, troubles>>

\* SessionStore: the sweep drops a session that was idle too long.
Evict(c, q) ==
  /\ cache[c][q] > 0
  /\ cache' = [cache EXCEPT ![c][q] = 0]
  /\ UNCHANGED <<env, load, pc, route, hop, progress, troubles>>

-----------------------------------------------------------------------------

Next ==
  \/ \E q \in Question : TakeRoute(q)
  \/ \E q \in Question : GiveUpWaiting(q)
  \/ \E q \in Question : NextHop(q)
  \/ \E q \in Question : NextToken(q)
  \/ \E q \in Question : StopToken(q)
  \/ \E q \in Question : FindBusy(q)
  \/ \E q \in Question : FindGone(q)
  \/ \E q \in Question : FindUnhappy(q)
  \/ \E c \in Copy : Fall(c)
  \/ \E c \in Copy : Rise(c)
  \/ \E c \in Copy : Relist(c)
  \/ \E c \in Copy : Fill(c)
  \/ \E c \in Copy, q \in Question : Evict(c, q)

Spec == Init /\ [][Next]_vars

\* A thread goes on with what it can do, and waits no longer than its patience.
Fairness ==
  \A q \in Question :
    /\ WF_vars(TakeRoute(q) \/ GiveUpWaiting(q))
    /\ WF_vars(NextHop(q) \/ NextToken(q) \/ StopToken(q)
                 \/ FindBusy(q) \/ FindGone(q) \/ FindUnhappy(q))

FairSpec == Spec /\ Fairness

-----------------------------------------------------------------------------
(* Properties. *)

\* What a copy computes, it computes over the whole text so far and nothing but:
\* after failovers, lost sessions and restarts of copies, no token is chosen from
\* a wrong position (server.py: it would "silently produce wrong output").
RightContext ==
  [][\A q \in Question : Compute(q) => cache[At(q)][q] + sent[q] = text[q]]_vars

\* The questions under way over copy c.
Users(c) == {q \in Question : pc[q] = "passing" /\ route[q][c.stage] = c}

\* The questions that changed their route and then ran out of patience: what they left
\* behind on c, the last copy they had, is discharged a second time.
LeftBehind(c) ==
  {q \in Question :
     /\ pc[q] = "failed"
     /\ failovers[q] + busy[q] > 0
     /\ failovers[q] <= MaxFailovers /\ busy[q] <= MaxBusyRetries
     /\ route[q][c.stage] = c}

\* The device's record of its own questions never counts one that is over, and misses
\* at most one for each question that ran out of patience after it had this copy:
\* nothing else that fails over, is refused or gives up leaves the record wrong.
RecordIsBounded ==
  \A c \in Copy :
    /\ load[c] <= Cardinality(Users(c))
    /\ Cardinality(Users(c)) <= load[c] + Cardinality(LeftBehind(c))

\* The device's record of its own questions is true at every moment, so that it
\* neither shuns an idle copy nor prefers a loaded one.
LoadIsTrue == \A c \in Copy : load[c] = Cardinality(Users(c))

\* A question already under way is never refused (pool.md).
NeverRefusedMidway ==
  [][\A q \in Question : FindBusy(q) => text[q] = 1]_vars

\* Whatever the pool does, a question that was asked ends.
EveryQuestionEnds ==
  \A q \in Question : pc[q] = "routing" ~> pc[q] \in {"done", "failed"}
=============================================================================
