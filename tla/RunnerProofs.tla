---------------------------- MODULE RunnerProofs ----------------------------
(***************************************************************************)
(* Theorems about Runner, for any number of questions, copies, stages,     *)
(* tokens and retries.                                                     *)
(***************************************************************************)
EXTENDS Runner, FiniteSetTheorems, TLAPS

-----------------------------------------------------------------------------
(* The inductive invariant. *)

\* TypeOK with no bound on the record of load: the bound needs RecordIsBounded.
Types ==
  /\ serving \in SUBSET Copy /\ listed \in SUBSET Copy /\ full \in SUBSET Copy
  /\ cache \in [Copy -> [Question -> 0..MaxText]]
  /\ load \in [Copy -> Nat]
  /\ pc \in [Question -> {"routing", "rerouting", "passing", "done", "failed"}]
  /\ route \in [Question -> Routes]
  /\ hop \in [Question -> Stage]
  /\ text \in [Question -> 1..MaxText]
  /\ sent \in [Question -> 1..MaxText]
  /\ position \in [Question -> 0..MaxText]
  /\ avoid \in [Question -> SUBSET DeviceName]
  /\ failovers \in [Question -> 0..MaxFailovers + 1]
  /\ busy \in [Question -> 0..MaxBusyRetries + 1]

\* A question that goes on has a token left to ask for, and a pass sends exactly
\* what the caches of its route lack.
TextInv ==
  \A q \in Question :
    /\ pc[q] \in {"routing", "rerouting", "passing"} => text[q] <= MaxNewTokens
    /\ pc[q] = "passing" => position[q] + sent[q] = text[q]

\* A question that has not failed is within its bounds, and it looks for another
\* route only after something went wrong.
RetryInv ==
  \A q \in Question :
    /\ pc[q] # "failed" => failovers[q] <= MaxFailovers /\ busy[q] <= MaxBusyRetries
    /\ pc[q] = "rerouting" => failovers[q] + busy[q] > 0

Inv == Types /\ TextInv /\ RetryInv /\ RecordIsBounded

-----------------------------------------------------------------------------
(* Who runs over a copy, and what the record says of it. *)

LEMMA UsersFinite ==
  ASSUME NEW c \in Copy
  PROVE  /\ IsFiniteSet(Users(c))
         /\ Cardinality(Question) \in Nat
         /\ Cardinality(Users(c)) \in 0..Cardinality(Question)
<1>1. Users(c) \in SUBSET Question
  BY DEF Users
<1>2. IsFiniteSet(Users(c)) /\ Cardinality(Users(c)) <= Cardinality(Question)
  BY <1>1, RunnerAssumption, FS_Subset
<1>3. Cardinality(Users(c)) \in Nat /\ Cardinality(Question) \in Nat
  BY <1>2, RunnerAssumption, FS_CardinalityType
<1> QED
  BY <1>2, <1>3

LEMMA LeftBehindFinite ==
  ASSUME NEW c \in Copy
  PROVE  IsFiniteSet(LeftBehind(c)) /\ Cardinality(LeftBehind(c)) \in Nat
<1>1. LeftBehind(c) \in SUBSET Question
  BY DEF LeftBehind
<1> QED
  BY <1>1, RunnerAssumption, FS_Subset, FS_CardinalityType

\* Nobody who left something behind comes back, if nothing of his changes.
LEMMA LeftBehindStays ==
  ASSUME NEW c \in Copy,
         \A p \in LeftBehind(c) :
           /\ pc'[p] = pc[p] /\ route'[p] = route[p]
           /\ failovers'[p] = failovers[p] /\ busy'[p] = busy[p]
  PROVE  /\ LeftBehind(c) \subseteq LeftBehind(c)'
         /\ IsFiniteSet(LeftBehind(c)') /\ Cardinality(LeftBehind(c)') \in Nat
         /\ Cardinality(LeftBehind(c)) <= Cardinality(LeftBehind(c)')
<1>1. LeftBehind(c) \subseteq LeftBehind(c)'
  BY DEF LeftBehind
<1>2. LeftBehind(c)' \in SUBSET Question
  BY DEF LeftBehind
<1>3. IsFiniteSet(LeftBehind(c)') /\ Cardinality(LeftBehind(c)') \in Nat
  BY <1>2, RunnerAssumption, FS_Subset, FS_CardinalityType
<1> QED
  BY <1>1, <1>3, FS_Subset

\* Taking one off a count that is no more than the truth m, and misses at most k of it.
LEMMA Max0OneLess ==
  ASSUME NEW m \in Nat, NEW n \in Nat, NEW k \in Nat, n <= m, m <= n + k, m # 0
  PROVE  /\ Max0(n - 1) <= m - 1
         /\ m - 1 <= Max0(n - 1) + k
BY DEF Max0

\* Room for one more below a bound that is not reached.
LEMMA OneMoreFits ==
  ASSUME NEW m \in Nat, NEW n \in 1..m, n # m
  PROVE  n + 1 <= m
OBVIOUS

\* Charging keeps the record a record.
LEMMA ChargeType ==
  ASSUME Types, NEW r \in Routes, NEW delta \in {-1, 1}
  PROVE  Charge(r, delta) \in [Copy -> Nat]
BY DEF Charge, Max0, Types

\* A question that takes a route is counted once on each of its copies.
LEMMA CountedOn ==
  ASSUME Inv, NEW q \in Question, NEW r \in Routes,
         pc[q] \notin {"passing", "failed"},
         pc' = [pc EXCEPT ![q] = "passing"],
         route' = [route EXCEPT ![q] = r],
         UNCHANGED <<failovers, busy>>,
         load' = Charge(r, 1)
  PROVE  RecordIsBounded'
<1> USE DEF Inv, Types
<1> SUFFICES ASSUME NEW c \in Copy
             PROVE  /\ load'[c] <= Cardinality(Users(c)')
                    /\ Cardinality(Users(c)') <= load'[c] + Cardinality(LeftBehind(c)')
  BY DEF RecordIsBounded
<1>0. /\ load[c] <= Cardinality(Users(c))
      /\ Cardinality(Users(c)) <= load[c] + Cardinality(LeftBehind(c))
      /\ IsFiniteSet(Users(c)) /\ Cardinality(Users(c)) \in Nat
      /\ load[c] \in Nat
  BY UsersFinite DEF RecordIsBounded
<1>l. /\ Cardinality(LeftBehind(c)) <= Cardinality(LeftBehind(c)')
      /\ Cardinality(LeftBehind(c)) \in Nat /\ Cardinality(LeftBehind(c)') \in Nat
  <2>1. q \notin LeftBehind(c)
    BY DEF LeftBehind
  <2>2. LeftBehind(c) \subseteq Question
    BY DEF LeftBehind
  <2> QED
    BY <2>1, <2>2, LeftBehindFinite, LeftBehindStays
<1>1. CASE r[c.stage] = c
  <2>1. Users(c)' = Users(c) \cup {q}
    BY <1>1 DEF Users
  <2>2. q \notin Users(c)
    BY DEF Users
  <2>3. Cardinality(Users(c) \cup {q}) = Cardinality(Users(c)) + 1
    BY <1>0, <2>2, FS_AddElement
  <2>4. load'[c] = load[c] + 1
    BY <1>0, <1>1 DEF Charge, Max0
  <2>5. Cardinality(Users(c)') = Cardinality(Users(c)) + 1
    BY <2>1, <2>3
  <2> HIDE DEF Inv, Types
  <2> QED
    BY <1>0, <1>l, <2>4, <2>5
<1>2. CASE r[c.stage] # c
  <2>1. Users(c)' = Users(c)
    BY <1>2 DEF Users
  <2>2. load'[c] = load[c]
    BY <1>2 DEF Charge
  <2> HIDE DEF Inv, Types
  <2> QED
    BY <1>0, <1>l, <2>1, <2>2
<1> QED
  BY <1>1, <1>2

\* A question that leaves its route is taken off each of its copies.
LEMMA CountedOff ==
  ASSUME Inv, NEW q \in Question, NEW there,
         pc[q] = "passing", there # "passing",
         pc' = [pc EXCEPT ![q] = there],
         UNCHANGED route,
         \A p \in Question \ {q} : failovers'[p] = failovers[p] /\ busy'[p] = busy[p],
         load' = Charge(route[q], -1)
  PROVE  RecordIsBounded'
<1> USE DEF Inv, Types
<1> SUFFICES ASSUME NEW c \in Copy
             PROVE  /\ load'[c] <= Cardinality(Users(c)')
                    /\ Cardinality(Users(c)') <= load'[c] + Cardinality(LeftBehind(c)')
  BY DEF RecordIsBounded
<1>0. /\ load[c] <= Cardinality(Users(c))
      /\ Cardinality(Users(c)) <= load[c] + Cardinality(LeftBehind(c))
      /\ IsFiniteSet(Users(c)) /\ Cardinality(Users(c)) \in Nat
      /\ load[c] \in Nat
  BY UsersFinite DEF RecordIsBounded
<1>l. /\ Cardinality(LeftBehind(c)) <= Cardinality(LeftBehind(c)')
      /\ Cardinality(LeftBehind(c)) \in Nat /\ Cardinality(LeftBehind(c)') \in Nat
  <2>1. q \notin LeftBehind(c) /\ LeftBehind(c) \subseteq Question
    BY DEF LeftBehind
  <2> QED
    BY <2>1, LeftBehindFinite, LeftBehindStays
<1>1. CASE route[q][c.stage] = c
  <2>1. Users(c)' = Users(c) \ {q}
    BY DEF Users
  <2>2. q \in Users(c)
    BY <1>1 DEF Users
  <2>3. Cardinality(Users(c) \ {q}) = Cardinality(Users(c)) - 1
    BY <1>0, <2>2, FS_RemoveElement
  <2>4. Cardinality(Users(c)) # 0
    BY <1>0, <2>2, FS_EmptySet
  <2>5. load'[c] = Max0(load[c] - 1)
    BY <1>0, <1>1 DEF Charge
  <2>6. Cardinality(Users(c)') = Cardinality(Users(c)) - 1
    BY <2>1, <2>3
  <2> HIDE DEF Inv, Types
  <2>7. /\ load'[c] <= Cardinality(Users(c)) - 1
        /\ Cardinality(Users(c)) - 1 <= load'[c] + Cardinality(LeftBehind(c))
    BY <1>0, <1>l, <2>4, <2>5, Max0OneLess
  <2>8. load'[c] \in Nat
    BY <1>0, <2>5 DEF Max0
  <2> QED
    BY <1>0, <1>l, <2>6, <2>7, <2>8
<1>2. CASE route[q][c.stage] # c
  <2>1. Users(c)' = Users(c)
    BY <1>2 DEF Users
  <2>2. load'[c] = load[c]
    BY <1>2 DEF Charge
  <2> HIDE DEF Inv, Types
  <2> QED
    BY <1>0, <1>l, <2>1, <2>2
<1> QED
  BY <1>1, <1>2

\* A question that runs out of patience is taken off its last route once more.
LEMMA CountedTwice ==
  ASSUME Inv, NEW q \in Question, GiveUpWaiting(q)
  PROVE  RecordIsBounded'
<1> USE DEF Inv, Types, troubles
<1> SUFFICES ASSUME NEW c \in Copy
             PROVE  /\ load'[c] <= Cardinality(Users(c)')
                    /\ Cardinality(Users(c)') <= load'[c] + Cardinality(LeftBehind(c)')
  BY DEF RecordIsBounded
<1>0. /\ load[c] <= Cardinality(Users(c))
      /\ Cardinality(Users(c)) <= load[c] + Cardinality(LeftBehind(c))
      /\ Cardinality(Users(c)) \in Nat
      /\ load[c] \in Nat
  BY UsersFinite DEF RecordIsBounded
<1>1. q \notin LeftBehind(c) /\ LeftBehind(c) \subseteq Question
  BY DEF GiveUpWaiting, LeftBehind
<1>2. \A p \in Question \ {q} :
        /\ pc'[p] = pc[p] /\ route'[p] = route[p]
        /\ failovers'[p] = failovers[p] /\ busy'[p] = busy[p]
  BY DEF GiveUpWaiting
<1>3. /\ LeftBehind(c) \subseteq LeftBehind(c)'
      /\ IsFiniteSet(LeftBehind(c)') /\ Cardinality(LeftBehind(c)') \in Nat
      /\ Cardinality(LeftBehind(c)) <= Cardinality(LeftBehind(c)')
      /\ IsFiniteSet(LeftBehind(c)) /\ Cardinality(LeftBehind(c)) \in Nat
  BY <1>1, <1>2, LeftBehindStays, LeftBehindFinite
<1>4. Users(c)' = Users(c)
  BY DEF GiveUpWaiting, Users
<1>5. CASE pc[q] = "rerouting" /\ route[q][c.stage] = c
  <2>1. q \in LeftBehind(c)'
    BY <1>5 DEF GiveUpWaiting, LeftBehind, RetryInv
  <2>2. Cardinality(LeftBehind(c)) + 1 <= Cardinality(LeftBehind(c)')
    <3>1. LeftBehind(c) \cup {q} \subseteq LeftBehind(c)'
      BY <1>3, <2>1
    <3>2. Cardinality(LeftBehind(c) \cup {q}) <= Cardinality(LeftBehind(c)')
      BY <1>3, <3>1, FS_Subset
    <3>3. Cardinality(LeftBehind(c) \cup {q}) = Cardinality(LeftBehind(c)) + 1
      BY <1>1, <1>3, FS_AddElement
    <3> QED
      BY <3>2, <3>3
  <2>3. load'[c] = Max0(load[c] - 1)
    BY <1>5 DEF GiveUpWaiting, Charge
  <2>4. load'[c] \in Nat /\ load'[c] <= load[c] /\ load[c] <= load'[c] + 1
    BY <1>0, <2>3 DEF Max0
  <2> HIDE DEF Inv, Types
  <2> QED
    BY <1>0, <1>3, <1>4, <2>2, <2>4
<1>6. CASE ~(pc[q] = "rerouting" /\ route[q][c.stage] = c)
  <2>1. load'[c] = load[c]
    BY <1>6 DEF GiveUpWaiting, Charge
  <2> HIDE DEF Inv, Types
  <2> QED
    BY <1>0, <1>3, <1>4, <2>1
<1> QED
  BY <1>5, <1>6

\* Nothing changes for the record when no question begins or ends.
LEMMA CountedStill ==
  ASSUME Inv, UNCHANGED <<load, pc, route, failovers, busy>>
  PROVE  RecordIsBounded'
BY DEF Inv, RecordIsBounded, Users, LeftBehind

-----------------------------------------------------------------------------
(* The invariant is inductive. *)

LEMMA InvInit == Init => Inv
<1> SUFFICES ASSUME Init PROVE Inv
  OBVIOUS
<1>1. Routes # {}
  <2>1. [s \in Stage |-> CHOOSE c \in Copy : c.stage = s] \in Routes
    BY RunnerAssumption DEF Routes
  <2> QED
    BY <2>1
<1>2. Types
  BY <1>1, RunnerAssumption DEF Init, Types, Stage, MaxText
<1>3. TextInv /\ RetryInv
  BY RunnerAssumption DEF Init, TextInv, RetryInv
<1>4. RecordIsBounded
  <2>1. \A c \in Copy : Users(c) = {} /\ LeftBehind(c) = {}
    BY DEF Init, Users, LeftBehind
  <2> QED
    BY <2>1, FS_EmptySet DEF Init, RecordIsBounded
<1> QED
  BY <1>2, <1>3, <1>4 DEF Inv

LEMMA ComputeCaches ==
  ASSUME Inv, NEW q \in Question, Compute(q)
  PROVE  /\ cache' \in [Copy -> [Question -> 0..MaxText]]
         /\ position[q] + sent[q] = text[q]
         /\ text[q] \in 1..MaxNewTokens
         /\ At(q) \in Copy
<1> USE RunnerAssumption DEF Inv, Types
<1>1. /\ position[q] + sent[q] = text[q]
      /\ text[q] \in 1..MaxNewTokens
  BY DEF TextInv, Compute, MaxText
<1>2. At(q) \in Copy
  BY DEF At, Routes
<1>3. cache[At(q)][q] + sent[q] \in 0..MaxText
  BY <1>1 DEF Compute, CacheAgrees, MaxText
<1>4. cache' = [cache EXCEPT ![At(q)][q] =
                  IF IsLastStep(q) THEN 0 ELSE cache[At(q)][q] + sent[q]]
  BY DEF Compute
<1>5. (IF IsLastStep(q) THEN 0 ELSE cache[At(q)][q] + sent[q]) \in 0..MaxText
  BY <1>3 DEF MaxText
<1> QED
  BY <1>1, <1>2, <1>4, <1>5

\* What a question that lets go of its route keeps of the invariant.
LEMMA LetGoInv ==
  ASSUME Inv, NEW q \in Question, NEW gaveUp \in BOOLEAN,
         pc[q] = "passing", LetGo(q, gaveUp), UNCHANGED route,
         \A p \in Question \ {q} : failovers'[p] = failovers[p] /\ busy'[p] = busy[p]
  PROVE  /\ load' \in [Copy -> Nat]
         /\ pc' \in [Question -> {"routing", "rerouting", "passing", "done", "failed"}]
         /\ avoid' \in [Question -> SUBSET DeviceName]
         /\ RecordIsBounded'
<1> USE DEF Inv, Types, LetGo
<1>1. load' \in [Copy -> Nat]
  BY ChargeType
<1>2. At(q) \in Copy
  BY DEF At, Routes
<1>3. RecordIsBounded'
  <2>1. (IF gaveUp THEN "failed" ELSE "rerouting") # "passing"
    OBVIOUS
  <2> QED
    BY <2>1, CountedOff
<1> QED
  BY <1>1, <1>2, <1>3 DEF DeviceName

LEMMA InvStep == Inv /\ [Next]_vars => Inv'
<1> SUFFICES ASSUME Inv, [Next]_vars PROVE Inv'
  OBVIOUS
<1> USE RunnerAssumption DEF Inv, Types, env, progress, troubles
<1>1. ASSUME NEW q \in Question, TakeRoute(q) PROVE Inv'
  <2>1. PICK r \in Choices(q) : route' = [route EXCEPT ![q] = r] /\ load' = Charge(r, 1)
    BY <1>1 DEF TakeRoute
  <2>2. r \in Routes
    BY DEF Choices, RoutesOver
  <2>3. load' \in [Copy -> Nat]
    BY <2>1, <2>2, ChargeType
  <2>4. Types'
    BY <1>1, <2>1, <2>2, <2>3 DEF TakeRoute, Stage, MaxText
  <2>5. TextInv' /\ RetryInv'
    BY <1>1 DEF TakeRoute, TextInv, RetryInv, MaxText
  <2>6. RecordIsBounded'
    BY <1>1, <2>1, <2>2, CountedOn DEF TakeRoute
  <2> QED
    BY <2>4, <2>5, <2>6
<1>2. ASSUME NEW q \in Question, GiveUpWaiting(q) PROVE Inv'
  <2>1. load' \in [Copy -> Nat]
    BY <1>2, ChargeType DEF GiveUpWaiting
  <2>2. Types' /\ TextInv' /\ RetryInv'
    BY <1>2, <2>1 DEF GiveUpWaiting, TextInv, RetryInv
  <2>3. RecordIsBounded'
    BY <1>2, CountedTwice
  <2> QED
    BY <2>2, <2>3
<1>3. ASSUME NEW q \in Question, NextHop(q) PROVE Inv'
  <2>1. Types'
    BY <1>3, ComputeCaches DEF NextHop, Stage
  <2>2. TextInv' /\ RetryInv'
    BY <1>3 DEF NextHop, TextInv, RetryInv
  <2> QED
    BY <1>3, <2>1, <2>2, CountedStill DEF NextHop
<1>4. ASSUME NEW q \in Question, NextToken(q) PROVE Inv'
  <2>1. /\ cache' \in [Copy -> [Question -> 0..MaxText]]
        /\ position[q] + sent[q] = text[q]
        /\ text[q] \in 1..MaxNewTokens
    BY <1>4, ComputeCaches DEF NextToken
  <2>2. load' \in [Copy -> Nat]
    BY <1>4, ChargeType DEF NextToken
  <2>3. Types'
    BY <1>4, <2>1, <2>2 DEF NextToken, Stage, MaxText
  <2>4. TextInv'
    <3> SUFFICES ASSUME NEW p \in Question
                 PROVE  /\ pc'[p] \in {"routing", "rerouting", "passing"}
                             => text'[p] <= MaxNewTokens
                        /\ pc'[p] = "passing" => position'[p] + sent'[p] = text'[p]
      BY DEF TextInv
    <3>1. CASE p # q
      BY <1>4, <3>1 DEF NextToken, TextInv
    <3>2. CASE p = q /\ IsLastStep(q)
      <4>1. pc'[p] = "done"
        BY <1>4, <3>2 DEF NextToken
      <4> QED
        BY <4>1
    <3>3. CASE p = q /\ ~IsLastStep(q)
      <4>1. text[q] # MaxNewTokens
        BY <3>3 DEF IsLastStep
      <4>2. /\ text'[q] = text[q] + 1
            /\ position'[q] = position[q] + sent[q]
            /\ sent'[q] = 1
        BY <1>4 DEF NextToken
      <4>3. text[q] \in 1..MaxNewTokens /\ position[q] + sent[q] = text[q]
        BY <2>1
      <4>4. text[q] + 1 <= MaxNewTokens
        BY <4>1, <4>3, OneMoreFits
      <4>5. position[q] + sent[q] + 1 = text[q] + 1
        BY <4>3
      <4> QED
        BY <3>3, <4>2, <4>4, <4>5
    <3> QED
      BY <3>1, <3>2, <3>3
  <2>5. RetryInv'
    BY <1>4 DEF NextToken, Compute, RetryInv
  <2>6. RecordIsBounded'
    <3>1. CASE IsLastStep(q)
      BY <1>4, <3>1, CountedOff DEF NextToken, Compute
    <3>2. CASE ~IsLastStep(q)
      BY <1>4, <3>2, CountedStill DEF NextToken
    <3> QED
      BY <3>1, <3>2
  <2> QED
    BY <2>3, <2>4, <2>5, <2>6
<1>5. ASSUME NEW q \in Question, StopToken(q) PROVE Inv'
  <2>1. /\ cache' \in [Copy -> [Question -> 0..MaxText]]
        /\ position[q] + sent[q] = text[q]
        /\ text[q] \in 1..MaxNewTokens
    BY <1>5, ComputeCaches DEF StopToken
  <2>2. load' \in [Copy -> Nat]
    BY <1>5, ChargeType DEF StopToken
  <2>3. Types'
    BY <1>5, <2>1, <2>2 DEF StopToken, MaxText
  <2>4. TextInv' /\ RetryInv'
    BY <1>5 DEF StopToken, Compute, TextInv, RetryInv
  <2>5. RecordIsBounded'
    BY <1>5, CountedOff DEF StopToken, Compute
  <2> QED
    BY <2>3, <2>4, <2>5
<1>6. ASSUME NEW q \in Question, FindBusy(q) PROVE Inv'
  <2>1. PICK gaveUp \in BOOLEAN : gaveUp <=> busy'[q] > MaxBusyRetries
    <3>1. CASE busy'[q] > MaxBusyRetries
      BY <3>1
    <3>2. CASE ~(busy'[q] > MaxBusyRetries)
      BY <3>2
    <3> QED
      BY <3>1, <3>2
  <2>2. /\ pc[q] = "passing"
        /\ LetGo(q, gaveUp)
        /\ UNCHANGED <<env, cache, route, hop, progress, failovers>>
        /\ busy' = [busy EXCEPT ![q] = busy[q] + 1]
    BY <1>6, <2>1 DEF FindBusy, LetGo
  <2>3. /\ load' \in [Copy -> Nat]
        /\ pc' \in [Question -> {"routing", "rerouting", "passing", "done", "failed"}]
        /\ avoid' \in [Question -> SUBSET DeviceName]
        /\ RecordIsBounded'
    BY <2>2, LetGoInv
  <2>4. busy[q] <= MaxBusyRetries
    BY <2>2 DEF RetryInv
  <2>5. Types'
    <3>1. busy' \in [Question -> 0..MaxBusyRetries + 1]
      BY <2>2, <2>4
    <3> QED
      BY <2>2, <2>3, <3>1
  <2>6. TextInv'
    BY <2>2 DEF LetGo, TextInv
  <2>7. RetryInv'
    BY <2>1, <2>2 DEF LetGo, RetryInv
  <2> QED
    BY <2>3, <2>5, <2>6, <2>7
<1>7. ASSUME NEW q \in Question, pc[q] = "passing", FailOver(q),
             listed' \in SUBSET Copy,
             UNCHANGED <<serving, full, cache, route, hop, progress, busy>>
      PROVE  Inv'
  <2>1. PICK gaveUp \in BOOLEAN : gaveUp <=> failovers'[q] > MaxFailovers
    <3>1. CASE failovers'[q] > MaxFailovers
      BY <3>1
    <3>2. CASE ~(failovers'[q] > MaxFailovers)
      BY <3>2
    <3> QED
      BY <3>1, <3>2
  <2>2. /\ LetGo(q, gaveUp)
        /\ failovers' = [failovers EXCEPT ![q] = failovers[q] + 1]
    BY <1>7, <2>1 DEF FailOver, LetGo
  <2>3. /\ load' \in [Copy -> Nat]
        /\ pc' \in [Question -> {"routing", "rerouting", "passing", "done", "failed"}]
        /\ avoid' \in [Question -> SUBSET DeviceName]
        /\ RecordIsBounded'
    BY <1>7, <2>2, LetGoInv
  <2>4. failovers[q] <= MaxFailovers
    BY <1>7 DEF RetryInv
  <2>5. Types'
    <3>1. failovers' \in [Question -> 0..MaxFailovers + 1]
      BY <2>2, <2>4
    <3> QED
      BY <1>7, <2>3, <3>1
  <2>6. TextInv'
    BY <1>7, <2>2 DEF LetGo, TextInv
  <2>7. RetryInv'
    BY <1>7, <2>1, <2>2 DEF LetGo, RetryInv
  <2> QED
    BY <2>3, <2>5, <2>6, <2>7
<1>8. ASSUME NEW q \in Question, FindGone(q) PROVE Inv'
  BY <1>7, <1>8 DEF FindGone
<1>9. ASSUME NEW q \in Question, FindUnhappy(q) PROVE Inv'
  BY <1>7, <1>9 DEF FindUnhappy
<1>10. ASSUME UNCHANGED <<load, pc, route, hop, progress, troubles>>,
              serving' \in SUBSET Copy, listed' \in SUBSET Copy, full' \in SUBSET Copy,
              cache' \in [Copy -> [Question -> 0..MaxText]]
       PROVE  Inv'
  <2>1. Types'
    BY <1>10
  <2>2. TextInv' /\ RetryInv'
    BY <1>10 DEF TextInv, RetryInv
  <2> QED
    BY <1>10, <2>1, <2>2, CountedStill
<1>11. ASSUME NEW c \in Copy, Fall(c) PROVE Inv'
  BY <1>10, <1>11 DEF Fall, MaxText
<1>12. ASSUME NEW c \in Copy, Rise(c) \/ Relist(c) \/ Fill(c) PROVE Inv'
  BY <1>10, <1>12 DEF Rise, Relist, Fill
<1>13. ASSUME NEW c \in Copy, NEW q \in Question, Evict(c, q) PROVE Inv'
  BY <1>10, <1>13 DEF Evict, MaxText
<1>14. CASE UNCHANGED vars
  BY <1>10, <1>14 DEF vars
<1> QED
  BY <1>1, <1>2, <1>3, <1>4, <1>5, <1>6, <1>8, <1>9, <1>11, <1>12, <1>13, <1>14 DEF Next

LEMMA Invariance == Spec => []Inv
BY InvInit, InvStep, PTL DEF Spec

-----------------------------------------------------------------------------
(* The theorems. *)

\* Every variable of Runner keeps its type: texts, positions and retries stay
\* within the bounds of generate, and the record of load within the number of
\* questions asked.
THEOREM TypeCorrect == Spec => []TypeOK
<1>1. Inv => TypeOK
  <2> SUFFICES ASSUME Inv PROVE TypeOK
    OBVIOUS
  <2>1. load \in [Copy -> 0..Cardinality(Question)]
    BY UsersFinite DEF Inv, Types, RecordIsBounded
  <2> QED
    BY <2>1 DEF Inv, Types, TypeOK
<1> QED
  BY <1>1, Invariance, PTL

\* Whatever fails over, restarts or is swept, a copy computes a pass only over
\* exactly the text so far.
THEOREM ContextIsRight == Spec => RightContext
<1>1. Inv /\ [Next]_vars =>
        [\A q \in Question : Compute(q) => cache[At(q)][q] + sent[q] = text[q]]_vars
  <2> SUFFICES ASSUME Inv, NEW q \in Question, Compute(q)
               PROVE  cache[At(q)][q] + sent[q] = text[q]
    OBVIOUS
  <2> QED
    BY ComputeCaches DEF Compute, CacheAgrees
<1> QED
  BY <1>1, Invariance, PTL DEF Spec, RightContext

\* The device's record of its own questions counts none that is over, and misses at
\* most one for each that ran out of patience after a change of route, for any number
\* of questions at once.
THEOREM RecordBounded == Spec => []RecordIsBounded
<1>1. Inv => RecordIsBounded
  BY DEF Inv
<1> QED
  BY <1>1, Invariance, PTL
=============================================================================
