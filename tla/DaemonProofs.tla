---------------------------- MODULE DaemonProofs ----------------------------
(***************************************************************************)
(* Theorems about Daemon, for any number of devices, stages and           *)
(* replicas, any memory and any number of disruptions. What a beat decides *)
(* to start is a plan of PlacementProofs.                                  *)
(***************************************************************************)
EXTENDS Daemon, PlacementProofs

-----------------------------------------------------------------------------
(* The inductive invariant. *)

\* As much of TypeOK as holds whatever the plan asks to start.
Types ==
  /\ up \in [Device -> BOOLEAN]
  /\ state \in [Device -> DeviceState]
  /\ held \in [Device -> [Stage -> StageStatus]]
  /\ view \in [Device -> [Device -> HostRow]]
  /\ graceOver \in [Device -> BOOLEAN]
  /\ DOMAIN plan = Device

\* Only owners drain devices.
DrainInv == \A d \in Device : state[d] \in {"draining", "away"} => d \in Owners

\* A beat that means to release something saw its device drained.
ReleaseInv ==
  \A d \in Device : plan[d].release # {} =>
    d \in Owners /\ plan[d].was \in {"draining", "away"}

\* A device that is away holds nothing, and no beat means to start anything on it.
AwayInv ==
  \A d \in Device : state[d] = "away" => HeldNow(d) = {} /\ plan[d].start = {}

Inv == Types /\ DrainInv /\ ReleaseInv /\ AwayInv

-----------------------------------------------------------------------------
(* The parts of a step. *)

LEMMA PublishType ==
  ASSUME Types, NEW d \in Device, NEW st \in DeviceState,
         NEW hosting \in [Stage -> StageStatus], PublishRow(d, st, hosting)
  PROVE  view' \in [Device -> [Device -> HostRow]]
BY DEF Types, PublishRow, HostRow

LEMMA FirstRowType == FirstRow \in HostRow /\ Nothing \in [Stage -> StageStatus]
BY DEF FirstRow, Nothing, HostRow, DeviceState, StageStatus

\* What is held after a beat has acted.
LEMMA ReleasedType ==
  ASSUME Types, NEW d \in Device
  PROVE  /\ Released(d) \in [Stage -> StageStatus]
         /\ \A s \in Stage : held[d][s] = "ready" /\ Released(d)[s] = "absent"
                               => s \in plan[d].release
         /\ plan[d].start = {} /\ HeldNow(d) = {} =>
              \A s \in Stage : Released(d)[s] \in {"absent", "failed"}
<1>1. Started(d) \in [Stage -> StageStatus]
  BY DEF Types, Started, StageStatus
<1>2. Released(d) \in [Stage -> StageStatus]
  BY <1>1 DEF Released, StageStatus
<1>3. ASSUME NEW s \in Stage, held[d][s] = "ready", Released(d)[s] = "absent"
      PROVE  s \in plan[d].release
  BY <1>3 DEF Released, Started, Stopping
<1>4. ASSUME plan[d].start = {}, HeldNow(d) = {}, NEW s \in Stage
      PROVE  Released(d)[s] \in {"absent", "failed"}
  <2>1. held[d][s] \in {"absent", "failed"}
    BY <1>4 DEF Types, HeldNow, StageStatus
  <2>2. Started(d)[s] = held[d][s]
    BY <1>4 DEF Started
  <2> QED
    BY <2>1, <2>2 DEF Released
<1> QED
  BY <1>2, <1>3, <1>4

\* What the end of a process leaves of the invariant.
LEMMA EndInv ==
  ASSUME Inv, NEW d \in Device, End(d)
  PROVE  Inv'
<1> USE DEF Inv
<1>1. Types'
  BY FirstRowType DEF Types, End, DeviceState
<1>2. plan'[d] = NoPlan /\ \A e \in Device \ {d} : plan'[e] = plan[e]
  BY DEF Types, End
<1>3. state'[d] = "active" /\ \A e \in Device \ {d} : state'[e] = state[e]
  BY DEF Types, End
<1>4. \A e \in Device \ {d} : held'[e] = held[e]
  BY DEF Types, End
<1>5. DrainInv'
  BY <1>3 DEF DrainInv
<1>6. ReleaseInv'
  BY <1>2 DEF ReleaseInv, NoPlan
<1>7. AwayInv'
  BY <1>2, <1>3, <1>4 DEF AwayInv, HeldNow
<1> QED
  BY <1>1, <1>5, <1>6, <1>7

\* A step that gives nobody more to hold, changes no plan and makes no device away.
LEMMA CalmInv ==
  ASSUME Inv, Types', UNCHANGED plan, DrainInv',
         \A d \in Device : state'[d] = "away" => state[d] = "away",
         \A d \in Device : HeldNow(d)' \subseteq HeldNow(d)
  PROVE  Inv'
BY DEF Inv, ReleaseInv, AwayInv

-----------------------------------------------------------------------------
(* The invariant is inductive. *)

LEMMA InvInit == Init => Inv
<1> SUFFICES ASSUME Init PROVE Inv
  OBVIOUS
<1>1. Types
  BY FirstRowType DEF Init, Types, DeviceState
<1>2. DrainInv /\ ReleaseInv /\ AwayInv
  BY DEF Init, DrainInv, ReleaseInv, AwayInv, NoPlan
<1> QED
  BY <1>1, <1>2 DEF Inv

LEMMA InvStep == Inv /\ [Next]_vars => Inv'
<1> SUFFICES ASSUME Inv, [Next]_vars PROVE Inv'
  OBVIOUS
<1> USE DEF Inv
<1>1. ASSUME NEW d \in Device, Start(d) PROVE Inv'
  <2>1. Types'
    BY <1>1, FirstRowType, PublishType DEF Start, Types, DeviceState
  <2>2. DrainInv'
    BY <1>1 DEF Start, Types, DrainInv
  <2> QED
    BY <1>1, <2>1, <2>2, CalmInv DEF Start, Types, HeldNow
<1>2. ASSUME NEW d \in Device, Crash(d) \/ Close(d) PROVE Inv'
  BY <1>2, EndInv DEF Crash, Close
<1>3. ASSUME NEW d \in Device, Leave(d) PROVE Inv'
  <2>1. Types'
    BY <1>3, PublishType DEF Leave, Types, DeviceState
  <2>2. DrainInv'
    BY <1>3 DEF Leave, Types, DrainInv
  <2> QED
    BY <1>3, <2>1, <2>2, CalmInv DEF Leave, Types, HeldNow
<1>4. ASSUME NEW d \in Device, NEW forgotten \in SUBSET Stage, PublishBeat(d, forgotten)
      PROVE  Inv'
  <2> DEFINE hosting == [s \in Stage |-> IF s \in forgotten THEN "absent" ELSE held[d][s]]
  <2>1. hosting \in [Stage -> StageStatus]
    BY DEF Types, StageStatus
  <2>2. /\ held' = [held EXCEPT ![d] = hosting]
        /\ PublishRow(d, state[d], hosting)
        /\ UNCHANGED <<up, state, graceOver, plan>>
    BY <1>4 DEF PublishBeat
  <2>3. view' \in [Device -> [Device -> HostRow]]
    BY <2>1, <2>2, PublishType DEF Types
  <2>4. Types'
    BY <2>1, <2>2, <2>3 DEF Types
  <2>5. DrainInv'
    BY <2>2 DEF DrainInv
  <2>6. \A e \in Device : HeldNow(e)' \subseteq HeldNow(e)
    BY <2>2 DEF Types, HeldNow
  <2> QED
    BY <2>2, <2>4, <2>5, <2>6, CalmInv
<1>5. ASSUME NEW d \in Device, Decide(d) PROVE Inv'
  <2>1. UNCHANGED <<up, state, held, view, graceOver>>
    BY <1>5 DEF Decide
  <2>2. /\ DOMAIN plan' = Device
        /\ \A e \in Device \ {d} : plan'[e] = plan[e]
        /\ plan'[d].was = state[d]
        /\ state[d] # "active" => plan'[d].start = {}
        /\ state[d] \notin {"draining", "away"} => plan'[d].release = {}
    BY <1>5 DEF Decide, Types
  <2>3. Types' /\ DrainInv'
    BY <2>1, <2>2 DEF Types, DrainInv
  <2>4. ReleaseInv'
    BY <2>2 DEF ReleaseInv, DrainInv
  <2>5. AwayInv'
    BY <2>1, <2>2 DEF AwayInv, HeldNow
  <2> QED
    BY <2>3, <2>4, <2>5
<1>6. ASSUME NEW d \in Device, Act(d) PROVE Inv'
  <2>1. /\ UNCHANGED <<up, graceOver>>
        /\ held' = [held EXCEPT ![d] = Released(d)]
        /\ plan' = [plan EXCEPT ![d] = NoPlan]
        /\ state' = [state EXCEPT ![d] = IF DrainEnds(d) THEN "away" ELSE state[d]]
        /\ PublishRow(d, state'[d], Released(d))
    BY <1>6 DEF Act
  <2>2. state'[d] \in DeviceState /\ state' \in [Device -> DeviceState]
    BY <2>1 DEF Types, DeviceState
  <2>3. Types'
    <3>1. view' \in [Device -> [Device -> HostRow]]
      <4>1. PICK st \in DeviceState : st = state'[d]
        BY <2>2
      <4>2. PublishRow(d, st, Released(d))
        BY <2>1, <4>1
      <4> QED
        BY <4>2, ReleasedType, PublishType
    <3> QED
      BY <2>1, <2>2, <3>1, ReleasedType DEF Types
  <2>4. DrainInv'
    BY <2>1 DEF Types, DrainInv, DrainEnds
  <2>5. ReleaseInv'
    BY <2>1 DEF Types, ReleaseInv, NoPlan
  <2>6. state'[d] = "away" => \A s \in Stage : Released(d)[s] \in {"absent", "failed"}
    <3>1. CASE DrainEnds(d)
      BY <3>1 DEF DrainEnds
    <3>2. CASE ~DrainEnds(d)
      BY <2>1, <3>2, ReleasedType DEF Types, AwayInv
    <3> QED
      BY <3>1, <3>2
  <2>7. AwayInv'
    <3>1. ASSUME NEW e \in Device, e # d, state'[e] = "away"
          PROVE  HeldNow(e)' = {} /\ plan'[e].start = {}
      BY <2>1, <3>1 DEF Types, AwayInv, HeldNow
    <3>2. ASSUME state'[d] = "away"
          PROVE  HeldNow(d)' = {} /\ plan'[d].start = {}
      BY <2>1, <2>6, <3>2 DEF Types, HeldNow, NoPlan
    <3> QED
      BY <3>1, <3>2 DEF AwayInv
  <2> QED
    BY <2>3, <2>4, <2>5, <2>7
<1>7. ASSUME NEW d \in Device, d \in Owners, NEW st \in DeviceState,
             state' = [state EXCEPT ![d] = st],
             st = "away" => state[d] = "away",
             graceOver' \in [Device -> BOOLEAN],
             PublishRow(d, st, held[d]),
             UNCHANGED <<up, held, plan>>
      PROVE  Inv'
  <2>1. Types'
    BY <1>7, PublishType DEF Types
  <2>2. DrainInv'
    BY <1>7 DEF Types, DrainInv
  <2> QED
    BY <1>7, <2>1, <2>2, CalmInv DEF Types, HeldNow
<1>8. ASSUME NEW d \in Device, OwnerBusy(d) PROVE Inv'
  <2> DEFINE st == IF state[d] = "active" THEN "draining" ELSE state[d]
  <2>1. st \in DeviceState /\ (st = "away" => state[d] = "away")
    BY DEF Types, DeviceState
  <2>2. /\ state' = [state EXCEPT ![d] = st]
        /\ PublishRow(d, state'[d], held[d])
        /\ graceOver' = [graceOver EXCEPT ![d] = graceOver[d] /\ state[d] # "active"]
        /\ d \in Owners
        /\ UNCHANGED <<up, held, plan>>
    BY <1>8 DEF OwnerBusy
  <2>3. state'[d] = st
    BY <2>2 DEF Types
  <2>4. graceOver' \in [Device -> BOOLEAN]
    BY <2>2 DEF Types
  <2> QED
    BY <1>7, <2>1, <2>2, <2>3, <2>4
<1>9. ASSUME NEW d \in Device, OwnerIdle(d) PROVE Inv'
  <2> DEFINE st == IF state[d] \in {"draining", "away"} THEN "active" ELSE state[d]
  <2>1. st \in DeviceState /\ (st = "away" => state[d] = "away")
    BY DEF Types, DeviceState
  <2>2. /\ state' = [state EXCEPT ![d] = st]
        /\ PublishRow(d, state'[d], held[d])
        /\ d \in Owners
        /\ UNCHANGED <<up, held, graceOver, plan>>
    BY <1>9 DEF OwnerIdle
  <2>3. state'[d] = st
    BY <2>2 DEF Types
  <2> QED
    BY <1>7, <2>1, <2>2, <2>3 DEF Types
<1>10. ASSUME UNCHANGED <<up, state, plan>>,
              held' \in [Device -> [Stage -> StageStatus]],
              view' \in [Device -> [Device -> HostRow]],
              graceOver' \in [Device -> BOOLEAN],
              \A d \in Device : HeldNow(d)' \subseteq HeldNow(d)
       PROVE  Inv'
  BY <1>10, CalmInv DEF Types, DrainInv
<1>11. ASSUME NEW d \in Device, GraceRunsOut(d) PROVE Inv'
  BY <1>10, <1>11 DEF GraceRunsOut, Types, HeldNow
<1>12. ASSUME NEW d \in Device, NEW s \in Stage, LoadDone(d, s) \/ LoadFails(d, s)
       PROVE  Inv'
  <2>0. PICK status \in StageStatus :
          held[d][s] = "loading" /\ held' = [held EXCEPT ![d][s] = status]
    BY <1>12 DEF LoadDone, LoadFails, StageStatus
  <2>1. held' \in [Device -> [Stage -> StageStatus]]
    BY <2>0 DEF Types
  <2>2. \A e \in Device : HeldNow(e)' \subseteq HeldNow(e)
    BY <2>0 DEF Types, HeldNow
  <2>3. UNCHANGED <<up, state, view, graceOver, plan>>
    BY <1>12 DEF LoadDone, LoadFails
  <2>4. view' \in [Device -> [Device -> HostRow]] /\ graceOver' \in [Device -> BOOLEAN]
    BY <2>3 DEF Types
  <2> QED
    BY <1>10, <2>1, <2>2, <2>3, <2>4
<1>13. ASSUME NEW r \in Device, NEW d \in Device, Hear(r, d) \/ Suspect(r, d)
       PROVE  Inv'
  <2>1. UNCHANGED <<up, state, held, graceOver, plan>>
    BY <1>13 DEF Hear, Suspect
  <2>2. view' \in [Device -> [Device -> HostRow]]
    <3>1. CASE Hear(r, d)
      <4>1. view' = [view EXCEPT ![r][d] = view[d][d]]
        BY <3>1 DEF Hear
      <4> QED
        BY <4>1 DEF Types
    <3>2. CASE Suspect(r, d)
      BY <3>2 DEF Suspect, Types
    <3> QED
      BY <1>13, <3>1, <3>2
  <2> QED
    BY <1>10, <2>1, <2>2 DEF Types, HeldNow
<1>14. ASSUME NEW r \in Device, NEW d \in Device, NEW s \in Stage,
              Route(r, d, s) \/ EndPass(d, s) \/ NextPass(d, s) \/ EndQuestion(d, s)
       PROVE  Inv'
  BY <1>10, <1>14 DEF Route, EndPass, NextPass, EndQuestion, Types, HeldNow
<1>15. CASE UNCHANGED vars
  BY <1>10, <1>15 DEF vars, Types, HeldNow
<1> QED
  BY <1>1, <1>2, <1>3, <1>4, <1>5, <1>6, <1>8, <1>9, <1>11, <1>12, <1>13, <1>14, <1>15
     DEF Next

LEMMA Invariance == Spec => []Inv
BY InvInit, InvStep, PTL DEF Spec

-----------------------------------------------------------------------------
(* Types. *)

LEMMA MembersView ==
  ASSUME Types, NEW d \in Device
  PROVE  /\ IsView(Members(d)) /\ d \in DOMAIN Members(d)
         /\ Members(d)[d] = view[d][d]
         /\ WantedStages(Members(d)) \in Sound(Members(d))
         /\ WantedStages(Members(d))[d] \subseteq Stage
<1>1. IsView(Members(d)) /\ d \in DOMAIN Members(d) /\ Members(d)[d] = view[d][d]
  BY DEF Types, Members, Alive, IsView
<1>2. WantedStages(Members(d)) \in Sound(Members(d))
  BY <1>1, PlanIsSound
<1>3. WantedStages(Members(d))[d] \subseteq Stage
  BY <1>1, <1>2 DEF Sound, Plans
<1> QED
  BY <1>1, <1>2, <1>3

\* Every step records what drains rely on.
LEMMA Recorded == Next => Record
BY DEF Next, Start, Crash, Leave, Close, PublishBeat, Decide, Act, OwnerBusy, OwnerIdle,
       GraceRunsOut, LoadDone, LoadFails, Hear, Suspect, Route, EndPass, NextPass, EndQuestion

LEMMA HistoryType ==
  ASSUME basis \in [Device -> [Stage -> SUBSET Device]], Record
  PROVE  /\ basis' \in [Device -> [Stage -> SUBSET Device]]
         /\ lasting' \in [Device -> [Stage -> SUBSET Device]]
<1>1. basis' \in [Device -> [Stage -> SUBSET Device]]
  <2>1. \A d \in Device, s \in Stage : ReadyElsewhere(d, s) \subseteq Device
    BY DEF ReadyElsewhere, ActiveOthers, Alive
  <2> DEFINE next(d) ==
        IF Decides(d)
          THEN [s \in Stage |-> IF s \in plan'[d].release THEN ReadyElsewhere(d, s) ELSE {}]
        ELSE IF pc'[d] = "act" THEN basis[d] ELSE NoBasis
  <2>2. basis' = [d \in Device |-> next(d)]
    BY DEF Record
  <2>3. ASSUME NEW d \in Device PROVE next(d) \in [Stage -> SUBSET Device]
    BY <2>1 DEF NoBasis
  <2> HIDE DEF next
  <2> QED
    BY <2>2, <2>3
<1>2. \A d \in Device, s \in Stage : lasting'[d][s] \subseteq basis'[d][s]
  BY DEF Record
<1>3. lasting' = [d \in Device |-> [s \in Stage |-> lasting'[d][s]]]
  BY DEF Record
<1> QED
  BY <1>1, <1>2, <1>3

LEMMA TypeInit == Init => TypeOK
<1> SUFFICES ASSUME Init PROVE TypeOK
  OBVIOUS
<1>1. NoPlan \in Plan /\ NoWork \in [Stage -> Work] /\ NoBasis \in [Stage -> SUBSET Device]
  BY DEF NoPlan, Plan, NoWork, Work, DeviceState, NoBasis
<1> QED
  BY <1>1, FirstRowType, DisruptionAssumption DEF Init, TypeOK, DeviceState

LEMMA TypeStep == TypeOK /\ Inv /\ Inv' /\ [Next]_vars => TypeOK'
<1> SUFFICES ASSUME TypeOK, Inv, Inv', [Next]_vars PROVE TypeOK'
  OBVIOUS
<1>1. Types'
  BY DEF Inv
<1>2. work' \in [Device -> [Stage -> Work]]
  <2>0. work \in [Device -> [Stage -> Work]]
    BY DEF TypeOK
  <2>1. ASSUME NEW d \in Device, Crash(d) \/ Close(d) PROVE work' \in [Device -> [Stage -> Work]]
    <3>1. work' = [work EXCEPT ![d] = NoWork]
      BY <2>1 DEF Crash, Close, End
    <3>2. NoWork \in [Stage -> Work]
      BY DEF NoWork, Work
    <3> QED
      BY <2>0, <3>1, <3>2
  <2>2. ASSUME NEW d \in Device, Act(d) PROVE work' \in [Device -> [Stage -> Work]]
    BY <2>0, <2>2 DEF Act, Work
  <2>3. ASSUME NEW r \in Device, NEW d \in Device, NEW s \in Stage,
               Route(r, d, s) \/ EndPass(d, s) \/ NextPass(d, s) \/ EndQuestion(d, s)
        PROVE  work' \in [Device -> [Stage -> Work]]
    <3>1. PICK k \in Work : work' = [work EXCEPT ![d][s] = k]
      BY <2>3 DEF Route, EndPass, NextPass, EndQuestion, Work
    <3> QED
      BY <3>1 DEF TypeOK
  <2>4. ASSUME UNCHANGED work PROVE work' \in [Device -> [Stage -> Work]]
    BY <2>4 DEF TypeOK
  <2> QED
    BY <2>1, <2>2, <2>3, <2>4
       DEF Next, vars, Start, Leave, PublishBeat, Decide, OwnerBusy, OwnerIdle, GraceRunsOut,
           LoadDone, LoadFails, Hear, Suspect
<1>3. heard' \in [Device -> [Device -> BOOLEAN]]
  <2>1. ASSUME NEW d \in Device, Crash(d) \/ Close(d)
        PROVE  heard' \in [Device -> [Device -> BOOLEAN]]
    <3>1. PICK h \in [Device -> BOOLEAN] : heard' = [heard EXCEPT ![d] = h]
      BY <2>1 DEF Crash, Close, End
    <3> QED
      BY <3>1 DEF TypeOK
  <2>2. ASSUME NEW r \in Device, NEW d \in Device, Hear(r, d) \/ Suspect(r, d)
        PROVE  heard' \in [Device -> [Device -> BOOLEAN]]
    <3>1. PICK b \in BOOLEAN : heard' = [heard EXCEPT ![r][d] = b]
      BY <2>2 DEF Hear, Suspect
    <3> QED
      BY <3>1 DEF TypeOK
  <2>3. ASSUME UNCHANGED heard PROVE heard' \in [Device -> [Device -> BOOLEAN]]
    BY <2>3 DEF TypeOK
  <2> QED
    BY <2>1, <2>2, <2>3
       DEF Next, vars, Start, Leave, PublishBeat, Decide, Act, OwnerBusy, OwnerIdle,
           GraceRunsOut, LoadDone, LoadFails, Route, EndPass, NextPass, EndQuestion
<1>4. pc' \in [Device -> {"idle", "decide", "act"}]
  BY DEF TypeOK, Next, vars, Start, Crash, Leave, Close, End, PublishBeat, Decide, Act, OwnerBusy,
     OwnerIdle, GraceRunsOut, LoadDone, LoadFails, Hear, Suspect, Route, EndPass, NextPass,
     EndQuestion
<1>5. plan' \in [Device -> Plan]
  <2>1. ASSUME NEW d \in Device, Decide(d) PROVE plan' \in [Device -> Plan]
    <3>1. WantedStages(Members(d))[d] \subseteq Stage /\ HeldNow(d) \subseteq Stage
      BY MembersView DEF Inv, HeldNow
    <3>2. state[d] \in DeviceState /\ graceOver[d] \in BOOLEAN
      BY DEF TypeOK
    <3> DEFINE begin == IF state[d] = "active"
                        THEN WantedStages(Members(d))[d] \ HeldNow(d) ELSE {}
               release == IF state[d] \in {"draining", "away"}
                          THEN {s \in HeldNow(d) : SafeToRelease(d, s)} ELSE {}
               p == [was |-> state[d], start |-> begin, release |-> release,
                     forced |-> graceOver[d]]
    <3>3. begin \in SUBSET Stage /\ release \in SUBSET Stage
      BY <3>1
    <3>4. plan' = [plan EXCEPT ![d] = p]
      BY <2>1 DEF Decide
    <3>5. p \in Plan
      <4> HIDE DEF begin, release
      <4> QED
        BY <3>2, <3>3 DEF Plan
    <3> HIDE DEF p
    <3> QED
      BY <3>4, <3>5 DEF TypeOK
  <2>2. ASSUME NEW d \in Device, Crash(d) \/ Close(d) \/ Act(d) PROVE plan' \in [Device -> Plan]
    <3>1. NoPlan \in Plan
      BY DEF NoPlan, Plan, DeviceState
    <3>2. plan' = [plan EXCEPT ![d] = NoPlan]
      BY <2>2 DEF Crash, Close, End, Act
    <3> QED
      BY <3>1, <3>2 DEF TypeOK
  <2>3. ASSUME UNCHANGED plan PROVE plan' \in [Device -> Plan]
    BY <2>3 DEF TypeOK
  <2> QED
    BY <2>1, <2>2, <2>3
       DEF Next, vars, Start, Leave, PublishBeat, OwnerBusy, OwnerIdle, GraceRunsOut, LoadDone,
           LoadFails, Hear, Suspect, Route, EndPass, NextPass, EndQuestion
<1>6. disrupted' \in 0..MaxDisruptions
  <2>1. ASSUME Disrupt PROVE disrupted' \in 0..MaxDisruptions
    BY <2>1, DisruptionAssumption DEF Disrupt, TypeOK
  <2>2. ASSUME UNCHANGED disrupted PROVE disrupted' \in 0..MaxDisruptions
    BY <2>2 DEF TypeOK
  <2> QED
    BY <2>1, <2>2
       DEF Next, vars, Start, Crash, Leave, Close, PublishBeat, Decide, Act, OwnerBusy, OwnerIdle,
           GraceRunsOut, LoadDone, LoadFails, Hear, Suspect, Route, EndPass, NextPass, EndQuestion
<1>7. /\ basis' \in [Device -> [Stage -> SUBSET Device]]
      /\ lasting' \in [Device -> [Stage -> SUBSET Device]]
  <2>1. CASE Next
    BY <2>1, Recorded, HistoryType DEF TypeOK
  <2>2. CASE UNCHANGED vars
    BY <2>2 DEF vars, history, TypeOK
  <2> QED
    BY <2>1, <2>2
<1> QED
  BY <1>1, <1>2, <1>3, <1>4, <1>5, <1>6, <1>7 DEF Types, TypeOK

-----------------------------------------------------------------------------
(* Memory. A beat decides on the row its device last published. What is held by the
   time it acts is within that row, and row and decision together fit in memory. *)

\* What d says it holds, and what its beat means to start.
Claimed(d) == HeldIn(view[d][d]) \cup plan[d].start

Fits(d) ==
  /\ HeldNow(d) \subseteq HeldIn(view[d][d])
  /\ view[d][d].state = state[d]
  /\ Cardinality(Claimed(d)) <= Slots[d]
  /\ up[d] \/ HeldNow(d) = {}

FitsInv == \A d \in Device : Fits(d)

LEMMA ClaimedSize ==
  ASSUME TypeOK, NEW d \in Device, NEW H \in SUBSET Claimed(d)
  PROVE  Cardinality(Claimed(d)) <= Slots[d] => Cardinality(H) <= Slots[d]
<1>1. Claimed(d) \subseteq Stage
  BY DEF Claimed, HeldIn, TypeOK, Plan
<1>2. IsFiniteSet(Claimed(d))
  BY <1>1, StageFinite, FS_Subset
<1>3. /\ Cardinality(H) \in Nat /\ Cardinality(Claimed(d)) \in Nat
      /\ Cardinality(H) <= Cardinality(Claimed(d))
  BY <1>2, FS_Subset, FS_CardinalityType
<1>4. Slots[d] \in Nat
  BY PlacementAssumption
<1> QED
  BY <1>3, <1>4

\* Whatever claims no more than before goes on fitting.
LEMMA FitsStays ==
  ASSUME TypeOK, NEW d \in Device, Fits(d),
         HeldNow(d)' \subseteq HeldIn(view[d][d])',
         view'[d][d].state = state'[d],
         HeldIn(view[d][d])' \subseteq Claimed(d), plan'[d].start \subseteq Claimed(d),
         up'[d] \/ HeldNow(d)' = {}
  PROVE  Fits(d)'
<1>1. Claimed(d)' \in SUBSET Claimed(d)
  BY DEF Claimed
<1>2. Cardinality(Claimed(d)') <= Slots[d]
  BY <1>1, ClaimedSize DEF Fits
<1> QED
  BY <1>2 DEF Fits

\* A device whose own row, plan and stages stay as they are is such a one.
LEMMA FitsAlone ==
  ASSUME TypeOK, NEW d \in Device, Fits(d), view'[d][d] = view[d][d], plan'[d] = plan[d],
         state'[d] = state[d], up'[d] = up[d], HeldNow(d)' \subseteq HeldNow(d)
  PROVE  Fits(d)'
BY FitsStays DEF Fits, Claimed

\* ... and so is one that publishes what it holds.
LEMMA FitsPublished ==
  ASSUME TypeOK, NEW d \in Device, Fits(d),
         PublishRow(d, state'[d], held'[d]), up'[d],
         HeldNow(d)' \subseteq Claimed(d), plan'[d].start \subseteq Claimed(d)
  PROVE  Fits(d)'
<1>1. view'[d][d] = [state |-> state'[d], hosting |-> held'[d]]
  BY DEF PublishRow, TypeOK
<1>2. HeldIn(view[d][d])' = HeldNow(d)'
  BY <1>1 DEF HeldIn, HeldNow
<1> QED
  BY <1>1, <1>2, FitsStays

LEMMA FitsInit == Init => FitsInv
<1> SUFFICES ASSUME Init, NEW d \in Device PROVE Fits(d)
  BY DEF FitsInv
<1>1. HeldNow(d) = {} /\ Claimed(d) = {} /\ view[d][d].state = state[d]
  BY DEF Init, HeldNow, Claimed, HeldIn, FirstRow, Nothing, NoPlan
<1>2. Cardinality({}) <= Slots[d]
  BY FS_EmptySet, PlacementAssumption
<1> QED
  BY <1>1, <1>2 DEF Fits

\* What the beat decides to start, with what its row says, is part of a plan.
LEMMA FitsDecided ==
  ASSUME TypeOK, Inv, NEW d \in Device, Fits(d), Decide(d)
  PROVE  Fits(d)'
<1>1. /\ UNCHANGED <<up, state, held, view>>
      /\ plan'[d].start = IF state[d] = "active"
                          THEN WantedStages(Members(d))[d] \ HeldNow(d) ELSE {}
  BY DEF Decide, TypeOK
<1>2. CASE state[d] # "active"
  <2>1. /\ HeldNow(d)' = HeldNow(d) /\ HeldIn(view[d][d])' = HeldIn(view[d][d])
        /\ view'[d][d] = view[d][d] /\ plan'[d].start = {}
    BY <1>1, <1>2 DEF HeldNow, HeldIn
  <2> QED
    BY <1>1, <2>1, FitsStays DEF Fits, Claimed
<1>3. CASE state[d] = "active"
  <2> DEFINE W == WantedStages(Members(d))
  <2>1. /\ W \in Sound(Members(d)) /\ d \in DOMAIN Members(d)
        /\ Members(d)[d] = view[d][d] /\ W[d] \subseteq Stage
    BY MembersView DEF Inv
  <2>2. d \in Eligible(Members(d))
    BY <1>3, <2>1 DEF Eligible, Fits
  <2>3. Cardinality(HeldIn(view[d][d])) <= Slots[d]
    BY ClaimedSize DEF Fits, Claimed
  <2>4. HeldIn(view[d][d]) \subseteq W[d] /\ Cardinality(W[d]) <= Slots[d]
    <3> HIDE DEF W
    <3> QED
      BY <2>1, <2>2, <2>3 DEF Sound
  <2>5. plan'[d].start \subseteq W[d]
    BY <1>1, <1>3
  <2> HIDE DEF W
  <2>6. Claimed(d)' \subseteq W[d]
    BY <1>1, <2>4, <2>5 DEF Claimed
  <2>7. IsFiniteSet(W[d])
    BY <2>1, StageFinite, FS_Subset
  <2>8. /\ Cardinality(Claimed(d)') \in Nat /\ Cardinality(W[d]) \in Nat
        /\ Cardinality(Claimed(d)') <= Cardinality(W[d])
    BY <2>6, <2>7, FS_Subset, FS_CardinalityType
  <2>9. Cardinality(Claimed(d)') <= Slots[d]
    BY <2>4, <2>8, PlacementAssumption
  <2> QED
    BY <1>1, <2>9 DEF Fits, HeldNow
<1> QED
  BY <1>2, <1>3

LEMMA FitsStep ==
  ASSUME TypeOK, Inv, FitsInv, [Next]_vars
  PROVE  FitsInv'
<1> SUFFICES ASSUME NEW e \in Device PROVE Fits(e)'
  BY DEF FitsInv
<1>0. Fits(e)
  BY DEF FitsInv
<1>1. ASSUME NEW d \in Device, d # e,
             \/ Start(d) \/ Crash(d) \/ Close(d) \/ Leave(d) \/ Decide(d) \/ Act(d)
             \/ OwnerBusy(d) \/ OwnerIdle(d) \/ GraceRunsOut(d)
             \/ \E forgotten \in SUBSET Stage : PublishBeat(d, forgotten)
      PROVE  Fits(e)'
  <2>1. view'[e][e] = view[e][e] /\ plan'[e] = plan[e]
    BY <1>1 DEF Start, Crash, Close, Leave, End, PublishBeat, PublishRow, Decide, Act, OwnerBusy,
       OwnerIdle, GraceRunsOut, TypeOK
  <2>2. state'[e] = state[e] /\ up'[e] = up[e] /\ held'[e] = held[e]
    BY <1>1 DEF Start, Crash, Close, Leave, End, PublishBeat, Decide, Act, OwnerBusy, OwnerIdle,
       GraceRunsOut, TypeOK
  <2> QED
    BY <1>0, <2>1, <2>2, FitsAlone DEF HeldNow
<1>2. ASSUME Start(e) PROVE Fits(e)'
  <2>1. /\ up'[e] /\ state'[e] = "active" /\ plan'[e] = plan[e] /\ held'[e] = held[e]
        /\ view'[e][e] = [state |-> "active", hosting |-> Nothing] /\ HeldNow(e) = {}
    BY <1>0, <1>2 DEF Start, PublishRow, TypeOK, Fits
  <2> QED
    BY <1>0, <2>1, FitsStays DEF HeldNow, HeldIn, Nothing, Claimed
<1>3. ASSUME Crash(e) \/ Close(e) PROVE Fits(e)'
  <2>1. /\ state'[e] = "active" /\ plan'[e] = NoPlan /\ held'[e] = Nothing
        /\ view'[e][e] = FirstRow
    BY <1>3 DEF Crash, Close, End, TypeOK
  <2>2. HeldNow(e)' = {} /\ HeldIn(FirstRow) = {}
    BY <2>1 DEF HeldNow, HeldIn, Nothing, FirstRow
  <2> QED
    BY <1>0, <2>1, <2>2, FitsStays DEF NoPlan, FirstRow
<1>4. ASSUME Leave(e) \/ OwnerBusy(e) \/ OwnerIdle(e) PROVE Fits(e)'
  <2>1. /\ up'[e] /\ held' = held /\ plan' = plan /\ PublishRow(e, state'[e], held'[e])
        /\ HeldNow(e)' = HeldNow(e)
    BY <1>4 DEF Leave, OwnerBusy, OwnerIdle, TypeOK, HeldNow
  <2> QED
    BY <1>0, <2>1, FitsPublished DEF Fits, Claimed
<1>5. ASSUME NEW forgotten \in SUBSET Stage, PublishBeat(e, forgotten) PROVE Fits(e)'
  <2>1. /\ up'[e] /\ plan' = plan /\ state' = state
        /\ held'[e] = [s \in Stage |-> IF s \in forgotten THEN "absent" ELSE held[e][s]]
        /\ PublishRow(e, state'[e], held'[e])
    BY <1>5 DEF PublishBeat, TypeOK
  <2>2. HeldNow(e)' \subseteq HeldNow(e)
    BY <2>1 DEF HeldNow
  <2> QED
    BY <1>0, <2>1, <2>2, FitsPublished DEF Fits, Claimed
<1>6. ASSUME Decide(e) PROVE Fits(e)'
  BY <1>0, <1>6, FitsDecided
<1>7. ASSUME Act(e) PROVE Fits(e)'
  <2>1. /\ up'[e] /\ plan'[e] = NoPlan /\ held'[e] = Released(e)
        /\ PublishRow(e, state'[e], held'[e])
    BY <1>7 DEF Act, TypeOK
  <2>2. \A s \in Stage : Released(e)[s] \in {"loading", "ready"} =>
                           s \in HeldNow(e) \cup plan[e].start
    BY DEF Released, Started, HeldNow
  <2>3. HeldNow(e)' \subseteq HeldNow(e) \cup plan[e].start
    BY <2>1, <2>2 DEF HeldNow
  <2>4. HeldNow(e)' \subseteq Claimed(e) /\ plan'[e].start \subseteq Claimed(e)
    BY <1>0, <2>1, <2>3 DEF Fits, Claimed, NoPlan
  <2> QED
    BY <1>0, <2>1, <2>4, FitsPublished
<1>8. ASSUME GraceRunsOut(e) PROVE Fits(e)'
  BY <1>0, <1>8, FitsAlone DEF GraceRunsOut, HeldNow
<1>9. ASSUME NEW d \in Device, NEW s \in Stage, LoadDone(d, s) \/ LoadFails(d, s)
      PROVE  Fits(e)'
  <2>1. HeldNow(e)' \subseteq HeldNow(e)
    <3>1. PICK status \in StageStatus : held' = [held EXCEPT ![d][s] = status]
      BY <1>9 DEF LoadDone, LoadFails, StageStatus
    <3>2. \A t \in Stage : held'[e][t] = IF d = e /\ s = t THEN status ELSE held[e][t]
      BY <3>1 DEF Inv, Types
    <3>3. s \in HeldNow(d)
      BY <1>9 DEF LoadDone, LoadFails, HeldNow
    <3> QED
      BY <3>2, <3>3 DEF HeldNow
  <2> QED
    BY <1>0, <1>9, <2>1, FitsAlone DEF LoadDone, LoadFails
<1>10. ASSUME NEW r \in Device, NEW d \in Device, Hear(r, d) \/ Suspect(r, d) PROVE Fits(e)'
  <2>1. view'[e][e] = view[e][e]
    <3>1. CASE Hear(r, d)
      <4>1. r # d /\ view' = [view EXCEPT ![r][d] = view[d][d]]
        BY <3>1 DEF Hear
      <4> QED
        BY <4>1 DEF Inv, Types
    <3>2. CASE Suspect(r, d)
      BY <3>2 DEF Suspect
    <3> QED
      BY <1>10, <3>1, <3>2
  <2> QED
    BY <1>0, <1>10, <2>1, FitsAlone DEF Hear, Suspect, HeldNow
<1>11. ASSUME UNCHANGED <<up, state, held, view, plan>> PROVE Fits(e)'
  BY <1>0, <1>11, FitsAlone DEF HeldNow
<1> QED
  BY <1>1, <1>2, <1>3, <1>4, <1>5, <1>6, <1>7, <1>8, <1>9, <1>10, <1>11
     DEF Next, vars, Route, EndPass, NextPass, EndQuestion

LEMMA TypeInvariance == Spec => [](TypeOK /\ FitsInv)
<1>1. Init => TypeOK /\ FitsInv
  BY TypeInit, FitsInit
<1>2. TypeOK /\ FitsInv /\ Inv /\ Inv' /\ [Next]_vars => (TypeOK /\ FitsInv)'
  BY TypeStep, FitsStep
<1> QED
  BY <1>1, <1>2, Invariance, PTL DEF Spec

-----------------------------------------------------------------------------
(* What gives up a ready copy. *)

\* Only a beat that acts, on a stage it had decided to release.
LEMMA DropsAreReleases ==
  ASSUME Inv, [Next]_vars, NEW d \in Device, NEW s \in Stage, Drops(d, s)
  PROVE  s \in plan[d].release
<1> USE DEF Inv, Types, Drops
<1>1. ASSUME NEW e \in Device, Act(e) PROVE s \in plan[d].release
  <2>1. e = d
    BY <1>1 DEF Act
  <2>2. held'[d] = Released(d)
    BY <1>1, <2>1 DEF Act
  <2> QED
    BY <2>2, ReleasedType
<1>2. ASSUME NEW e \in Device, NEW forgotten \in SUBSET Stage, PublishBeat(e, forgotten)
      PROVE  FALSE
  BY <1>2 DEF PublishBeat
<1>3. ASSUME NEW e \in Device, Crash(e) \/ Close(e) PROVE FALSE
  BY <1>3 DEF Crash, Close, End
<1>4. ASSUME NEW e \in Device, NEW t \in Stage, LoadDone(e, t) \/ LoadFails(e, t)
      PROVE  FALSE
  BY <1>4 DEF LoadDone, LoadFails
<1>5. ASSUME UNCHANGED held PROVE FALSE
  BY <1>5
<1> QED
  BY <1>1, <1>2, <1>3, <1>4, <1>5
     DEF Next, vars, Start, Leave, Decide, OwnerBusy, OwnerIdle, GraceRunsOut, Hear,
         Suspect, Route, EndPass, NextPass, EndQuestion

-----------------------------------------------------------------------------
(* Whom a drain relies on. *)

\* What a device published last is true of what it holds.
RowsTrue ==
  \A e \in Device : \A s \in Stage :
    view[e][e].hosting[s] = "ready" => held[e][s] = "ready"

\* Whoever a beat relies on still hosts the stage.
LastingTrue ==
  \A d \in Device : \A s \in Stage : \A e \in lasting[d][s] :
    e \in Device /\ Hosts(e) /\ held[e][s] = "ready"

\* A beat that means to release something is about to act, and unless it is forced
\* somebody told it that he has the stage.
BasisInv ==
  \A d \in Device : \A s \in plan[d].release :
    pc[d] = "act" /\ s \in Stage /\ (plan[d].forced \/ basis[d][s] # {})

ReliedInv == TypeOK /\ Inv /\ RowsTrue /\ LastingTrue /\ BasisInv

\* A ready copy on a device that goes on running and means to release nothing stays.
LEMMA ReadyStays ==
  ASSUME Inv, [Next]_vars, NEW e \in Device, NEW s \in Stage,
         up[e], up'[e], plan[e].release = {}, held[e][s] = "ready"
  PROVE  held'[e][s] = "ready"
<1> USE DEF Inv, Types
<1>1. ASSUME NEW d \in Device, Act(d) PROVE held'[e][s] = "ready"
  <2>1. CASE d # e
    BY <1>1, <2>1 DEF Act
  <2>2. CASE d = e
    <3>1. held'[e] = Released(e)
      BY <1>1, <2>2 DEF Act
    <3> QED
      BY <3>1 DEF Released, Started, Stopping, HeldNow
  <2> QED
    BY <2>1, <2>2
<1>2. ASSUME NEW d \in Device, NEW forgotten \in SUBSET Stage, PublishBeat(d, forgotten)
      PROVE  held'[e][s] = "ready"
  BY <1>2 DEF PublishBeat
<1>3. ASSUME NEW d \in Device, Crash(d) \/ Close(d) PROVE held'[e][s] = "ready"
  BY <1>3 DEF Crash, Close, End
<1>4. ASSUME NEW d \in Device, NEW t \in Stage, LoadDone(d, t) \/ LoadFails(d, t)
      PROVE  held'[e][s] = "ready"
  BY <1>4 DEF LoadDone, LoadFails
<1> QED
  BY <1>1, <1>2, <1>3, <1>4
     DEF Next, vars, Start, Leave, Decide, OwnerBusy, OwnerIdle, GraceRunsOut, Hear,
         Suspect, Route, EndPass, NextPass, EndQuestion

\* Own rows stay true if each is kept while the copies it names are, or is what its
\* device holds.
LEMMA RowsStayTrue ==
  ASSUME RowsTrue,
         \A e \in Device : \A s \in Stage :
           \/ /\ view'[e][e] = view[e][e]
              /\ held[e][s] = "ready" => held'[e][s] = "ready"
           \/ view'[e][e].hosting[s] = "ready" => held'[e][s] = "ready"
  PROVE  RowsTrue'
BY DEF RowsTrue

\* Daemon.publish writes what the device holds.
LEMMA PublishTrue ==
  ASSUME Inv, RowsTrue, NEW d \in Device, NEW st, PublishRow(d, st, held'[d]),
         \A e \in Device \ {d} : held'[e] = held[e]
  PROVE  RowsTrue'
<1>1. view'[d][d].hosting = held'[d] /\ \A e \in Device \ {d} : view'[e][e] = view[e][e]
  BY DEF PublishRow, Inv, Types
<1> QED
  BY <1>1, RowsStayTrue

LEMMA RowsStep == Inv /\ RowsTrue /\ [Next]_vars => RowsTrue'
<1> SUFFICES ASSUME Inv, RowsTrue, [Next]_vars PROVE RowsTrue'
  OBVIOUS
<1> USE DEF Inv, Types
<1>1. ASSUME NEW d \in Device, Start(d) PROVE RowsTrue'
  <2>1. /\ view' = [view EXCEPT ![d][d] = FirstRow] /\ held' = held
        /\ \A s \in Stage : FirstRow.hosting[s] # "ready"
    BY <1>1 DEF Start, PublishRow, FirstRow, Nothing
  <2> QED
    BY <2>1, RowsStayTrue
<1>2. ASSUME NEW d \in Device, Crash(d) \/ Close(d) PROVE RowsTrue'
  <2>1. /\ view'[d] = [e \in Device |-> FirstRow]
        /\ \A s \in Stage : FirstRow.hosting[s] # "ready"
        /\ \A e \in Device \ {d} : view'[e] = view[e] /\ held'[e] = held[e]
    BY <1>2 DEF Crash, Close, End, FirstRow, Nothing
  <2> QED
    BY <2>1, RowsStayTrue
<1>3. ASSUME NEW d \in Device, Leave(d) PROVE RowsTrue'
  BY <1>3, PublishTrue DEF Leave
<1>4. ASSUME NEW d \in Device, NEW forgotten \in SUBSET Stage, PublishBeat(d, forgotten)
      PROVE  RowsTrue'
  <2>1. PublishRow(d, state[d], held'[d]) /\ \A e \in Device \ {d} : held'[e] = held[e]
    BY <1>4 DEF PublishBeat
  <2> QED
    BY <2>1, PublishTrue
<1>5. ASSUME NEW d \in Device, Act(d) PROVE RowsTrue'
  <2>1. PublishRow(d, state'[d], held'[d]) /\ \A e \in Device \ {d} : held'[e] = held[e]
    BY <1>5 DEF Act
  <2> QED
    BY <2>1, PublishTrue
<1>6. ASSUME NEW d \in Device, OwnerBusy(d) \/ OwnerIdle(d) PROVE RowsTrue'
  <2>1. PublishRow(d, state'[d], held'[d]) /\ held' = held
    BY <1>6 DEF OwnerBusy, OwnerIdle
  <2> QED
    BY <2>1, PublishTrue
<1>7. ASSUME NEW r \in Device, NEW d \in Device, Hear(r, d) PROVE RowsTrue'
  <2>1. held' = held /\ \A e \in Device : view'[e][e] = view[e][e]
    BY <1>7 DEF Hear
  <2> QED
    BY <2>1, RowsStayTrue
<1>8. ASSUME NEW d \in Device, NEW s \in Stage, LoadDone(d, s) \/ LoadFails(d, s)
      PROVE  RowsTrue'
  <2>1. view' = view /\ held[d][s] = "loading"
    BY <1>8 DEF LoadDone, LoadFails
  <2>2. PICK status \in StageStatus : held' = [held EXCEPT ![d][s] = status]
    BY <1>8 DEF LoadDone, LoadFails, StageStatus
  <2>3. \A e \in Device : \A t \in Stage : held[e][t] = "ready" => held'[e][t] = "ready"
    BY <2>1, <2>2
  <2> QED
    BY <2>1, <2>3, RowsStayTrue
<1>9. ASSUME UNCHANGED <<view, held>> PROVE RowsTrue'
  BY <1>9, RowsStayTrue
<1> QED
  BY <1>1, <1>2, <1>3, <1>4, <1>5, <1>6, <1>7, <1>8, <1>9
     DEF Next, vars, Decide, GraceRunsOut, Suspect, Route, EndPass, NextPass, EndQuestion

\* A beat begins to act by deciding, and what it decided stays until it has acted.
LEMMA ActStep ==
  ASSUME TypeOK, [Next]_vars, NEW d \in Device
  PROVE  /\ Decides(d) => Decide(d)
         /\ \/ Decide(d)
            \/ plan'[d] = NoPlan
            \/ plan'[d] = plan[d] /\ (pc[d] = "act" => pc'[d] = "act")
<1> USE DEF TypeOK, Decides
<1>1. ASSUME NEW e \in Device, Decide(e)
      PROVE  Decide(d) \/ (plan'[d] = plan[d] /\ pc'[d] = pc[d])
  <2>1. CASE e = d
    BY <1>1, <2>1
  <2>2. CASE e # d
    BY <1>1, <2>2 DEF Decide
  <2> QED
    BY <2>1, <2>2
<1>2. ASSUME NEW e \in Device, Crash(e) \/ Close(e) \/ Act(e)
      PROVE  (plan'[d] = NoPlan /\ pc'[d] = "idle") \/ (plan'[d] = plan[d] /\ pc'[d] = pc[d])
  BY <1>2 DEF Crash, Close, End, Act
<1>3. ASSUME NEW e \in Device, NEW forgotten \in SUBSET Stage, PublishBeat(e, forgotten)
      PROVE  /\ plan'[d] = plan[d]
             /\ pc'[d] = pc[d] \/ (pc[d] = "idle" /\ pc'[d] = "decide")
  BY <1>3 DEF PublishBeat
<1>4. ASSUME UNCHANGED <<plan, pc>> PROVE plan'[d] = plan[d] /\ pc'[d] = pc[d]
  BY <1>4
<1> QED
  BY <1>1, <1>2, <1>3, <1>4
     DEF Next, vars, Start, Leave, OwnerBusy, OwnerIdle, GraceRunsOut, LoadDone, LoadFails,
         Hear, Suspect, Route, EndPass, NextPass, EndQuestion

\* A drain decides to release without force only what others say that they have.
LEMMA DecideBasis ==
  ASSUME TypeOK, NEW d \in Device, Decide(d), NEW s \in plan'[d].release
  PROVE  /\ pc[d] = "decide" /\ pc'[d] = "act" /\ s \in Stage
         /\ plan'[d].forced \/ ReadyElsewhere(d, s) # {}
<1>1. /\ pc[d] = "decide" /\ pc'[d] = "act"
      /\ plan'[d].forced = graceOver[d]
      /\ s \in HeldNow(d) /\ SafeToRelease(d, s)
  BY DEF Decide, TypeOK
<1>2. CASE Cardinality(ReadyElsewhere(d, s)) >= Replicas
  BY <1>1, <1>2, PlacementAssumption, FS_EmptySet DEF HeldNow
<1> QED
  BY <1>1, <1>2 DEF SafeToRelease, HeldNow

LEMMA ReliedInit == Init => ReliedInv
<1> SUFFICES ASSUME Init PROVE ReliedInv
  OBVIOUS
<1>1. TypeOK /\ Inv
  BY TypeInit, InvInit
<1>2. RowsTrue
  BY DEF Init, RowsTrue, FirstRow, Nothing
<1>3. LastingTrue
  BY DEF Init, LastingTrue, NoBasis
<1>4. BasisInv
  BY DEF Init, BasisInv, NoPlan
<1> QED
  BY <1>1, <1>2, <1>3, <1>4 DEF ReliedInv

LEMMA LastingStep == ReliedInv /\ Next => LastingTrue'
<1> SUFFICES ASSUME ReliedInv, Next,
                    NEW d \in Device, NEW s \in Stage, NEW e \in lasting'[d][s]
             PROVE  e \in Device /\ Hosts(e)' /\ held'[e][s] = "ready"
  BY DEF LastingTrue
<1> USE DEF ReliedInv
<1>1. /\ e \in basis'[d][s] /\ Hosts(e)'
      /\ e \in lasting[d][s] \/ (Decides(d) /\ StillSays(d, e, s))
  BY Recorded DEF Record
<1>2. CASE e \in lasting[d][s]
  BY <1>1, <1>2, ReadyStays DEF LastingTrue, Hosts
<1>3. CASE Decides(d) /\ StillSays(d, e, s)
  <2>1. Decide(d)
    BY <1>3, ActStep
  <2>2. e \in ReadyElsewhere(d, s)
    BY <1>1, <1>3, Recorded DEF Record
  <2>3. e \in Device /\ view[d][e].hosting[s] = "ready"
    BY <2>2 DEF ReadyElsewhere, ActiveOthers, Alive
  <2>4. held[e][s] = "ready"
    BY <1>3, <2>3 DEF StillSays, RowsTrue
  <2> QED
    BY <1>1, <2>1, <2>3, <2>4 DEF Decide
<1> QED
  BY <1>1, <1>2, <1>3

LEMMA BasisStep == ReliedInv /\ Next => BasisInv'
<1> SUFFICES ASSUME ReliedInv, Next, NEW d \in Device, NEW s \in plan'[d].release
             PROVE  /\ pc'[d] = "act" /\ s \in Stage
                    /\ plan'[d].forced \/ basis'[d][s] # {}
  BY DEF BasisInv
<1> USE DEF ReliedInv
<1>1. CASE Decide(d)
  <2>1. /\ pc[d] = "decide" /\ pc'[d] = "act" /\ s \in Stage
        /\ plan'[d].forced \/ ReadyElsewhere(d, s) # {}
    BY <1>1, DecideBasis
  <2>2. basis'[d][s] = ReadyElsewhere(d, s)
    BY <2>1, Recorded DEF Record, Decides
  <2> QED
    BY <2>1, <2>2
<1>2. CASE plan'[d] = plan[d] /\ (pc[d] = "act" => pc'[d] = "act")
  <2>1. pc[d] = "act" /\ pc'[d] = "act" /\ s \in Stage
    BY <1>2 DEF BasisInv
  <2>2. basis'[d] = basis[d]
    BY <2>1, Recorded DEF Record, Decides
  <2> QED
    BY <1>2, <2>1, <2>2 DEF BasisInv
<1>3. CASE plan'[d] = NoPlan
  BY <1>3 DEF NoPlan
<1> QED
  BY <1>1, <1>2, <1>3, ActStep

LEMMA ReliedStep == ReliedInv /\ [Next]_vars => ReliedInv'
<1> SUFFICES ASSUME ReliedInv, [Next]_vars PROVE ReliedInv'
  OBVIOUS
<1>1. CASE Next
  <2>1. Inv' /\ TypeOK' /\ RowsTrue'
    BY <1>1, InvStep, TypeStep, RowsStep DEF ReliedInv
  <2> QED
    BY <1>1, <2>1, LastingStep, BasisStep DEF ReliedInv
<1>2. CASE UNCHANGED vars
  <2>1. Inv' /\ TypeOK' /\ RowsTrue'
    BY <1>2, InvStep, TypeStep, RowsStep DEF ReliedInv
  <2>2. LastingTrue' /\ BasisInv'
    BY <1>2 DEF vars, history, ReliedInv, LastingTrue, BasisInv, Hosts
  <2> QED
    BY <2>1, <2>2 DEF ReliedInv
<1> QED
  BY <1>1, <1>2

-----------------------------------------------------------------------------
(* The theorems. *)

\* The variables of a device stay within their types, what the plan asks to start
\* included.
THEOREM TypesHold == Spec => []TypeOK
BY TypeInvariance, PTL

\* A device never holds more than it lends memory for, though its beat decides on the
\* row it last published and acts later.
THEOREM HeldFits == Spec => []FitsInMemory
<1>1. TypeOK /\ FitsInv => FitsInMemory
  <2> SUFFICES ASSUME TypeOK, FitsInv, NEW d \in Device PROVE Cardinality(HeldNow(d)) <= Slots[d]
    BY DEF FitsInMemory
  <2> QED
    BY ClaimedSize DEF FitsInv, Fits, Claimed
<1> QED
  BY <1>1, TypeInvariance, PTL

\* A device that says its owner uses it holds nothing, whatever its beat had
\* decided before the owner asked.
THEOREM AwayIsEmpty == Spec => []AwayHoldsNothing
<1>1. Inv => AwayHoldsNothing
  BY DEF Inv, AwayInv, AwayHoldsNothing
<1> QED
  BY <1>1, Invariance, PTL

\* A ready copy is given up only by a beat that saw its owner drain the device,
\* whatever the rest of the pool does.
THEOREM DropsAreDrains == Spec => OnlyDrainsDrop
<1>1. Inv /\ [Next]_vars =>
        [\A d \in Device : \A s \in Stage :
           Drops(d, s) => d \in Owners /\ plan[d].was \in {"draining", "away"}]_vars
  BY DropsAreReleases DEF Inv, ReleaseInv
<1> QED
  BY <1>1, Invariance, PTL DEF Spec, OnlyDrainsDrop

\* Whatever crashes, leaves and drains, a drain that is not forced gives a copy up only
\* on the word of others that they have one, and every one of them has it indeed that
\* had not taken its word back and has hosted ever since.
THEOREM DrainsAreReplaced == Spec => ReplacedBeforeBroken
<1>1. ReliedInv /\ [Next]_vars =>
        [\A d \in Device : \A s \in Stage :
           Drops(d, s) /\ ~plan[d].forced =>
             /\ basis[d][s] # {}
             /\ \A e \in lasting[d][s] : Ready(e, s)]_vars
  BY DropsAreReleases DEF ReliedInv, LastingTrue, BasisInv, Hosts, Ready
<1> QED
  BY <1>1, ReliedInit, ReliedStep, PTL DEF Spec, ReplacedBeforeBroken
=============================================================================
