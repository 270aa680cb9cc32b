----------------------------- MODULE OwnerProofs -----------------------------
(***************************************************************************)
(* Theorems about Owner, for any number of readings the monitor waits for  *)
(* and any buttons.                                                        *)
(***************************************************************************)
EXTENDS Owner, TLAPS

\* The monitor counts no more quiet readings than there were in a row, and lends
\* the device again only after enough of them.
QuietInv ==
  /\ under <= quiet
  /\ calling = "idle" => quiet >= IdleAfter

Inv == TypeOK /\ QuietInv

LEMMA InvInit == Init => Inv
<1> SUFFICES ASSUME Init PROVE Inv
  OBVIOUS
<1> USE DEF Init
<1>1. over \in 0..BusyAfter /\ under \in 0..IdleAfter /\ quiet \in 0..IdleAfter
  BY OwnerAssumption
<1>2. calling \in Calls /\ state \in {"active", "draining", "away"}
  BY DEF Calls
<1>3. /\ inUse \in BOOLEAN /\ triggered \in BOOLEAN
      /\ byHand \in BOOLEAN /\ overruled \in BOOLEAN
  BY Zenon
<1>4. QuietInv
  BY DEF QuietInv
<1> HIDE DEF Init
<1> QED
  BY <1>1, <1>2, <1>3, <1>4 DEF Inv, TypeOK

LEMMA UpToBound ==
  ASSUME NEW bound \in Nat, NEW n \in 0..bound
  PROVE  /\ UpTo(n, bound) \in 0..bound
         /\ UpTo(n, bound) = bound \/ UpTo(n, bound) = n + 1
BY DEF UpTo

\* Two counts that go up together keep their order.
LEMMA UpToKeepsOrder ==
  ASSUME NEW bound \in Nat, NEW m \in 0..bound, NEW n \in 0..bound, m <= n
  PROVE  UpTo(m, bound) <= UpTo(n, bound)
BY DEF UpTo

LEMMA SetOwnerBusyType ==
  ASSUME TypeOK, NEW b \in BOOLEAN, SetOwnerBusy(b)
  PROVE  state' \in {"active", "draining", "away"}
BY DEF TypeOK, SetOwnerBusy

LEMMA InvStep == Inv /\ [Next]_vars => Inv'
<1> SUFFICES ASSUME Inv, [Next]_vars PROVE Inv'
  OBVIOUS
<1> USE OwnerAssumption DEF Inv, TypeOK, Calls
<1>1. ASSUME ProgramStarts \/ ProgramEnds PROVE Inv'
  BY <1>1 DEF ProgramStarts, ProgramEnds, QuietInv
<1>2. ASSUME SampleInUse PROVE Inv'
  <2>1. over' \in 0..BusyAfter
    BY <1>2, UpToBound DEF SampleInUse
  <2>2. TypeOK'
    <3>1. under' \in 0..IdleAfter /\ quiet' \in 0..IdleAfter
      BY <1>2 DEF SampleInUse
    <3>2. UNCHANGED <<inUse, state, byHand, overruled>>
      BY <1>2 DEF SampleInUse
    <3>3. triggered' \in BOOLEAN /\ calling' \in Calls
      BY <1>2 DEF SampleInUse
    <3> QED
      BY <2>1, <3>1, <3>2, <3>3
  <2>3. QuietInv'
    BY <1>2 DEF SampleInUse, QuietInv
  <2> QED
    BY <2>2, <2>3
<1>3. ASSUME SampleQuiet PROVE Inv'
  <2>1. under' = UpTo(under, IdleAfter) /\ quiet' = UpTo(quiet, IdleAfter)
    BY <1>3 DEF SampleQuiet
  <2>2. under' \in 0..IdleAfter /\ quiet' \in 0..IdleAfter /\ under' <= quiet'
    BY <2>1, UpToBound, UpToKeepsOrder DEF QuietInv
  <2>3. TypeOK'
    <3>1. over' \in 0..BusyAfter
      BY <1>3 DEF SampleQuiet
    <3>2. UNCHANGED <<inUse, state, byHand>>
      BY <1>3 DEF SampleQuiet
    <3>3. triggered' \in BOOLEAN /\ calling' \in Calls
      BY <1>3 DEF SampleQuiet
    <3>4. overruled' \in BOOLEAN
      BY <1>3 DEF SampleQuiet
    <3> QED
      BY <2>2, <3>1, <3>2, <3>3, <3>4
  <2>4. calling' = "idle" => quiet' >= IdleAfter
    BY <1>3, <2>2 DEF SampleQuiet
  <2> QED
    BY <2>2, <2>3, <2>4 DEF QuietInv
<1>4. ASSUME Tell PROVE Inv'
  <2>1. state' \in {"active", "draining", "away"}
    BY <1>4, SetOwnerBusyType DEF Tell
  <2> QED
    BY <1>4, <2>1 DEF Tell, QuietInv
<1>5. ASSUME NEW b \in BOOLEAN, Press(b) PROVE Inv'
  <2>1. state' \in {"active", "draining", "away"}
    BY <1>5, SetOwnerBusyType DEF Press
  <2> QED
    BY <1>5, <2>1 DEF Press, QuietInv
<1>6. ASSUME DrainEnds PROVE Inv'
  BY <1>6 DEF DrainEnds, QuietInv
<1>7. CASE UNCHANGED vars
  BY <1>7 DEF vars, QuietInv
<1> QED
  BY <1>1, <1>2, <1>3, <1>4, <1>5, <1>6, <1>7 DEF Next

LEMMA Invariance == Spec => []Inv
BY InvInit, InvStep, PTL DEF Spec

-----------------------------------------------------------------------------

\* Every variable of Owner keeps its type.
THEOREM TypeCorrect == Spec => []TypeOK
BY Invariance, PTL DEF Inv

\* However the program pauses and whatever the owner presses, the monitor brings
\* the device back only after idle_after quiet readings in a row.
THEOREM DoesNotFlap == Spec => NoFlapping
<1>1. Inv /\ [Next]_vars =>
        [(Tell /\ state # "active" /\ state' = "active") => quiet >= IdleAfter]_vars
  <2> SUFFICES ASSUME Inv, Tell, state # "active", state' = "active"
               PROVE  quiet >= IdleAfter
    OBVIOUS
  <2>1. calling # "busy"
    BY DEF Tell, SetOwnerBusy
  <2>2. calling = "idle"
    BY <2>1 DEF Tell, Inv, TypeOK, Calls
  <2> QED
    BY <2>2 DEF Inv, QuietInv
<1> QED
  BY <1>1, Invariance, PTL DEF Spec, NoFlapping
=============================================================================
