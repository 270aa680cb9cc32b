----------------------------- MODULE MCPlacement ----------------------------
(***************************************************************************)
(* Placement over every view of a small pool.                              *)
(*                                                                         *)
(* The initial states are all the views in which nobody holds more than it *)
(* has room for. A step lets one device do what the plan asks of it and    *)
(* finish, in a pool whose members all see the same thing.                 *)
(***************************************************************************)
EXTENDS Placement

CONSTANT Present  \* the devices in the view

ASSUME PresentAssumption == Present \subseteq Device

ThreeDevices == 1..3
\* One fast device with one slot; two equal slow ones, of which one has two.
FastAndSlow == [d \in Device |-> IF d = 1 THEN 2 ELSE 1]
RoomAtTheSlow == [d \in Device |-> IF d = 3 THEN 2 ELSE 1]

VARIABLE members

Wanted == WantedStages(members)

MCInit ==
  /\ members \in [Present -> {row \in HostRow :
                              row.state \in {"active", "draining"}}]
  /\ \A d \in Present : Cardinality(HeldIn(members[d])) <= Slots[d]

FollowPlan(d) ==
  /\ members[d].state = "active"
  /\ members' = [members EXCEPT ![d].hosting =
                   [s \in Stage |-> IF s \in Wanted[d] THEN "ready" ELSE @[s]]]

MCNext == \E d \in Present : FollowPlan(d)

MCSpec == MCInit /\ [][MCNext]_members

-----------------------------------------------------------------------------

\* All the plan can do within the memory there is: nobody is given more than it has
\* room for, and whoever is left with room for a stage is of no use to it, which has
\* its replicas, none of them slower than that device if spare room is to be used.
PlanIsMaximal ==
  /\ \A d \in Present : Cardinality(Wanted[d]) <= Slots[d]
  /\ \A s \in Stage : \A d \in Candidates(members, Wanted, s) :
       /\ Copies(Wanted, s) >= Replicas
       /\ UseSpareCapacity =>
            \A e \in Eligible(members) : s \in Wanted[e] => Speed[e] >= Speed[d]

\* Coverage first: as long as a stage has no copy at all, nobody who could take
\* it is given another copy of a stage that had one.
DarkStagesFirst ==
  \A t \in Stage : Copies(Wanted, t) = 0 =>
    \A d \in Eligible(members) : \A s \in Wanted[d] \ HeldIn(members[d]) :
      FailedHere(members[d], t) \/ Copies(Kept(members), s) = 0

\* Room is spent beyond the replicas only where it makes a stage faster: coverage
\* gives no stage more copies than its replicas, and each copy added after that is
\* faster than one the stage had by then, never a copy no question would prefer.
SurplusIsFaster ==
  LET covering == FillThin(members)
  IN  \A d \in Eligible(members) :
        /\ \A s \in covering[d] \ HeldIn(members[d]) : Copies(covering, s) <= Replicas
        /\ \A s \in Wanted[d] \ covering[d] :
             \E e \in Eligible(members) : s \in covering[e] /\ Speed[e] < Speed[d]

\* Settled: once every device has done what the plan asked of it, the plan asks
\* for nothing more, so a pool whose members agree stops loading after one round.
Followed ==
  [d \in Present |->
    [members[d] EXCEPT !.hosting =
       [s \in Stage |-> IF s \in Wanted[d] THEN "ready" ELSE @[s]]]]

PlanSettles ==
  \A d \in Eligible(members) : WantedStages(Followed)[d] = Wanted[d]

\* One device doing its part while the others have not yet may change what the
\* plan asks of those others, but a stage that was going to be covered is never
\* left dark by that change.
CoverageKeepsUp ==
  [][\A s \in Stage : Copies(Wanted, s) > 0 => Copies(Wanted', s) > 0]_members
=============================================================================
