------------------------------ MODULE Placement -----------------------------
(***************************************************************************)
(* Which device should hold which stage of the model: wanted_stages of     *)
(* pool/placement.py, the pure function every device runs over its own     *)
(* view of the pool.                                                       *)
(*                                                                         *)
(* A view is a function from the devices that are alive in it to their     *)
(* rows. A plan gives each of those devices the set of stages it should    *)
(* hold. The two loops of the code are recursive functions over plans:     *)
(* each turn adds one stage to one device, so both end.                    *)
(***************************************************************************)
EXTENDS Integers, FiniteSets

CONSTANTS
  Device,            \* device names, as numbers: names are compared to break ties
  Stages,            \* PoolConfig.stages
  Replicas,          \* PoolConfig.replicas
  UseSpareCapacity,  \* PoolConfig.use_spare_capacity
  Slots,             \* Slots[d]: how many stages d has memory for
  Speed              \* Speed[d]: how fast d is

ASSUME PlacementAssumption ==
  /\ Device \subseteq Nat /\ IsFiniteSet(Device)
  /\ Stages \in Nat \ {0}
  /\ Replicas \in Nat \ {0}
  /\ UseSpareCapacity \in BOOLEAN
  /\ Slots \in [Device -> Nat]
  /\ Speed \in [Device -> Nat]

Stage == 0 .. Stages - 1

DeviceState == {"active", "draining", "away", "left"}

\* What a device says of one stage: not hosted, or HostedStage.status.
StageStatus == {"absent", "loading", "ready", "failed"}

HostRow == [state : DeviceState, hosting : [Stage -> StageStatus]]

\* Mutant: a stage that is still being loaded is overlooked.
ReadyIn(row) == {s \in Stage : row.hosting[s] = "ready"}

\* A failed load does not count as held.
HeldIn(row) == {s \in Stage : row.hosting[s] \in {"loading", "ready"}}

FailedHere(row, s) == row.hosting[s] = "failed"

Plans(members) == [DOMAIN members -> SUBSET Stage]

Eligible(members) == {d \in DOMAIN members : members[d].state = "active"}

\* Sticky: what an active device already holds it goes on holding.
Kept(members) ==
  [d \in DOMAIN members |-> IF d \in Eligible(members) THEN HeldIn(members[d]) ELSE {}]

Copies(w, s) == Cardinality({d \in DOMAIN w : s \in w[d]})

Free(w, d) == Slots[d] - Cardinality(w[d])

Candidates(members, w, s) ==
  {d \in Eligible(members) :
     /\ Free(w, d) > 0
     /\ s \notin w[d]
     /\ ~FailedHere(members[d], s)}

\* The candidate that sorts first: fastest, then most room, then by name.
SortsBefore(w, d, e) ==
  \/ Speed[d] > Speed[e]
  \/ Speed[d] = Speed[e] /\ Free(w, d) > Free(w, e)
  \/ Speed[d] = Speed[e] /\ Free(w, d) = Free(w, e) /\ d < e

Best(w, candidates) ==
  CHOOSE d \in candidates : \A e \in candidates \ {d} : SortsBefore(w, d, e)

\* Mutant: the stages in their order, whatever each of them has.
FirstStage(w, stages) == CHOOSE s \in stages : \A t \in stages : s <= t

\* The stage of a set that the loops of the code reach first.
Thinnest(w, stages) ==
  CHOOSE s \in stages : \A t \in stages \ {s} :
    Copies(w, s) < Copies(w, t) \/ (Copies(w, s) = Copies(w, t) /\ s < t)

Lowest(stages) == CHOOSE s \in stages : \A t \in stages : s <= t

Give(w, d, s) == [w EXCEPT ![d] = @ \cup {s}]

\* Mutants: one stage and no more; done as soon as every stage has a copy.
FillOne(members) ==
  LET w    == Kept(members)
      thin == {s \in Stage : Copies(w, s) < Replicas /\ Candidates(members, w, s) # {}}
      s    == Thinnest(w, thin)
  IN  IF thin = {} THEN w ELSE Give(w, Best(w, Candidates(members, w, s)), s)

FillDark(members) ==
  LET fill[w \in Plans(members)] ==
        LET dark == {s \in Stage : Copies(w, s) = 0 /\ Candidates(members, w, s) # {}}
            s    == Thinnest(w, dark)
        IN  IF dark = {} THEN w
            ELSE fill[Give(w, Best(w, Candidates(members, w, s)), s)]
  IN  fill[Kept(members)]

\* The stages that lack a replica somebody can take, ...
ThinStages(members, w) ==
  {s \in Stage : Copies(w, s) < Replicas /\ Candidates(members, w, s) # {}}

\* ... of which the thinnest is given to the best.
FillNext(members, w) ==
  LET s == Thinnest(w, ThinStages(members, w))
  IN  Give(w, Best(w, Candidates(members, w, s)), s)

\* Coverage first: fill the thinnest stage that somebody can take, until every
\* stage has its replicas or nobody can take any that lacks one.
FillThin(members) ==
  LET fill[w \in Plans(members)] ==
        IF ThinStages(members, w) = {} THEN w ELSE fill[FillNext(members, w)]
  IN  fill[Kept(members)]

\* Mutant: a copy need not be faster than any other.
AnyCandidates(members, w, s) ==
  {d \in Candidates(members, w, s) : \E e \in Eligible(members) : s \in w[e]}

\* Those who would be a faster copy of s than its slowest holder.
FasterCandidates(members, w, s) ==
  {d \in Candidates(members, w, s) :
     \E e \in Eligible(members) : s \in w[e] /\ Speed[d] > Speed[e]}

GainStages(members, w) == {s \in Stage : FasterCandidates(members, w, s) # {}}

AddNext(members, w) ==
  LET s == Lowest(GainStages(members, w))
  IN  Give(w, Best(w, FasterCandidates(members, w, s)), s)

\* _add_faster_copies: spare room on a device faster than some holder.
AddFasterCopies(members, plan) ==
  LET add[w \in Plans(members)] ==
        IF GainStages(members, w) = {} THEN w ELSE add[AddNext(members, w)]
  IN  add[plan]

\* Mutant: spare capacity is spent first.
SpareFirst(members) ==
  LET spent == AddFasterCopies(members, Kept(members))
      fill[w \in Plans(members)] ==
        LET thin == {s \in Stage : /\ Copies(w, s) < Replicas
                                   /\ Candidates(members, w, s) # {}}
            s    == Thinnest(w, thin)
        IN  IF thin = {} THEN w
            ELSE fill[Give(w, Best(w, Candidates(members, w, s)), s)]
  IN  fill[spent]

WantedStages(members) ==
  LET filled == FillThin(members)
  IN  IF UseSpareCapacity THEN AddFasterCopies(members, filled) ELSE filled
=============================================================================
