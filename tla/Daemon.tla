------------------------------- MODULE Daemon -------------------------------
(***************************************************************************)
(* The beat of every device (pool/daemon.py) over its own view of the pool *)
(* (pool/members.py), the stages it holds (pool/hosting.py), and the owner *)
(* who may ask for the device back.                                        *)
(*                                                                         *)
(* Three threads meet in a device: the beat, which publishes, decides by   *)
(* Placement and then acts on what it decided; the threads that load       *)
(* stages; and the HTTP handler through which the owner changes the state  *)
(* of the device. The beat decides on a snapshot and acts on it later.     *)
(*                                                                         *)
(* Membership models how rows travel. Here a reader hears a device's last  *)
(* published row at any later moment, or stops hearing from it.            *)
(***************************************************************************)
EXTENDS Placement

CONSTANTS
  Owners,          \* the devices whose owner may ask for the device back
  Asking,          \* whether questions are asked
  Disruptions,     \* what goes wrong: "crash", "leave", "fail", "suspect"
  MaxDisruptions   \* bound: how often that happens

ASSUME DisruptionAssumption ==
  /\ Owners \subseteq Device
  /\ Asking \in BOOLEAN
  /\ Disruptions \subseteq {"crash", "leave", "fail", "suspect"}
  /\ MaxDisruptions \in Nat

VARIABLES
  up,         \* up[d]: d's process is running
  state,      \* state[d]: the daemon's _state
  held,       \* held[d][s]: the status of s in d's ShardHost
  work,       \* work[d][s]: the question, if any, that goes through this copy
  view,       \* view[r][d]: the row of d in r's table; view[d][d] is d's own row
  heard,      \* heard[r][d]: d's row has advanced lately by r's clock
  graceOver,  \* graceOver[d]: drain_grace_s has passed since the drain began
  pc,         \* pc[d]: where d's beat is
  plan,       \* plan[d]: what d's beat has decided and not done yet
  disrupted,  \* how often something has gone wrong
  basis,      \* history: whose rows told d's beat, when it decided to release s, of s
  lasting     \* history: who of them said so still and has hosted ever since

history == <<basis, lasting>>
vars == <<up, state, held, work, view, heard, graceOver, pc, plan, disrupted, history>>

\* A question runs one pass after another through the copies of its route;
\* LoadCounter counts a copy as in flight only during a pass.
Work == {"none", "running", "between"}

Plan == [was : DeviceState, start : SUBSET Stage, release : SUBSET Stage,
         forced : BOOLEAN]

NoPlan == [was |-> "active", start |-> {}, release |-> {}, forced |-> FALSE]

TypeOK ==
  /\ up \in [Device -> BOOLEAN]
  /\ state \in [Device -> DeviceState]
  /\ held \in [Device -> [Stage -> StageStatus]]
  /\ work \in [Device -> [Stage -> Work]]
  /\ view \in [Device -> [Device -> HostRow]]
  /\ heard \in [Device -> [Device -> BOOLEAN]]
  /\ graceOver \in [Device -> BOOLEAN]
  /\ pc \in [Device -> {"idle", "decide", "act"}]
  /\ plan \in [Device -> Plan]
  /\ disrupted \in 0..MaxDisruptions
  /\ basis \in [Device -> [Stage -> SUBSET Device]]
  /\ lasting \in [Device -> [Stage -> SUBSET Device]]

Nothing == [s \in Stage |-> "absent"]
NoWork == [s \in Stage |-> "none"]
FirstRow == [state |-> "active", hosting |-> Nothing]
NoBasis == [s \in Stage |-> {}]

Init ==
  /\ up = [d \in Device |-> FALSE]
  /\ state = [d \in Device |-> "active"]
  /\ held = [d \in Device |-> Nothing]
  /\ work = [d \in Device |-> NoWork]
  /\ view = [r \in Device |-> [d \in Device |-> FirstRow]]
  /\ heard = [r \in Device |-> [d \in Device |-> FALSE]]
  /\ graceOver = [d \in Device |-> FALSE]
  /\ pc = [d \in Device |-> "idle"]
  /\ plan = [d \in Device |-> NoPlan]
  /\ disrupted = 0
  /\ basis = [d \in Device |-> NoBasis]
  /\ lasting = [d \in Device |-> NoBasis]

Disrupt ==
  /\ disrupted < MaxDisruptions
  /\ disrupted' = disrupted + 1

-----------------------------------------------------------------------------
(* What a device knows. *)

\* MemberTable.alive: the reader itself, and whoever it hears from.
Alive(r) == {r} \cup {d \in Device : heard[r][d] /\ view[r][d].state # "left"}

Members(r) == [d \in Alive(r) |-> view[r][d]]

\* ShardHost.stages
HeldNow(d) == {s \in Stage : held[d][s] \in {"loading", "ready"}}

\* Daemon._safe_to_release
ActiveOthers(d) == {e \in Alive(d) \ {d} : view[d][e].state = "active"}

\* Mutant: a copy that is still being loaded counts as well.
HeldElsewhere(d, s) ==
  {e \in ActiveOthers(d) : view[d][e].hosting[s] \in {"loading", "ready"}}

ReadyElsewhere(d, s) == {e \in ActiveOthers(d) : view[d][e].hosting[s] = "ready"}

CouldReplace(d, s) ==
  \E e \in ActiveOthers(d) :
    /\ Slots[e] > Cardinality({t \in Stage : view[d][e].hosting[t] # "absent"})
    /\ view[d][e].hosting[s] = "absent"

\* Mutant: without the grace period.
SafeToReleaseInTime(d, s) ==
  \/ Cardinality(ReadyElsewhere(d, s)) >= Replicas
  \/ ReadyElsewhere(d, s) # {} /\ ~CouldReplace(d, s)

SafeToRelease(d, s) ==
  \/ Cardinality(ReadyElsewhere(d, s)) >= Replicas
  \/ ReadyElsewhere(d, s) # {} /\ ~CouldReplace(d, s)
  \/ graceOver[d]

\* Daemon.publish
PublishRow(d, st, hosting) ==
  view' = [view EXCEPT ![d][d] = [state |-> st, hosting |-> hosting]]

-----------------------------------------------------------------------------
(* What a drain relies on when it gives up a copy: part of every step, and nothing
   waits for it. *)

\* e is in the pool and its beat means to give up nothing.
Hosts(e) == up[e] /\ state[e] = "active" /\ plan[e].release = {}

\* What d's row of e says of s is what e itself published last.
StillSays(d, e, s) ==
  /\ view[d][e].state = view[e][e].state
  /\ view[d][e].hosting[s] = view[e][e].hosting[s]

Decides(d) == pc[d] = "decide" /\ pc'[d] = "act"

Record ==
  /\ basis' = [d \in Device |->
       IF Decides(d)
         THEN [s \in Stage |-> IF s \in plan'[d].release THEN ReadyElsewhere(d, s) ELSE {}]
       ELSE IF pc'[d] = "act" THEN basis[d] ELSE NoBasis]
  /\ lasting' = [d \in Device |-> [s \in Stage |->
       {e \in basis'[d][s] :
          /\ e \in lasting[d][s] \/ (Decides(d) /\ StillSays(d, e, s))
          /\ Hosts(e)'}]]

-----------------------------------------------------------------------------
(* The process. *)

\* The constructor and start: nothing held, nobody known, a first row.
Start(d) ==
  /\ ~up[d]
  /\ up' = [up EXCEPT ![d] = TRUE]
  /\ state' = [state EXCEPT ![d] = "active"]
  /\ PublishRow(d, "active", Nothing)
  /\ UNCHANGED <<held, work, heard, graceOver, pc, plan, disrupted>>
  /\ Record

\* All that the process held is gone with it.
End(d) ==
  /\ up' = [up EXCEPT ![d] = FALSE]
  /\ state' = [state EXCEPT ![d] = "active"]
  /\ held' = [held EXCEPT ![d] = Nothing]
  /\ work' = [work EXCEPT ![d] = NoWork]
  /\ view' = [view EXCEPT ![d] = [e \in Device |-> FirstRow]]
  /\ heard' = [heard EXCEPT ![d] = [e \in Device |-> FALSE]]
  /\ graceOver' = [graceOver EXCEPT ![d] = FALSE]
  /\ pc' = [pc EXCEPT ![d] = "idle"]
  /\ plan' = [plan EXCEPT ![d] = NoPlan]

Crash(d) ==
  /\ up[d]
  /\ "crash" \in Disruptions
  /\ Disrupt
  /\ End(d)
  /\ Record

\* Daemon.stop says goodbye, and ends the beat and the shards afterwards.
Leave(d) ==
  /\ up[d]
  /\ state[d] # "left"
  /\ "leave" \in Disruptions
  /\ Disrupt
  /\ state' = [state EXCEPT ![d] = "left"]
  /\ PublishRow(d, "left", held[d])
  /\ UNCHANGED <<up, held, work, heard, graceOver, pc, plan>>
  /\ Record

\* The end of stop(), in one step: that it waits two seconds for the beat and then
\* closes the shards beside it is in module Hosting.
Close(d) ==
  /\ up[d]
  /\ state[d] = "left"
  /\ End(d)
  /\ UNCHANGED disrupted
  /\ Record

-----------------------------------------------------------------------------
(* The beat. *)

\* Mutant: a failure is held against the device for ever.
PublishBeatUnforgiving(d, forgotten) ==
  /\ up[d]
  /\ pc[d] = "idle"
  /\ forgotten \subseteq {s \in Stage : held[d][s] = "failed"}
  /\ PublishRow(d, state[d], held[d])
  /\ pc' = [pc EXCEPT ![d] = "decide"]
  /\ UNCHANGED <<up, state, held, work, heard, graceOver, plan, disrupted>>
  /\ Record

\* tick, up to the gossip: failures that have cooled down are forgotten, and
\* the row is published.
PublishBeat(d, forgotten) ==
  /\ up[d]
  /\ pc[d] = "idle"
  /\ forgotten \subseteq {s \in Stage : held[d][s] = "failed"}
  /\ LET hosting == [s \in Stage |-> IF s \in forgotten THEN "absent" ELSE held[d][s]]
     IN  /\ held' = [held EXCEPT ![d] = hosting]
         /\ PublishRow(d, state[d], hosting)
  /\ pc' = [pc EXCEPT ![d] = "decide"]
  /\ UNCHANGED <<up, state, work, heard, graceOver, plan, disrupted>>
  /\ Record

\* Mutant: an active device gives up what others hold as well.
DecideThrifty(d) ==
  /\ up[d]
  /\ pc[d] = "decide"
  /\ plan' = [plan EXCEPT ![d] =
       [was     |-> state[d],
        start   |-> IF state[d] = "active"
                    THEN WantedStages(Members(d))[d] \ HeldNow(d) ELSE {},
        release |-> {s \in HeldNow(d) : SafeToRelease(d, s)},
        forced  |-> graceOver[d]]]
  /\ pc' = [pc EXCEPT ![d] = "act"]
  /\ UNCHANGED <<up, state, held, work, view, heard, graceOver, disrupted>>
  /\ Record

\* _reconcile reads the state, who is alive, what is wanted and what is held.
Decide(d) ==
  /\ up[d]
  /\ pc[d] = "decide"
  /\ plan' = [plan EXCEPT ![d] =
       [was     |-> state[d],
        start   |-> IF state[d] = "active"
                    THEN WantedStages(Members(d))[d] \ HeldNow(d) ELSE {},
        release |-> IF state[d] \in {"draining", "away"}
                    THEN {s \in HeldNow(d) : SafeToRelease(d, s)} ELSE {},
        forced  |-> graceOver[d]]]
  /\ pc' = [pc EXCEPT ![d] = "act"]
  /\ UNCHANGED <<up, state, held, work, view, heard, graceOver, disrupted>>
  /\ Record

\* ... and then acts on it. ShardHost.start begins a load unless the stage is
\* held by now; a copy with a pass in flight is not stopped; a drain that has
\* nothing left ends; and the beat ends by publishing.
Started(d) ==
  [s \in Stage |-> IF s \in plan[d].start \ HeldNow(d) THEN "loading" ELSE held[d][s]]

Stopping(d) == {s \in plan[d].release : work[d][s] # "running"}

Released(d) == [s \in Stage |-> IF s \in Stopping(d) THEN "absent" ELSE Started(d)[s]]

\* Mutant: a stage that is still being loaded is overlooked.
DrainEndsEarly(d) ==
  /\ plan[d].was \in {"draining", "away"}
  /\ state[d] = "draining"
  /\ \A s \in Stage : Released(d)[s] # "ready"

DrainEnds(d) ==
  /\ plan[d].was \in {"draining", "away"}
  /\ state[d] = "draining"
  /\ \A s \in Stage : Released(d)[s] \in {"absent", "failed"}

\* The rest of _reconcile and the publish after it: what it starts and stops, and the
\* end of a drain, in one step with the looks at inflight that come before each stop.
Act(d) ==
  /\ up[d]
  /\ pc[d] = "act"
  /\ held' = [held EXCEPT ![d] = Released(d)]
  /\ work' = [work EXCEPT ![d] = [s \in Stage |-> IF s \in Stopping(d) THEN "none" ELSE @[s]]]
  /\ state' = [state EXCEPT ![d] = IF DrainEnds(d) THEN "away" ELSE @]
  /\ PublishRow(d, state'[d], Released(d))
  /\ plan' = [plan EXCEPT ![d] = NoPlan]
  /\ pc' = [pc EXCEPT ![d] = "idle"]
  /\ UNCHANGED <<up, heard, graceOver, disrupted>>
  /\ Record

-----------------------------------------------------------------------------
(* The owner: Daemon.set_owner_busy, at any moment of the beat. It publishes even
   when it changes nothing. *)

OwnerBusy(d) ==
  /\ up[d]
  /\ d \in Owners
  /\ state' = [state EXCEPT ![d] = IF @ = "active" THEN "draining" ELSE @]
  /\ graceOver' = [graceOver EXCEPT ![d] = @ /\ state[d] # "active"]
  /\ PublishRow(d, state'[d], held[d])
  /\ UNCHANGED <<up, held, work, heard, pc, plan, disrupted>>
  /\ Record

OwnerIdle(d) ==
  /\ up[d]
  /\ d \in Owners
  /\ state' = [state EXCEPT ![d] = IF @ \in {"draining", "away"} THEN "active" ELSE @]
  /\ PublishRow(d, state'[d], held[d])
  /\ UNCHANGED <<up, held, work, heard, graceOver, pc, plan, disrupted>>
  /\ Record

GraceRunsOut(d) ==
  /\ up[d]
  /\ state[d] \in {"draining", "away"}
  /\ ~graceOver[d]
  /\ graceOver' = [graceOver EXCEPT ![d] = TRUE]
  /\ UNCHANGED <<up, state, held, work, view, heard, pc, plan, disrupted>>
  /\ Record

-----------------------------------------------------------------------------
(* The threads that load stages: ShardHost._load. *)

\* Mutant: a status the rest of the program does not know.
LoadDoneUnheard(d, s) ==
  /\ held[d][s] = "loading"
  /\ held' = [held EXCEPT ![d][s] = "loaded"]
  /\ UNCHANGED <<up, state, work, view, heard, graceOver, pc, plan, disrupted>>
  /\ Record

LoadDone(d, s) ==
  /\ held[d][s] = "loading"
  /\ held' = [held EXCEPT ![d][s] = "ready"]
  /\ UNCHANGED <<up, state, work, view, heard, graceOver, pc, plan, disrupted>>
  /\ Record

LoadFails(d, s) ==
  /\ held[d][s] = "loading"
  /\ "fail" \in Disruptions
  /\ Disrupt
  /\ held' = [held EXCEPT ![d][s] = "failed"]
  /\ UNCHANGED <<up, state, work, view, heard, graceOver, pc, plan>>
  /\ Record

-----------------------------------------------------------------------------
(* What devices hear of one another. *)

\* d's last row reaches r, which until then goes on with an older one. Rows that are
\* under way, or come by way of a third device, are in module Membership.
Hear(r, d) ==
  /\ r # d
  /\ up[r] /\ up[d]
  /\ heard' = [heard EXCEPT ![r][d] = TRUE]
  /\ view' = [view EXCEPT ![r][d] = view[d][d]]
  /\ <<heard', view'>> # <<heard, view>>
  /\ UNCHANGED <<up, state, held, work, graceOver, pc, plan, disrupted>>
  /\ Record

\* No advance of d's row for suspect_after: rightly, or because of the network.
Suspect(r, d) ==
  /\ heard[r][d]
  /\ \/ ~up[d] /\ UNCHANGED disrupted
     \/ up[d] /\ "suspect" \in Disruptions /\ Disrupt
  /\ heard' = [heard EXCEPT ![r][d] = FALSE]
  /\ UNCHANGED <<up, state, held, work, view, graceOver, pc, plan>>
  /\ Record

-----------------------------------------------------------------------------
(* Questions, as far as a copy of a stage sees them. *)

\* r takes on d's copy by what it knows (router.replicas_of); the first pass.
Route(r, d, s) ==
  /\ Asking
  /\ up[r]
  /\ d \in Alive(r)
  /\ view[r][d].state = "active" /\ view[r][d].hosting[s] = "ready"
  /\ held[d][s] = "ready" /\ work[d][s] = "none"
  /\ work' = [work EXCEPT ![d][s] = "running"]
  /\ UNCHANGED <<up, state, held, view, heard, graceOver, pc, plan, disrupted>>
  /\ Record

EndPass(d, s) ==
  /\ work[d][s] = "running"
  /\ work' = [work EXCEPT ![d][s] = "between"]
  /\ UNCHANGED <<up, state, held, view, heard, graceOver, pc, plan, disrupted>>
  /\ Record

NextPass(d, s) ==
  /\ work[d][s] = "between"
  /\ work' = [work EXCEPT ![d][s] = "running"]
  /\ UNCHANGED <<up, state, held, view, heard, graceOver, pc, plan, disrupted>>
  /\ Record

EndQuestion(d, s) ==
  /\ work[d][s] = "between"
  /\ work' = [work EXCEPT ![d][s] = "none"]
  /\ UNCHANGED <<up, state, held, view, heard, graceOver, pc, plan, disrupted>>
  /\ Record

-----------------------------------------------------------------------------

Next ==
  \/ \E d \in Device : Start(d)
  \/ \E d \in Device : Crash(d)
  \/ \E d \in Device : Leave(d)
  \/ \E d \in Device : Close(d)
  \/ \E d \in Device, forgotten \in SUBSET Stage : PublishBeat(d, forgotten)
  \/ \E d \in Device : Decide(d)
  \/ \E d \in Device : Act(d)
  \/ \E d \in Device : OwnerBusy(d)
  \/ \E d \in Device : OwnerIdle(d)
  \/ \E d \in Device : GraceRunsOut(d)
  \/ \E d \in Device, s \in Stage : LoadDone(d, s)
  \/ \E d \in Device, s \in Stage : LoadFails(d, s)
  \/ \E r, d \in Device : Hear(r, d)
  \/ \E r, d \in Device : Suspect(r, d)
  \/ \E r, d \in Device, s \in Stage : Route(r, d, s)
  \/ \E d \in Device, s \in Stage : EndPass(d, s)
  \/ \E d \in Device, s \in Stage : NextPass(d, s)
  \/ \E d \in Device, s \in Stage : EndQuestion(d, s)

Spec == Init /\ [][Next]_vars

\* What the threads and the network keep doing: the beat goes on, failures cool
\* down, loads end, rows keep arriving, and the silence of a dead device is
\* noticed. Nobody has to start, and no owner has to give a device back.
Cooled(d) == PublishBeat(d, {s \in Stage : held[d][s] = "failed"})

Fairness ==
  /\ \A d \in Device :
       /\ SF_vars(Cooled(d))
       /\ WF_vars(Decide(d) \/ Act(d))
       /\ \A s \in Stage : WF_vars(LoadDone(d, s) \/ LoadFails(d, s))
  /\ \A r \in Device : \A d \in Device \ {r} :
       /\ WF_vars(Hear(r, d))
       /\ WF_vars(~up[d] /\ Suspect(r, d))

FairSpec == Spec /\ Fairness

\* What a drain needs of that: the beat of the drained device, and that the others
\* hear from it. Besides, time passes, passes end, and every question has a last one
\* (max_new_tokens).
Beat(d) == (\E forgotten \in SUBSET Stage : PublishBeat(d, forgotten)) \/ Decide(d) \/ Act(d)

DrainFairness ==
  \A d \in Owners :
    /\ WF_vars(Beat(d))
    /\ WF_vars(GraceRunsOut(d))
    /\ \A r \in Device \ {d} : WF_vars(Hear(r, d))
    /\ \A s \in Stage : WF_vars(EndPass(d, s)) /\ SF_vars(EndQuestion(d, s))

DrainSpec == Spec /\ DrainFairness

-----------------------------------------------------------------------------
(* Properties. *)

\* A device never holds more stages than it lends memory for, although the beat
\* decides on the row it last published and not on what it holds by now.
FitsInMemory == \A d \in Device : Cardinality(HeldNow(d)) <= Slots[d]

\* A device whose owner uses it hosts nothing (members.py: "the owner is using
\* the device; it hosts nothing"), whatever the beat had decided before the
\* owner asked.
AwayHoldsNothing == \A d \in Device : state[d] = "away" => HeldNow(d) = {}

Ready(d, s) == up[d] /\ state[d] = "active" /\ held[d][s] = "ready"

\* d gives up its ready copy of s and goes on running.
Drops(d, s) ==
  /\ held[d][s] = "ready" /\ held'[d][s] = "absent"
  /\ up[d] /\ up'[d]

\* A drain that was not forced by the grace period gives up a ready copy only
\* while another device has one (placement.py: the pool "brings up a replacement
\* before it unloads, not after").
MakeBeforeBreak ==
  [][\A d \in Device : \A s \in Stage :
       Drops(d, s) /\ ~plan[d].forced => \E e \in Device \ {d} : Ready(e, s)]_vars

\* A drain that the grace period did not force gives up a ready copy only on the word
\* of other devices that they have one, and each of them has one indeed that had not
\* taken its word back by then and has hosted without a break since (placement.py: the
\* pool "brings up a replacement before it unloads, not after"). So only a device that
\* since its last heard word crashed, left or was wanted by its owner lets a drain
\* down: never a copy that was still loading, a load that failed, or a row that said
\* more than its device had.
ReplacedBeforeBroken ==
  [][\A d \in Device : \A s \in Stage :
       Drops(d, s) /\ ~plan[d].forced =>
         /\ basis[d][s] # {}
         /\ \A e \in lasting[d][s] : Ready(e, s)]_vars

\* Sticky (placement.py: "Adding a device to the pool never makes anyone drop or
\* reload anything"): a ready copy is only ever given up by a beat that saw its
\* device drained by its owner, never because of who joined, left, failed or was
\* wrongly taken for gone.
OnlyDrainsDrop ==
  [][\A d \in Device : \A s \in Stage :
       Drops(d, s) => d \in Owners /\ plan[d].was \in {"draining", "away"}]_vars

\* ... and by a device that is active, never (placement.py: "A device that
\* already holds a stage keeps it").
ActiveKeeps ==
  [][\A d \in Device : \A s \in Stage : Drops(d, s) => state[d] # "active"]_vars

\* A load that failed is not begun again at once on the same device (hosting.py:
\* "so the pool tries another device instead of asking this one to fail the same
\* way again at once").
FailureCoolsDown ==
  [][\A d \in Device : \A s \in Stage :
       held[d][s] = "failed" => held'[d][s] # "loading"]_vars

\* A stage is not taken away from a question in the middle of it (router.py:
\* draining devices "finish what they have"), except when the grace is over.
FinishWhatTheyHave ==
  [][\A d \in Device : \A s \in Stage :
       Drops(d, s) /\ ~plan[d].forced => work[d][s] = "none"]_vars

\* When nobody has room for a replacement, a stage is let go at once (pool.md:
\* "unless none could come (nobody has room), in which case it lets go at once").
LetsGoAtOnce ==
  [][\A d \in Device :
       (Decide(d) /\ state[d] = "draining") =>
         {s \in HeldNow(d) : ~CouldReplace(d, s)} \subseteq plan'[d].release]_vars

\* How many copies of s the pool has or is bringing up beyond its replicas.
Extra(s) ==
  LET copies == Cardinality({d \in Device : s \in HeldNow(d)})
  IN  IF copies > Replicas THEN copies - Replicas ELSE 0

\* Views that disagree cost at most one copy too many (placement.py: "at worst
\* load one stage too many", ADR 002: "one copy too many"). For two stages.
AtMostOneTooMany == Extra(0) + Extra(Stages - 1) <= 1

\* An owner who goes on asking gets the device back.
DrainCompletes ==
  \A d \in Owners :
    (state[d] = "draining" ~> (state[d] \in {"away", "active", "left"}))

Covered == \A s \in Stage : \E d \in Device : Ready(d, s)

\* Once everybody is there for good, and however the pool got there, every stage
\* comes to have a ready copy and keeps it.
Heals ==
  (<>[](\A d \in Device : up[d] /\ state[d] = "active")) => <>[]Covered
=============================================================================
