------------------------------- MODULE PoolPage -----------------------------
(***************************************************************************)
(* The pool page (src/dashboard/app/page.tsx): what it shows of the pool,    *)
(* the question it asks, the replay of the answer, and the button that       *)
(* crashes a device in the middle of one.                                    *)
(*                                                                         *)
(* A picture is the view some device gave: members with what they host, and  *)
(* the devices the lab runs.  Pictures replace one another as polls please   *)
(* (PoolClient).  run() and play() are asynchronous: between a question and  *)
(* its answer, and between two steps of a replay, the picture changes and    *)
(* the user goes on clicking.  A replay that a newer one cancelled is still  *)
(* there, asleep, until its current step is over.                            *)
(***************************************************************************)
EXTENDS PoolReplay, FiniteSetsExt

CONSTANTS
  Device,     \* the devices of the pool, as the page names them
  Stage,      \* the stages of the model: 0..n
  Replicas,   \* copies the pool wants of each
  Pictures,   \* the pictures the page may be given
  Results,    \* the results a question may come to
  Plays,      \* bound: the replays there may be at a time, cancelled ones too
  MaxRun,     \* bound: run numbers are counted from 0 up to this, and again
  None

\* What a device may say of another, or of itself.  One that has left is
\* alive to nobody but itself, while it is leaving.
IsPicture(p) ==
  \A d \in Device : p.member[d] # None =>
    LET row == p.member[d]
    IN /\ row.liveness \in {"alive", "suspect", "down"}
       /\ row.state \in {"active", "draining", "away", "left"}
       /\ \A s \in Stage : row.hosting[s] \in {"none", "loading", "ready", "failed"}
       /\ row.state = "left" => row.liveness = "down" \/ d = p.self

ASSUME PageAssumption ==
  /\ Replicas \in Nat \ {0}
  /\ MaxRun \in Nat /\ MaxRun > 1
  /\ None \notin Device \cup Pictures \cup Results
  /\ IsFiniteSet(Device) /\ Stage \subseteq Nat
  /\ \A r \in Results : IsResult(r)
  /\ \A p \in Pictures : IsPicture(p)

VARIABLES
  view,       \* the newest picture, None before the first
  phase,      \* idle, running, playing, done
  frozen,     \* the picture shown during a replay
  result,     \* the last result
  runError,   \* the last question failed
  runId,      \* the number of the run in charge
  busyKey,    \* what computes, what was lost, what was told so far
  lost,
  tokens,
  totals,
  note,
  asking,     \* the run() that waits for an answer
  timer,      \* the timer of its crash
  play,       \* the play()s that have not returned
  killed      \* history: the device that was crashed during this question

stage == <<busyKey, lost, tokens, totals, note>>
vars == <<view, phase, frozen, result, runError, runId, stage, asking, timer, play, killed>>

Zero == [bytes |-> 0, networkMs |-> 0, computeMs |-> 0, tokens |-> 0, lost |-> 0]

-----------------------------------------------------------------------------
\* Pictures.  member[d] is None or what the pool says of d; hosting[s] is the
\* status of d's copy of s, "none" if it has none.

Members(p) == {d \in Device : p.member[d] # None}
Alive(p) == {d \in Members(p) : p.member[d].liveness = "alive"}
Hosted(p, d) == {s \in Stage : p.member[d].hosting[s] # "none"}

\* The server's side, GET /pool: copies of each stage that can be used now.
Coverage(p) ==
  [s \in Stage |->
     Cardinality({d \in Alive(p) : /\ p.member[d].state = "active"
                                   /\ p.member[d].hosting[s] = "ready"})]

Health(p) ==
  IF \A s \in Stage : Coverage(p)[s] >= Replicas THEN "healthy"
  ELSE IF \A s \in Stage : Coverage(p)[s] >= 1 THEN "degraded" ELSE "down"

\* The page's side: the copies it puts in the column of each stage, ...
Usable(p, d) ==
  /\ p.member[d].liveness # "down"
  /\ p.member[d].state \in {"active", "draining"}

Column(p, s) ==
  {d \in Members(p) : /\ Usable(p, d)
                      /\ p.member[d].hosting[s] \in {"loading", "ready"}}

\* ... the places it draws for copies that are wanted and not there, ...
Missing(p, s) ==
  IF Cardinality(Column(p, s)) < Replicas THEN Replicas - Cardinality(Column(p, s)) ELSE 0

\* ... and the devices it puts on the bench: the members in no column.
Bench(p) == Members(p) \ UNION {Column(p, s) : s \in Stage}

\* Mutant: a device that is late is shown as any other.
DescribeDeviceHeard(row, status) ==
  CASE row.liveness = "down" -> "offline"
    [] row.liveness # "down" /\ row.state = "draining" -> "handing over"
    [] row.liveness # "down" /\ row.state = "away" -> "owner is using it"
    [] OTHER -> IF status = "loading" THEN "loading its share"
                ELSE IF status = "ready" THEN "serving" ELSE "spare"

\* What a card says of a device and its copy.  A device that is down is "offline" here
\* also when the lab knows that it was crashed.
DescribeDevice(row, status) ==
  CASE row.liveness = "down" /\ row.state = "left" -> "left the pool"
    [] row.liveness = "down" /\ row.state # "left" -> "offline"
    [] row.liveness = "suspect" -> "not responding"
    [] row.liveness = "alive" /\ row.state = "draining" -> "handing over"
    [] row.liveness = "alive" /\ row.state = "away" -> "owner is using it"
    [] /\ row.liveness = "alive" /\ row.state \notin {"draining", "away"}
       /\ status = "none" /\ row.slots = 0 -> "not enough memory lent"
    [] OTHER -> IF status = "loading" THEN "loading its share"
                ELSE IF status = "ready" THEN "serving" ELSE "spare"

CopyCard(p, d, s, dark) ==
  IF d \in dark THEN "no answer"
  ELSE DescribeDevice(p.member[d], p.member[d].hosting[s])

\* A tile of the bench says it of the device alone.
BenchTile(p, d) == DescribeDevice(p.member[d], "none")

\* The sentence beside the health of the pool, and the stage it is about.
FirstStage(p, most) ==
  CHOOSE s \in Stage :
    Coverage(p)[s] <= most /\ \A z \in Stage : Coverage(p)[z] <= most => s <= z

HealthText(p) ==
  IF Health(p) = "healthy" THEN [says |-> "any one can go", stage |-> 0]
  ELSE IF \E s \in Stage : Coverage(p)[s] = 0
    THEN [says |-> "no device holds it", stage |-> FirstStage(p, 0)]
    ELSE [says |-> "on one device only", stage |-> FirstStage(p, Replicas - 1)]

\* Of these the fastest, ties broken as the list has them.
Fastest(p, ds) == {d \in ds : \A e \in ds : p.member[e].speed <= p.member[d].speed}

\* The owner's button of a card: whether it says to the device that its owner
\* needs it.  It is there while the device is alive.
OwnerAsks(row) == row.state \notin {"draining", "away"}

\* The owner's button below: a device that is away is lent again, or else the
\* fastest of those that work is taken back.
OwnerScenario(p) ==
  LET away == {d \in Alive(p) : p.member[d].state \in {"draining", "away"}}
      working == {d \in Alive(p) : p.member[d].state = "active" /\ Hosted(p, d) # {}}
  IN IF away # {} THEN {[device |-> d, busy |-> FALSE] : d \in away}
     ELSE {[device |-> d, busy |-> TRUE] : d \in Fastest(p, working)}

\* What is shown: during a replay the picture of when the question was asked.
Shown == IF frozen # None THEN frozen ELSE view

-----------------------------------------------------------------------------
\* A play() that has not returned: the steps it has still to show, and the
\* devices it has shown lost.
NoPlay == [id |-> MaxRun + 1, steps |-> <<>>, seen |-> {}]

Idle(i) == play[i] = NoPlay

\* Whether it is still the one in charge, or a newer run has begun.
InCharge(i) == play[i].id = runId

-----------------------------------------------------------------------------
\* Asking.

NotAsking ==
  [crash |-> FALSE, start |-> None, via |-> None, at |-> None,
   left |-> {}]

NoTimer == [armed |-> FALSE, via |-> None, victim |-> None]

Running == phase = "running"

\* The buttons are disabled while there is nobody to ask.
MayAsk(crash) ==
  /\ ~Running
  /\ view # None
  /\ Health(view) # "down"
  /\ crash => phase # "playing" /\ view.lab # {}

Holders(p) == {d \in Alive(p) : \E s \in Stage : p.member[d].hosting[s] = "ready"}

\* The device to ask when victim is to be crashed: one that holds nothing
\* rather than another, never the victim.
Requesters(p, victim) ==
  LET others == Alive(p) \ {victim}
      idle == {d \in others : p.member[d].state = "active" /\ Hosted(p, d) = {}}
  IN IF idle # {} THEN idle ELSE IF others # {} THEN others ELSE {None}

OrNone(ds) == IF ds = {} THEN {None} ELSE ds

\* Mutant: run() and play() do not take a number of their own.
NextRunUnchanged == runId

NextRun == IF runId = MaxRun THEN 0 ELSE runId + 1

\* run(): who is asked is settled now, by the picture of now.  Bound: not twice
\* during one step of a replay that was cancelled.
Ask(crash) ==
  /\ MayAsk(crash)
  /\ \A i \in Plays : Idle(i) \/ InCharge(i)
  /\ asking = NotAsking
  /\ runId' = NextRun
  /\ phase' = "running"
  /\ runError' = FALSE
  /\ tokens' = <<>>
  /\ result' = None
  /\ \E victim \in IF crash THEN OrNone(Fastest(view, Holders(view))) ELSE {None} :
     \E via \in IF crash THEN Requesters(view, victim) ELSE {None} :
       LET order == IF via # None THEN {via} ELSE {view.self} \cup Alive(view)
           first == IF via # None THEN via ELSE view.self
       IN /\ asking' = [crash |-> crash, start |-> view, via |-> via,
                        at |-> first, left |-> order \ {first}]
          /\ timer' = [armed |-> crash, via |-> via, victim |-> victim]
  /\ killed' = None
  /\ UNCHANGED <<view, frozen, busyKey, lost, totals, note, play>>

\* The timer of a crash, 1.3 s later: whichever device is busiest now, other
\* than the one that was asked.
Inflight(p, d) ==
  MapThenSumSet(LAMBDA s : p.member[d].inflight[s], Hosted(p, d))

Targets(p, via, victim) ==
  LET others == Alive(p) \ {via}
      busiest == {d \in others : \A e \in others : Inflight(p, e) <= Inflight(p, d)}
      working == {d \in busiest : Inflight(p, d) > 0}
  IN IF working # {} THEN working ELSE {victim}

CrashTimer ==
  /\ timer.armed
  /\ killed' \in Targets(view, timer.via, timer.victim)
  /\ timer' = NoTimer
  /\ UNCHANGED <<view, phase, frozen, result, runError, runId, stage, asking, play>>

\* The device that was asked does not answer: the next is, if there is one.
DeviceSilent ==
  /\ asking.at # None
  /\ asking' \in
       IF asking.left = {} THEN {[asking EXCEPT !.at = None]}
       ELSE {[asking EXCEPT !.at = d, !.left = @ \ {d}] : d \in asking.left}
  /\ UNCHANGED <<view, phase, frozen, result, runError, runId, stage, timer, play, killed>>

\* Mutant: what generate() throws is not caught.
FailedUncaught ==
  /\ Running
  /\ asking # NotAsking
  /\ asking' = NotAsking
  /\ UNCHANGED <<view, phase, frozen, result, runError, runId, stage, timer, play, killed>>

\* Mutant: the timer is cleared after an answer only.
FailedTimerLeft ==
  /\ Running
  /\ asking # NotAsking
  /\ asking' = NotAsking
  /\ killed' = None
  /\ phase' = "idle"
  /\ runError' = TRUE
  /\ UNCHANGED <<view, frozen, result, runId, stage, timer, play>>

\* The question fails: a device said so, or there is nobody left to ask.
Failed ==
  /\ Running
  /\ asking # NotAsking
  /\ asking' = NotAsking
  /\ timer' = NoTimer
  /\ killed' = None
  /\ phase' = "idle"
  /\ runError' = TRUE
  /\ UNCHANGED <<view, frozen, result, runId, stage, play>>

-----------------------------------------------------------------------------
\* Replaying.

\* The answer arrives: play() begins at once.
Answered ==
  /\ asking.at # None
  /\ \E i \in Plays : Idle(i)
  /\ LET i == CHOOSE j \in Plays : Idle(j)
     IN \E r \in Results :
          /\ result' = r
          /\ play' = [play EXCEPT ![i] =
               [id |-> NextRun, steps |-> BuildTimeline(r), seen |-> {}]]
  /\ runId' = NextRun
  /\ frozen' = asking.start
  /\ busyKey' = None
  /\ lost' = {}
  /\ tokens' = <<>>
  /\ totals' = Zero
  /\ note' = "none"
  /\ phase' = "playing"
  /\ asking' = NotAsking
  /\ timer' = NoTimer
  /\ killed' = None
  /\ UNCHANGED <<view, runError>>

ShowSend(step) ==
  /\ busyKey' = None
  /\ totals' = [totals EXCEPT
       !.networkMs = @ + step.networkMs,
       !.bytes = @ + IF step.betweenDevices THEN step.bytes ELSE 0]
  /\ UNCHANGED <<lost, tokens, note>>

ShowCompute(step) ==
  /\ busyKey' = step.at
  /\ totals' = [totals EXCEPT !.computeMs = @ + step.computeMs]
  /\ UNCHANGED <<lost, tokens, note>>

ShowToken(step) ==
  /\ busyKey' = None
  /\ tokens' = Append(tokens, step.text)
  /\ totals' = [totals EXCEPT !.tokens = @ + 1]
  /\ UNCHANGED <<lost, note>>

\* Counted once per device, however many of its stages were on the route.
Seen(i, step) == play[i].seen \cup {step.member}

\* Mutant: counted once per stage it had on the route.
ShowLostEveryTime(i, step) ==
  /\ busyKey' = None
  /\ lost' = Seen(i, step)
  /\ totals' = [totals EXCEPT !.lost = @ + 1]
  /\ note' = "lost"
  /\ UNCHANGED tokens

ShowLost(i, step) ==
  /\ busyKey' = None
  /\ lost' = Seen(i, step)
  /\ totals' = IF step.member \in play[i].seen THEN totals
               ELSE [totals EXCEPT !.lost = Cardinality(Seen(i, step))]
  /\ note' = "lost"
  /\ UNCHANGED tokens

ShowNote(step) ==
  /\ note' = step.kind
  /\ UNCHANGED <<busyKey, lost, tokens, totals>>

\* The next step of a replay is shown.
ShowStep(i) ==
  /\ play[i].steps # <<>>
  /\ InCharge(i)
  /\ LET step == Head(play[i].steps)
     IN /\ \/ step.kind = "send" /\ ShowSend(step)
           \/ step.kind = "compute" /\ ShowCompute(step)
           \/ step.kind = "token" /\ ShowToken(step)
           \/ step.kind = "lost" /\ ShowLost(i, step)
           \/ step.kind \in {"waiting", "recovered"} /\ ShowNote(step)
        /\ play' = [play EXCEPT ![i] =
             [id |-> @.id, steps |-> Tail(@.steps),
              seen |-> IF step.kind = "lost" THEN Seen(i, step) ELSE @.seen]]
  /\ UNCHANGED <<view, phase, frozen, result, runError, runId, asking, timer, killed>>

\* A newer run took over: this one returns.
Cancelled(i) ==
  /\ ~Idle(i)
  /\ ~InCharge(i)
  /\ play' = [play EXCEPT ![i] = NoPlay]
  /\ UNCHANGED <<view, phase, frozen, result, runError, runId, stage, asking, timer, killed>>

\* The last step is over: the stage thaws.
PlayEnds(i) ==
  /\ ~Idle(i)
  /\ play[i].steps = <<>>
  /\ InCharge(i)
  /\ busyKey' = None
  /\ note' = "none"
  /\ frozen' = None
  /\ lost' = {}
  /\ phase' = "done"
  /\ play' = [play EXCEPT ![i] = NoPlay]
  /\ UNCHANGED <<view, result, runError, runId, tokens, totals, asking, timer, killed>>

-----------------------------------------------------------------------------
\* A poll publishes another picture.
PictureArrives ==
  /\ view' \in Pictures \ {view}
  /\ UNCHANGED <<phase, frozen, result, runError, runId, stage, asking, timer, play, killed>>

Init ==
  /\ view = None
  /\ phase = "idle"
  /\ frozen = None
  /\ result = None
  /\ runError = FALSE
  /\ runId = 0
  /\ busyKey = None
  /\ lost = {}
  /\ tokens = <<>>
  /\ totals = Zero
  /\ note = "none"
  /\ asking = NotAsking
  /\ timer = NoTimer
  /\ play = [i \in Plays |-> NoPlay]
  /\ killed = None

\* The page is mounted again: it is in its first state.
PoolMounts ==
  /\ view' = None
  /\ phase' = "idle"
  /\ frozen' = None
  /\ result' = None
  /\ runError' = FALSE
  /\ runId' = 0
  /\ busyKey' = None
  /\ lost' = {}
  /\ tokens' = <<>>
  /\ totals' = Zero
  /\ note' = "none"
  /\ asking' = NotAsking
  /\ timer' = NoTimer
  /\ play' = [i \in Plays |-> NoPlay]
  /\ killed' = None

AskStep == DeviceSilent \/ Answered \/ Failed

PlayStep(i) == ShowStep(i) \/ Cancelled(i) \/ PlayEnds(i)

Next ==
  \/ PictureArrives
  \/ \E crash \in BOOLEAN : Ask(crash)
  \/ CrashTimer
  \/ AskStep
  \/ \E i \in Plays : PlayStep(i)

Spec == Init /\ [][Next]_vars

-----------------------------------------------------------------------------
\* What the page says an answer is comes from the last result and no other,
\* even while the replay of an older one is still asleep: nothing before the
\* result is there, its first tokens during its replay.
AnswerIsOfThisRun ==
  /\ Running => tokens = <<>>
  /\ phase \in {"playing", "done"} => result # None /\ IsPrefix(tokens, result.tokens)

\* Whatever was cancelled before it, a finished replay has shown it all: each
\* token, all the time computing and the bytes between devices, each device
\* lost once; and the stage shows the pool of now.
SumOver(result_, f(_, _)) ==
  LET hops == UNION {{<<i, k>> : k \in DOMAIN result_.passes[i].hops} :
                       i \in DOMAIN result_.passes}
  IN MapThenSumSet(LAMBDA h : f(h[2], result_.passes[h[1]].hops[h[2]]), hops)

ComputedIn(result_) == SumOver(result_, LAMBDA k, hop : hop.compute_ms)

SentIn(result_) == SumOver(result_, LAMBDA k, hop : IF k > 1 THEN hop.sent_bytes ELSE 0)

Losses(result_) == {j \in DOMAIN result_.events : result_.events[j].kind = "failover"}

LostIn(result_) == {result_.events[j].member : j \in Losses(result_)}

DoneShowsItAll ==
  phase = "done" =>
    /\ tokens = result.tokens
    /\ totals.tokens = Len(result.tokens)
    /\ totals.computeMs = ComputedIn(result)
    /\ totals.bytes = SentIn(result)
    /\ totals.lost = Cardinality(LostIn(result))
    /\ frozen = None
    /\ lost = {}

\* "How that answer travelled" cuts the passes of the answer into legs: from[j] is
\* the pass that leg j begins with, and those up to the next leg took its route. A
\* pass before which devices were lost begins a leg, however many they were, and the
\* leg tells the first of them and no other; it tells of no loss that was not there.
LostBefore(result_, i) == {j \in Losses(result_) : result_.events[j].at_pass = i - 1}

Tells(leg, result_, i) ==
  /\ leg.lostBefore = <<>> <=> LostBefore(result_, i) = {}
  /\ \A j \in LostBefore(result_, i) : (\A k \in LostBefore(result_, i) : j <= k) =>
       leg.lostBefore = <<result_.events[j].member, result_.events[j].stage>>

Covers(leg, result_, first, next) ==
  /\ leg.passes > 0 /\ leg.passes = next - first
  /\ \A i \in first..next - 1 :
       /\ result_.passes[i].route = leg.route
       /\ i # first => LostBefore(result_, i) = {}
  /\ Tells(leg, result_, first)

CutsInto(legs, result_, from, n) ==
  /\ from[1] = 1
  /\ from[Len(legs) + 1] = n + 1
  /\ \A j \in 1..Len(legs) : Covers(legs[j], result_, from[j], from[j + 1])

JourneyIsComplete ==
  phase = "done" =>
    LET legs == LegsOf(result)
        n == Len(result.passes)
    IN \E from \in [1..Len(legs) + 1 -> 1..n + 1] : CutsInto(legs, result, from, n)

\* "Crash a device mid-answer": it crashes while the question is out, and, as
\* long as another device was there to ask, never the one that was asked.
CrashIsMidAnswer ==
  [][killed' \notin {killed, None} =>
       /\ Running /\ asking.crash
       /\ Cardinality(Alive(asking.start)) > 1 => asking.via \notin {None, killed'}]_vars

\* The words agree with the cards: as many cards of a stage say "serving" as
\* the pool counted copies of it, and the stage the sentence is about has as
\* many as the sentence says.  (For two replicas: see the README for three.)
\* What the bench calls spare neither serves a stage nor loads one, but for a
\* device that is just leaving and is asked itself (see the README); and a
\* healthy pool has no empty place.
\* And while nothing is replayed, the owner's button below asks of a device what
\* that device's own card asks of it, whatever the card calls it.
Serving(s) ==
  Cardinality({d \in Column(Shown, s) : CopyCard(Shown, d, s, lost) = "serving"})

WordsMatchCards ==
  Shown # None /\ lost = {} =>
    /\ \A s \in Stage : Serving(s) = Coverage(Shown)[s]
    /\ HealthText(Shown).says = "no device holds it" => Serving(HealthText(Shown).stage) = 0
    /\ HealthText(Shown).says = "on one device only" => Serving(HealthText(Shown).stage) = 1
    /\ Health(Shown) = "healthy" => \A s \in Stage : Missing(Shown, s) = 0
    /\ \A d \in Bench(Shown) :
         BenchTile(Shown, d) = "spare" /\ Shown.member[d].state # "left" =>
           \A s \in Stage : Shown.member[d].hosting[s] \notin {"loading", "ready"}
    /\ frozen = None =>
         \A offer \in OwnerScenario(view) :
           /\ offer.busy = OwnerAsks(Shown.member[offer.device])
           /\ offer.busy # (DescribeDevice(Shown.member[offer.device], "none")
                              \in {"handing over", "owner is using it"})

\* The stage is frozen during a replay only: "It thaws when the replay ends"
\* (app/page.tsx).
FrozenOnlyWhileReplaying == phase = "idle" => frozen = None
=============================================================================
