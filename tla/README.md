# torrent_llm in TLA+

This directory holds a formal model of the **pool**: devices that lend memory and
compute to run one large language model between them. Each device runs the same
program (`src/src/torrent_llm/pool`), there is no coordinator, and devices come, go,
crash, and are taken back by their owners at any time. It also models the
**dashboard** (`src/dashboard`), the web page through which people watch the pool, ask
it questions and break it on purpose. The modules are translated from the Python and
TypeScript sources; TLC checks them on small instances, and TLAPS proves the central
facts for every instance.

Paths below are relative to `src/src/torrent_llm/` unless they start with `docs/` or
`dashboard/`, which are `src/docs/` and `src/dashboard/`.

## 1. The system

### Components, what they keep and what they do

| component | source | state | operations |
|---|---|---|---|
| membership table | `pool/members.py` | one row (`Member`) per device name, when it last advanced by the reader's clock, who was found unreachable | `set_self`, `merge` (higher stamp wins), `liveness`, `alive`, `digest`, `mark_unreachable` |
| gossip | `pool/gossip.py`, `pool/daemon.py:153-278`, `pool/api.py:152-162` | none of its own: calls in flight | `choose_targets`, one call per target with the digest taken once per round, the handler that merges and answers |
| discovery | `pool/discovery.py` | the last announcement heard | broadcast, listen, introduce (`Daemon._found`) |
| placement | `pool/placement.py` | none: a pure function of a view | `wanted_stages`, with the spare-capacity loop `_add_faster_copies` |
| daemon | `pool/daemon.py` | `_state`, heartbeat, incarnation, when the drain began | the beat (`tick`: forget failures, publish, gossip, `_reconcile`, publish), `set_owner_busy`, `start`, `stop` |
| shard host | `pool/hosting.py` | the stages held, each with a status, a gRPC server and a load counter | `start`, `stop`, `_load` on a thread of its own, `forget_old_failures`, admission in `LoadCounter` |
| owner monitor | `pool/owner.py` | two counters and `triggered` | `sample` once per interval, calling `set_owner_busy` |
| router | `pool/router.py` | none | `replicas_of`, `pick_route` |
| pool runner | `pool/runner.py`, `runner/chain.py` | `_load`: this device's own requests per copy; smoothed hop times; everything per request on the stack of `generate` | `generate` with routing, busy retries, failover, waiting for a copy |
| shard server | `transport/server.py`, `transport/sessions.py` | a cache per request id, with the time it was last used | `Forward` with the check of the cache position, the sweep, the drop at the end |
| control API | `pool/api.py` | none | `/gossip`, `/generate`, `/admin/owner`, `/admin/leave`, `/pool`, `/events` |
| lab | `pool/lab.py` | the processes it started | start, kill, restart devices |
| agents | `agent/*.py` | a conversation | an orchestrator that plans and asks through the pool |
| dashboard: client of the pool | `dashboard/lib/pool.ts` | the device that answered last, the devices known, the time of the last event heard, the feed | the polling loop, the same poll after a click, `generate` over the devices in turn |
| dashboard: pool page | `dashboard/app/page.tsx`, `dashboard/lib/poolReplay.ts`, `dashboard/components/pool/` | phase, frozen picture, last result, what a replay has shown so far | `run`, `play`, the crash timer, the cards, columns, bench and sentences drawn from a picture |
| dashboard: two devices | `dashboard/app/two-devices/page.tsx`, `dashboard/lib/replay.ts` | topology, question, result, replay | `loadTopology`, `run`, `play`, the Replay button |
| dashboard: details | `dashboard/app/details/page.tsx`, `dashboard/components/HorizontalBars.tsx` | the run and the comparison shown | `run` with and without comparison, the three charts |
| planning, runtime, codecs, evaluation, profiling, CLI, single-machine API | the rest | | numerical, offline or stateless |

### How they interact

The **beat** is one thread per device. In one turn it forgets old failures, publishes
the device's row, gossips (one blocking HTTP call per target), and reconciles: it reads
the state under a lock, evaluates placement over its own view, *lets go of the lock*,
and then starts and releases stages. Meanwhile, on other threads of the same device:
loads finish or fail, HTTP handlers merge tables and change the state on the owner's
behalf, the owner monitor does the same, broadcasts introduce strangers, and questions
run through the copies held and through the copies of others.

Across devices nothing is agreed: each device acts on its own view, and all that keeps
the views together is that rows carry a stamp (incarnation, heartbeat) and that a
device is the only writer of its own row.

The dashboard is one thread with asynchronous functions. A loop polls whichever device
answers, a click starts the same poll beside it, a question is out for up to two
minutes, and a finished answer is replayed for many seconds; between any two awaits of
one of them the others move, the user goes on clicking, and a link may unmount the page.
What one of them read before an await may be old after it: who is asked, which picture
is shown, which run a replay belongs to.

### What is hard about it

* A digest is taken once and sent to several targets; an answer may come after the
  sender gave up; a request may arrive after its sender died or restarted.
* A restarted device starts counting from 1 and is known under its old stamp.
* Every device plans on a view that is missing, late or in the middle of a change.
* The beat decides on a snapshot that the owner, a load or a cooldown has overtaken by
  the time it acts.
* Make-before-break relies on a row of another device, which may be stale.
* A question holds caches on several devices which may each lose theirs for a
  different reason, and its own bookkeeping has to survive every way out of a loop.
* Two agents, the owner and the monitor, press the same button.
* A load, the beat's stop and the close of a device share a table under a lock that
  each of them lets go of in the middle.
* Two polls of one page ask for news since the same moment and answer in any order.
* A replay that a newer one cancelled is still asleep, and wakes up in the middle of
  the newer one.
* The crash button picks its victim before the answer is out and fires a timer later.

### What makes each component correct

* *membership*: entries only move forward; nobody knows more of a device than the
  device; old news revives nobody; pools do not mix; tables come to agree.
* *placement*: a dark stage comes first; the plan leaves nothing undone that could be
  done; adopting it, in any order, changes neither it nor the coverage.
* *daemon and host*: memory is never exceeded; nothing is dropped but by a drain; a
  drain gives up a copy only when told that others have it, ends, and ends with nothing
  held; the pool heals.
* *owner*: a device gives way, does not flap and is lent again.
* *runner*: a token is computed over exactly the text so far; the record of load is
  true but for the questions that gave up after a change of route; every question ends.
* *host, step by step*: what is advertised as ready has a running server; no copy is
  stopped twice; none that was asked to go comes up and stays.
* *client*: no event is shown twice or skipped; a page that was left stops polling; one
  that stays open finds the pool again.
* *pages*: an answer on the stage is the answer to the last question; a finished replay
  has shown all that was measured; the words, the cards and the buttons say the same of
  the pool; a crash hits in the middle of an answer and never the device that was
  asked; every run ends.

`PROJECT.json` lists the places where each of these could go wrong under `hazards`.

## 2. The modules

| module | models | proofs |
|---|---|---|
| `Rows` | a table entry and the order of stamps | |
| `Views` | **abstract**: what a leaderless table promises its readers | |
| `Membership` | the table, gossip, crashes and restarts, broadcasts, the pool check | `MembershipProofs` |
| `Placement` | `wanted_stages`, as functions over views | `PlacementProofs` |
| `Daemon` (extends `Placement`) | the beat, the stages held, drains, the owner, what is heard of others | `DaemonProofs` |
| `Owner` | the monitor, the buttons, the daemon's state | `OwnerProofs` |
| `Runner` | questions over routes, failover, the cache check, the record of load | `RunnerProofs` |
| `Hosting` | `ShardHost` and its load threads, lock by lock | `HostingProofs` |
| `PoolClient` | the dashboard's polls of the pool | `PoolClientProofs` |
| `PoolReplay` | the timeline and the journey of a pool's answer, as functions | |
| `PoolPage` (extends `PoolReplay`) | the pool page: pictures, questions, replays, the crash button | |
| `ChainReplay` | the timeline of a generation of the fixed chain | |
| `TwoDevices` (extends `ChainReplay`) | the two-device page | |
| `Details` | the page of figures and its charts | |
| `Dashboard` (extends the three pages) | the site: one page open at a time, links | `DashboardProofs` |
| `MC...` | constants for TLC, one module per component | |

Composition. `Membership` implements `Views` through a refinement mapping
(`ViewsPromise`). `Daemon` extends `Placement` and stands on what `Membership`
establishes: its `Hear` lets a reader's entry jump to the device's current row, which
is a step `Views` allows. `Owner` models the daemon's `_state` as far as
`set_owner_busy` and the end of a drain change it. `Hosting` takes apart the calls that
`Daemon` makes in one step. `Dashboard` composes its three pages: a page that is not
open is kept in its first state, and `Follow` unmounts one and mounts another. The
pictures `PoolPage` receives are what `PoolClient`'s polls bring, of which it keeps only
that any picture may follow any other.

### Membership

* `up`, `incarnation`, `heartbeat`, `state` are the daemon's; `table[r][d]` is r's
  entry for d. `verdict[r][d]` stands for the time since the entry advanced: the code
  derives alive/suspect/down from a clock, here a verdict only gets worse by
  `GrowQuiet` and is reset by news. `published` is a history variable.
* `Gossip` is one round of the beat: a digest taken once, and calls to a set of targets
  `TargetSets` allows (live ones at random up to the fan-out, one that is gone, the
  seeds when nobody is alive). All calls of a round are opened together; the code makes
  them one after the other, so the model lets answers arrive in any order, including
  the code's. The digest is the same for all, as in the code.
* `Receive`, `Answer`, `TimeOut`, `ReceiveLate`, `Lose` are what can become of a call.
  `Receive` and `ReceiveLate` check the pool of the sender. A failed call of a round has
  no effect in the code; `MarkUnreachable` is what a failed question does (`Runner`), at
  any time.
* `Found` is the introduction after a broadcast, on the discovery thread; a beat and an
  introduction can be under way at once.
* `Start` publishes under a new incarnation. `time.time_ns()` gives it, so it is only
  as good as the clock: `ClockMayStepBack` makes this a parameter.

`Receive` merges and answers in one step; the code makes two calls of it
(`daemon.py:294-295`), and a row that another thread merges in between only makes the
answer newer. The handler also takes a request that names no pool (`api.py:156`), which no
device of this program sends.

Left out of a row: everything but the stamp and the state; the table looks at nothing
else. Two devices configured with one name are outside the model.

### Placement

A view is a function from the devices alive in it to their rows, a plan a function from
them to sets of stages. The two `while` loops of the code are recursive functions over
plans (`FillThin`, `AddFasterCopies`): each turn adds a stage, so both end. Ties are
broken as in the code, by speed, free room and name. `MCPlacement` enumerates every
view as an initial state and lets devices adopt their share of the plan in any order.

### Daemon

* `PublishBeat`, `Decide`, `Act` are the three parts of a turn between which the rest
  of the device may move. `Decide` is one snapshot (state, view, wanted, held), `Act`
  performs the starts and releases, the end of the drain, and the closing publish. The
  code checks a copy for passes in flight and stops it in two statements; here that is
  one step.
* `Hear` brings a reader the row the other published last; until then it goes on with an
  older one. Rows under way, and rows that come by way of a third device, are in
  `Membership`.
* `held[d][s]` is the `_Held` record's status. `LoadDone` and `LoadFails` are the load
  thread's end. `Crash` loses everything, `Leave` publishes LEFT and `Close` ends the
  process, in one step: that `stop()` closes the shards beside a beat that has not ended
  in two seconds is in `Hosting`.
* `OwnerBusy`/`OwnerIdle` are `set_owner_busy`. `graceOver` abstracts the clock.
* `Route`, `EndPass`, `NextPass`, `EndQuestion` are questions as a copy sees them: in
  flight during a pass, not between two passes.
* `basis` and `lasting` are history variables: whose rows told a beat, when it
  decided, that they have a stage it gives up, and who of them still said so themselves at
  that moment and has hosted, without a break, since. Every step records them
  (`Record`), and no step waits for either.

### Owner

`SampleInUse` and `SampleQuiet` are the two branches of `sample` up to the call, `Tell`
is the call, so that a button may be pressed between them. Counters stop at the
threshold they are compared with. Which processes count as the owner's is a free
choice. `byHand`, `overruled` and `quiet` are history variables.

### Runner

* A text is its length; `sent` is what a pass sends, `position` the code's
  `cache_position`, `cache[c][q]` what a copy has cached under the question's present
  request id. A new route means a new request id, hence empty caches.
* `NextHop` and `NextToken`/`StopToken` are a pass; `FindBusy`, `FindGone`,
  `FindUnhappy` its failures, told apart as `HopError` tells them apart.
* `TakeRoute` is `_await_route` and `_charge` in one step.
* The environment is free: copies fall, rise, fill up, sweep sessions, and the table
  lists or unlists them at any time.
* Copies are on other devices: a device never marks itself unreachable. The route's
  score only chooses among copies and is left out. Errors of `generate` that are not
  RPC errors are left out.

### Hosting

* A `Copy` is a `_Held` object. `held` is the table, `stageOf`, `status`, `cancelled`
  and `server` the object's fields, `listening` the gRPC servers that run.
* `Pop`, `Cancel`, `Look`, `StopServer` and `Clear` are the statements of `stop()`
  between which another thread may run: the table's lock is held only for the first.
  The beat and `close()` (which waits two seconds for the beat and no longer) may each
  be in one. `Start` and `Forget` are whole critical sections of the beat.
* `Loaded`, `Serve`, `Keep`/`GiveUp`, `Ready`, `LoadFails` are `_load` on its thread;
  `lock` is held from `Keep` to `Ready`, and whoever needs the lock waits for it.

Left out: ports, and the memory that a cancelled load owns until its loader returns.

### PoolClient

* `up`, `log`, `news` are the devices: they answer, fall silent, restart without their
  log, and note events, all as they please.
* A poll is a record with the request it waits for. `StartPoll`, `ViewArrives`,
  `ViewMissing`, `EventsAnswered`, `EventsArrive`, `EventsMissing`, `Publish` are the
  stretches of `poll` between its awaits. The answer to `/events` leaves the device in
  one step and reaches the page in another, because the other poll may move `lastEvent`
  in between.
* `base`, `known`, `lastEvent` are the refs shared by the loop and a click's poll;
  `gateway`, `error`, `feed` are what `setState` publishes. `TimerFires`, `Refresh` and
  `LeavePage` start and stop polls.
* Only the order of event times matters, and one clock gives them (`news`). In the
  program each device has its own, and two events of one device may have the same time
  to the microsecond, which is not met here: after the page moved from one device to another the
  times are of two clocks, which is why `NothingSkipped` speaks of the time while one
  device is all the page has heard (`heardFrom`).

### PoolPage and PoolReplay

* A picture gives each device's liveness, state, speed and copies. `Coverage` and
  `Health` are the server's words of it; `Column`, `Missing`, `Bench`, `DescribeDevice`,
  `HealthText`, `OwnerAsks`, `OwnerScenario` are what the page draws from it.
* `Ask` is `run()` up to its first await, `DeviceSilent`, `Answered` and `Failed` are
  what becomes of the request, `CrashTimer` is the timer that crashes a device 1.3 s
  later. `Answered` runs on into `play()`, which begins at once.
* A replay is a record: its run number, the steps left, the devices it saw lost.
  `ShowStep` shows one, `PlayEnds` is the end of the loop, `Cancelled` the early return
  of a replay that sees a newer number. There are at most two replays (`Plays`) at a time:
  one in charge, and one that was cancelled and is still in its step. No question is
  asked while one is stale, so run numbers may be counted modulo `MaxRun + 1`.
* `BuildTimeline` and `LegsOf` are the pure functions of `poolReplay.ts` and
  `Journey.tsx`. Times are whole numbers, and a hop's transport an even one, so that half
  of it is shown exactly; how long a step is shown is left out. A device that is down is
  "offline", also where the lab lets the card say "Crashed" (`Cards.tsx:44-47`).

A crash timer that is armed when the page is unmounted still fires in the program; here
an unmounted page does nothing any more.

### TwoDevices, ChainReplay, Details

* `TopologyAnswered` is either end of `loadTopology`, of which two may be under way;
  whichever comes last counts, so a topology may be lost again while a question is out.
  `RunChain`, `GenerationArrives` and `GenerationFails` are `run()`, which plays on the
  chain as it was when the question was asked; `ReplayAgain` plays on the chain as it is
  known now.
* `ChainTimeline` is `buildTimeline` of `replay.ts`. The API sends a hop's transport as
  one figure, and half is shown on each way.
* `RunDetails`, `Compared`, `Generated`, `DetailsFail` are the page of figures.
  `BandwidthRows`, `LatencyRows`, `CacheRows` are its three panels and `Bars` the
  geometry of their bars, in whole pixels.

### Bounds in the guards

`MaxHeartbeat`, `MaxIncarnation`, `MaxExchanges`, `Changes` (`Membership`);
`MaxDisruptions` (`Daemon`); `Copy`, the number of loads (`Hosting`); `MaxNews`,
`Reporters` (`PoolClient`); `Plays`, `MaxRun` (`PoolPage`); `Replays`, run numbers modulo
4, two requests for a topology (`TwoDevices`, `Details`). Each is named where it is
declared or used. The runner's limits (`MaxFailovers`, `MaxBusyRetries`,
`MaxNewTokens`) and the client's `FeedSize` are parameters of the code.

## 3. The runs

Every property of a passing run comes with a mutant in `PROJECT.json`: a plausible bug
in the code under which TLC finds that property violated.

| run | instance | what it shows |
|---|---|---|
| `pools` | 3 devices, one of another pool, 2 calls in flight, leaving; no broadcasts, no restarts | `PoolsNeverMix`, `StampsNameRows`, `EntriesMoveForward`, refinement `ViewsPromise` |
| `restarts` | 2 devices, one seeded by the other, broadcasts, 2 incarnations, fair | `NobodyAhead`, `OnlyOwnerWrites`, `OnlyNewsRevives`, `Converges` |
| `placement` | 3 devices of two speeds, the slow with more room, 2 stages, 2 replicas, spare capacity | `PlanIsMaximal`, `DarkStagesFirst`, `SurplusIsFaster`, `PlanSettles`, `CoverageKeepsUp` |
| `heals` | 2 devices, 2 stages, one crash, leave, failed load or wrong suspicion | `TypeOK`, `FitsInMemory`, `OnlyDrainsDrop`, `Heals` |
| `gives_back` | 2 devices, 1 stage, an owner who changes his mind, questions, one crash | `AwayHoldsNothing`, `ReplacedBeforeBroken`, `DrainCompletes` |
| `owner` | thresholds 2 and 6 as in the code, both buttons | `NoFlapping`, `LendsAgain`, `GivesWay` |
| `ends` | 1 question, 2 stages, a spare copy of the second | `RecordIsBounded`, `RightContext`, `EveryQuestionEnds` |
| `client` | 2 devices, one seed, loop and click, 2 events, a feed of 2 | `FeedNeverRepeats`, `NothingSkipped`, `StoppedLoopStops`, `Reconnects` |
| `site` | the three pages; 3 devices, 2 stages, 2 replicas, 4 pictures, 2 results; a chain of 2 | `AnswerIsOfThisRun`, `DoneShowsItAll`, `JourneyIsComplete`, `WordsMatchCards`, `CrashIsMidAnswer` of the pool page, `ChainAnswersWhatWasAsked`, `ChainDoneShowsItAll` of the two devices, `ComparisonIsOfThisRun`, `ChartsAddUp` of the figures, and `EveryRunEnds` |
| `stuck`, `double`, `forgotten` | see section 5 | what the code does against its own words |

The sizes differ much: `pools` is a million states, `client` half a million, `site` two
hundred thousand, the others less.

One further configuration passes and is not among the runs, because the proofs already
say what it says: `MCHosting_held` (two stages, four loads, the beat and a close:
`AdvertisedServes`, `StoppedOnce`).

### Why the bounds are enough

* Two devices with two incarnations are what stale news needs: an old run's row, a new
  run's row, and a reader that has either. `restarts` has one call at a time, so that
  liveness stays within reach, and `pools` has two, which is a late request overtaken by
  a newer answer, and no restarts. Both at once, and everything else, is in the theorems:
  they remove the bounds for every property of the two runs but `Converges`.
* The third device of `pools` is what mixing needs: a stranger, and someone to hear of
  it at second hand.
* Placement: three devices are the fewest with a fast one, a slow one and a tie; two
  stages and two replicas the fewest where a second copy competes with a first one. All
  devices see the same rows; views that miss a device or are late are in `Daemon`.
* `heals` has one disruption, of every kind and at every moment, because what it asks
  is whether the pool comes back from one; stages and devices are unequal so that the
  order of loading matters.
* `gives_back` has one stage: whether to let go is decided stage by stage. One owner
  drains, and either device may crash, also between the beat that decides and the beat that
  lets go. `ReplacedBeforeBroken` holds with two owners as well (the theorem is for any
  number); that a stage then has no copy left is section 5.
* The bounds of `owner` are the code's defaults; the model is finite without any other.
* `ends` has two stages so that a pass may break in the middle, and a spare copy of one
  of them to fail over to; patience runs out there, so that every way out of the loop is
  taken.
* `client` has two polls because that is all a page ever has: the loop's and a click's.
  A second device is what failing over needs, and one of them is not a seed, so that the
  page can lose the pool and must fall back on where it started. Two events are the
  fewest that can be told in two answers; `Reporters` has one device because
  `NothingSkipped` is about one.
* `site` has the pictures between which the page's readings differ: a healthy pool with
  a spare device; one where a device is gone and its work comes back; one with a device
  late, one draining and one loading; one with a member that left and one that lent too
  little memory to hold a stage. The results are a
  plain answer and one that loses two devices before its first pass is through, waits,
  recovers, loses one of them again at another stage, and ends with a pass without a
  token. Two replays at a time, of which one is
  stale, and run numbers that come round only after the stale one is gone. Times and
  bytes differ from hop to hop, so that a sum with one left out or doubled is another.
* A plot of 300 pixels and values below 20: a bar of one unit is wider than the gap, and
  the rounding down to a whole pixel is below it.

### Fairness

Only what the program's own threads and timers keep doing is fair.

* `restarts`: a device that may pick another infinitely often does so (targets are
  sampled at random in every round); two running devices do not lose every request and
  every answer between them (strong: any single one may be lost); a sender stops waiting
  (the timeout of `exchange`), and a late request is handled or lost. Wrong verdicts
  (`GrowQuiet`, `MarkUnreachable`) may come at any time and need not. That processes run
  for good is part of the property's premise and not assumed, and publishing ends with
  `MaxHeartbeat`, so that there is a last row to agree on.
* `heals`: the beat takes its turns (weak), with failures forgotten infinitely often if
  infinitely many turns are taken (strong: a cooldown ends, though not at every beat); loads
  end, in success or failure; rows arrive; the silence of a dead device is noticed. Nobody
  has to start, leave, or give a device back.
* `gives_back`: of the drained device only, the beat takes its turns, its rows arrive at
  the others, the grace runs out, passes end (all weak), and a question has a last pass
  (`max_new_tokens`; strong, as it is between passes only now and then). Nothing is
  assumed of the device that is to take over: it may fail, crash or never load.
* `owner`: the monitor's thread goes on sampling and calling.
* `ends`: the question's thread goes on with what it can do. The environment is not
  fair at all: copies may stay away for ever.
* `client`: a request ends, with an answer or by its timeout of 2.5 s (`pool.ts`), and a
  timer fires. Nothing makes a device answer, an owner click, or a page close;
  `Reconnects` speaks of pages that stay open and seeds that stay up.
* `site`: while a page stays open a question to the pool ends, as `generate` gives every
  device at most 120 s and there are finitely many, and the replays go on, as their
  timers fire. A request to the single-machine API has no timeout (`dashboard/lib/api.ts`),
  so nothing is assumed of it, and `EveryRunEnds` says nothing of a page that waits for it.

## 4. The proofs

All are for any number of devices, stages, questions and any bounds.

**MembershipProofs.** `TypeCorrect` gives shapes. The strengthening behind the safety
theorems is a chain of small invariants about the history `published`: whatever a table
or a message says of a device is in that device's `published` set (`OneWriter`); what a
device published under one stamp is one row, because a stamp is used once and the
current stamp is the highest of its incarnation (`StampsAreNames`); a device's own entry
is its last row (`OwnEntry`). From merge-by-stamp follow the action properties
`MovesForward` and `RevivedByNews`, and `LeavingIsFinal`. `PoolsStayApart` needs its own
invariant on calls in flight: a message only tells of its sender's pool, and an answer
only comes from it; requests do reach strangers, and the handler turns them away. `NoAccountAhead` and
`TableImplementsViews` assume `~ClockMayStepBack`, because with a clock that steps back
they are false (section 5); `TableImplementsViews` maps each step of the gossip to a
publication, a lesson, a loss of memory, or a stutter of `Views`.

**DaemonProofs.** `AwayIsEmpty` is not inductive alone: the beat may carry stages to
start that were decided before the owner asked. The invariant adds that a device that
is *away* has no such beat, which holds because only the end of a beat makes it away.
`DropsAreDrains` adds that a beat that means to release saw its device drained, and that
only owners drain. `DrainsAreReplaced` has no assumption on who crashes, leaves or drains.
A drain cannot promise that the stage is still served afterwards, since what it was told
may have ended since; what it can promise is that it was told, and that it was told the
truth. So the invariant relates rows to what their devices have: what a device's last
published row calls ready is ready (`RowsTrue`), so is it with whoever a beat relied on and
has hosted since (`LastingTrue`), and a beat that is to release without force has
somebody it relied on (`BasisInv`). What escapes is only a device that crashed, left or
was drained in the meantime. None of these depends on what placement answers.

`TypesHold` and `HeldFits` do. A beat's plan is a set of stages and fits the device's
memory because what `wanted_stages` answers is sound (below); but it is acted on later,
when loads have ended and failed since. So the invariant behind `HeldFits` is not about
what is held but about what a device has laid claim to, the stages its own row says it holds
together with those its beat is going to start (`Claimed`). What it holds is part of what
its row says, a beat lays claim to no more than the memory, and nothing that happens
before it acts adds to the claim.

**PlacementProofs.** `wanted_stages` is two loops. Each is a recursive function over
plans, and what it computes is an induction over the loop, which the prover does not know
how to do. It is done here once for any loop, in terms of sets: a turn leaves less to
give (`GiveLeavesLess` counts the stages that could still be given), so the recursive
function exists (`LoopDefined`), and a set of plans that every turn stays in has the plan
the loop ends with (`LoopEnds`). The rest are such sets. `Sound` says that an active
device keeps what it holds and is given nothing it failed to load or has no room for;
`NothingThinner` that when the loop has ended, giving makes nothing takeable again. From
these and from what stops each loop follow `PlanIsMaximalHolds` and `PlanSettlesHolds`,
and from what a turn picks (the thinnest stage, a device faster than a holder)
`DarkStagesFirstHolds` and `SurplusIsFasterHolds` (coverage stops at the replicas,
`CoverageStopsAtReplicas`, and what is added after it is faster than a copy that was there,
`AddedIsFaster`). That it is faster than *every* copy there was is neither said nor so:
the code asks for a copy faster than the slowest (`placement.py:95-104`).
`CoverageKeepsUpHolds` compares two
runs of the same loop, before and after one device has done its part: the second has
everything covered that the first has (`Beside`), a turn of either keeps that
(`BesideTurn`), and so the stages the first will cover the second covers too. The views
are the ones a table can hold (`IsView`); the speeds, memories, stages and replicas are
any.

**RunnerProofs.** `ContextIsRight` rests on `position + sent = text` during every pass;
`RecordBounded` on counting: taking a route adds the question to the users of exactly its
copies, and every way out of a pass takes it off exactly those. The one exception is a
question that has changed its route and then runs out of patience, which is discharged
twice (section 5); it is in `LeftBehind` of the copies of its last route, so the record is
never above the number of users and below it by no more than that set. Nothing is assumed
of patience; with questions that never run out of it, `LeftBehind` is empty and the
record is exact.

**OwnerProofs.** `DoesNotFlap`: the monitor's count never exceeds the history's count of
quiet readings in a row, and a call to lend is made only when it has reached the
threshold.

**HostingProofs.** `AdvertisedIsServed`: a stage the table calls ready is a copy of that
stage whose server runs. The invariant says that what the table has is not to go and in
nobody's hands (`HeldIsWanted`), that a caller of `stop()` has marked his copy before he
looks for its server (`Marked`), and that a copy which is not to go has the server it
was given (`ServedListens`, `ReadyServes`): so whatever `stop()` takes down was no longer
advertised. `NobodyStopsTwice` is the part of it about the two callers. That no server
is *left over* is not true (`forgotten`, section 5). The theorems assume that `None` is
not the name of a copy or a stage.

**PoolClientProofs.** `LeftIsLeft`: the cleanup leaves the loop over or in a poll, and a
poll that ends under `stopped` is over. `NothingIsSkipped` follows the moments up to which
nothing is missing: `lastEvent` is one (`LastIsWhole`), so is the moment a poll asked
from (`AskedFromThere`), and an answer has everything between that moment and its own
last event (`AnswerIsWhole`), so its last event is one when it arrives, whatever the
other poll did meanwhile. `NoneTwice` needs that a set of events can be put in order at
all (`CanBeSorted`, by induction on its size) and that what is put in order has no event
twice; the rest is that a merge takes what is new only (`MergeIs`).

**DashboardProofs.** The largest of the proof modules: one section per page, and before
them what they share. `ComparesThisRun` adds that a plain generation has dropped the last
comparison. `CrashesMidAnswer` adds that an armed timer belongs to the question that is
out and knows whom not to crash, and that no replay is in charge while a question is
out, so that none ends the question's run in its place.

A replay is a list of steps that a page takes off one at a time, adding each to what it
shows; that it has shown everything at the end is a fact about the function that made the
list. Both halves are stated with one relation, `Leads(steps, from, to, tally)`: taking
these steps brings the tally (the tokens told, the bytes, the times, the devices lost)
from one value to the other. Lists that lead lead on when they are joined (`LeadsTwo`,
`LeadsFlat`: an induction over the length), so a hop leads, a pass leads, a timeline
leads (`PoolTells`, `PoolComputes`, `PoolSends`, `PoolLoses`; `ChainTells`,
`ChainNetwork`, `ChainComputes`, `ChainLinks`). The totals are the sums the properties
name: a sum over a finite set is taken apart element by element (`SumAdds`), whichever
element the definition picks first. The invariants then say that what is shown leads, by
the steps left, to what was measured (`Showing`, `ChainShowing`), and that a replay whose
number is not the current one is out of the way: at most one is in charge
(`PoolOne`, `ChainOne`), and while a question is out a sleeping one has the number just
before, which numbers counted in a circle need said. They give `ChainAnswers`,
`AnswersOfThisRun`, `DoneHasShownItAll` and `TwoDevicesShowItAll`.

The last of these is for a chain of two devices, which is the one the page draws. The
invariant carries a condition, `LaidOutWhole`: the replay was laid out for as many devices
as the chain has. Of a longer chain this is not always so. Two requests for a topology may
be out; the first brings it, the second fails and takes it away; and the Replay button then
lays the steps out for two devices (`two-devices/page.tsx:98-115`, `:133`). The proof
attempt found this. For a chain of two there is no difference, and so no condition.

`JourneysAreComplete`: the legs grow by one pass at a time, so each pass but the first
either begins a leg or lengthens the last one; the cuts grow with the legs. A pass lost
devices before it only if it recovers (`IsResult`), and a pass that recovers begins a leg,
so no loss falls inside one. Of several devices lost in one pass a leg tells the first.
`WordsAgree` is no induction:
given that whatever is shown is a picture (`PicturesOnly`), cards, columns and sentences
are all brought down to one set, the copies ready on devices alive and active
(`CardsAreCopies`). It is for at most two replicas; with three the sentence is wrong
(section 5). `ChartsAlwaysAddUp` puts the sums of a chart's rows together to the sum over
the hops (`SumByName`: what is summed name by name is summed once) and bounds the bars by
what rounding down can take from two segments (`PartsFit`).

Assumptions are the modules' named `ASSUME`s; TLC evaluates each of them in the runs.
Those the dashboard's proofs need say what the servers send:

* `IsResult` (`PoolPage`): what `pool/runner.py` `generate` returns. Each pass went through
  one hop per stage of its route, there is at most one token per pass, and a loss is noted
  before a pass that recovered.
* `IsGeneration` (`TwoDevices`): what `runner/chain.py` `generate` returns. Whole passes
  through the chain, at least one, at most one token each.
* `IsPicture` (`PoolPage`): what `/pool` returns. A device that left is down, except in
  the eyes of that device itself (`members.py:202-217`).
* `IsRun` (`Details`): what the API measured. The total is the sum of the hops' bytes; a
  phase that has hops has sent something, as no payload is empty; time was spent.
* `PlotWidth > 3`: the page draws at least 320 pixels, of which labels and values
  take 224.
* `MaxRun > 1`: run numbers are counted in a circle here and without end in the program;
  a circle of two would take the run before last for this one.

**Only model-checked.** Everything about liveness (`Converges`, `Heals`,
`DrainCompletes`, `GivesWay`, `LendsAgain`, `EveryQuestionEnds`, `Reconnects`,
`EveryRunEnds`), because fairness is out of the prover's reach. Every invariant and every
action property of a passing run is proved, `WordsMatchCards` for up to two replicas and
`ChainDoneShowsItAll` for a chain of two, `NobodyAhead` and `ViewsPromise` under the
assumption on the clock, all others without any but the modules' own.
Facts that need an induction (over a loop, a set, a sequence) rest on the least
counterexample: the library's `WFMin` says that a set of numbers has a least, and the
step from the one before contradicts it.

## 5. Where the code and its words part

Three runs of `PROJECT.json` end in a violation; each is described there with the quoted
line.

* `stuck` (`pool/daemon.py:306`, `pool/placement.py:39`): two devices that start alone
  both take stage 0, keep it, and stage 1 stays dark although memory was lent for it.
* `double` (`pool/runner.py:383`): a question that fails over and then finds no copy in
  time is discharged twice.
* `forgotten` (`pool/hosting.py:233`): `stop()` pops the stage under the lock and marks it
  cancelled without; a load that checks in between publishes its server on a copy that
  nobody has, which runs until the process ends. `hosting.py:121-122`: "a load still in
  progress gives up instead of coming up after it was wanted gone". The trace: `Start`,
  `Loaded`, `Serve`, `Pop`, `Keep`, `Cancel`, `Look`, `Clear`, `Ready`.

The configurations below are not runs of the project; each checks one property, stated
in the module from a sentence of the repository, that the code does not keep.

| cfg | property | the words | what the code does |
|---|---|---|---|
| `MCOwner_undone` | `HandStands` | `owner.py:151-152` "so it never undoes a decision the owner made by hand" | the monitor takes a drain the owner began by hand for its own and calls it off (`owner.py:186`) |
| `MCDaemon_two_drains` | `MakeBeforeBreak` | `placement.py:13-15` "brings up a replacement *before* it unloads" | two owners drain at once; each still sees the other's old active row (`daemon.py:337`), and both let go |
| `MCDaemon_owner_returns` | `ActiveKeeps` | `placement.py:11` "A device that already holds a stage keeps it" | the beat decided while draining, the owner came back, and the beat releases all the same (`daemon.py:300-319`) |
| `MCDaemon_failed_load` | `FailureCoolsDown` | `hosting.py:33-35` "instead of asking this one to fail the same way again at once" | `start` overwrites a failure that came between decision and act (`hosting.py:211`) |
| `MCDaemon_cut_off` | `FinishWhatTheyHave` | `router.py:60-61`, `members.py:30` | between two passes of a question nothing is in flight, and the stage is stopped (`daemon.py:318`) |
| `MCDaemon_no_room` | `LetsGoAtOnce` | `docs/pool.md:196-197` "in which case it lets go at once" | not unless another ready copy exists (`daemon.py:342-343`): the code is more careful than the text |
| `MCDaemon_surplus` | `AtMostOneTooMany` | `placement.py:5-7`, `docs/adr/002-leaderless-pool.md:37-38` | two devices that do not know one another may each load every stage |
| `MCRunner_refused` | `NeverRefusedMidway` | `docs/pool.md:172` "A question already under way is never refused" | after a failover the text is sent again from position 0 and taken for a new question (`hosting.py:98-107`) |
| `MCMembership_clock_back` | `NobodyAhead` | `members.py:83-84` | if the wall clock steps back over a restart, the new run is taken for old news |
| `MCMembership_founder_returns` | `Converges` | `gossip.py:73-79` "so a partition heals and a restarted device is noticed" | with broadcasts off (`docs/real-devices.md:155`), a founder that left gracefully and was given no seeds is never found again when it comes back: the others take its LEFT row for final and do not ask it |
| `MCDashboard_frozen` | `FrozenOnlyWhileReplaying` | `dashboard/app/page.tsx:93-96` "It thaws when the replay ends" | a question asked during a replay cancels it; if that question fails, nothing thaws the stage until another answer has been replayed |
| `MCPoolClient_feed_order` | `FeedInOrder` | `dashboard/components/pool/Feed.tsx:21` "newest first" | the answers of two polls are appended in the order they arrive, and the older news may come last |

Other places where reading the dashboard showed a difference, which no property states:

* The answer of an older poll may arrive after a newer one's and overwrite the view, the
  error and the gateway with what was true before.
* `lastEvent` is the time of one device's clock; after a failover it is compared with
  another's (`dashboard/lib/pool.ts`), and events between the two are skipped or fetched again.
* In a pool replay the network time of a hop's way back is shown for the last hop only,
  while `replay.ts` shows it for every one; so `DoneShowsItAll` speaks of computing and
  bytes but not of `networkMs`, and `ChainDoneShowsItAll` of both.
* After two losses in one pass the second failed send leaves from a device that is
  already dark, and `Journey` tells the first of them only
  (`dashboard/components/pool/Journey.tsx:29-31`), where its comment says that a failover
  shows "as a break in the route with what was lost and what it cost" (`:49-50`).
  `JourneyIsComplete` states what it does tell.
* A `failover` that is not the loss of a device (its session was swept) is told as
  "device lost".
* `HealthText` says "on one device only" of any stage below the wanted copies: right for
  two replicas, wrong for three (`WordsMatchCards` is checked with two and proved for up to
  two).
* A device that leaves in good order tells the others first and closes its shards after
  (`pool/daemon.py:170-184`), and it still answers meanwhile (`pool/peer.py:49-52`). It says of itself that
  it is alive and has left, with copies still ready (`members.py:202-217`), and
  `DescribeDevice` speaks of leaving only when a device is down
  (`dashboard/components/pool/Cards.tsx`): a page that asks this very device shows it on
  the bench as "Spare, ready to help". `WordsMatchCards` leaves this out.
* A copy that is loading or draining fills its place in the column while the health
  counts it as none.
* `MissingCopy` says that no device has room by looking at the bench only.
* When `loadTopology` fails late the two-device page forgets a topology it had, and
  Replay then lays the steps out for two devices, whatever the chain has (section 4).
* The panel of latencies puts prefill and decode on one axis, against
  `dashboard/app/details/page.tsx:10-11` "never plotted on the same axis".
* The crash timer is not cleared when the page is unmounted.

## 6. What is not modelled

* **Admission**: `LoadCounter`'s check and increment in two critical sections and the
  server's worker threads. `Runner` only knows that a copy may be full, and what it
  promises holds however many are admitted.
* **Sessions left behind** by requesters that never say goodbye, until a later call sweeps
  them, and `ChainRunner.generate` without a pool, which has neither failover nor retries.
* **Discovery**: what an introduction does is in `Membership`; the announcements' interval
  and the memory of who was introduced are left out, as both only decide how often it
  happens.
* **Lab**: it starts, kills and restarts processes, which `Membership` and `Daemon` do at
  any moment. **Control API**: the handlers that change a device's state are in the modules
  of what they change; the rest reads.
* **Agents**: they ask the pool from outside, like any user; their rounds are bounded by a
  counter, and what ends them early is what a model wrote.
* **Shard planning** is a pure function of sizes, run once and by hand.
* **Drawing**: beams, the registry of nodes, bytes and times as text. They show a state
  and keep none.
* Tensors, codecs and the wire format, shard runtime and sampling, evaluation, profiling,
  the single-machine API, command lines and network diagnosis are numerical, offline,
  stateless or pure I/O.
* Of modelled parts: several devices under one name; ports; the memory of cancelled loads; and errors of `generate`
  that are no RPC errors.
