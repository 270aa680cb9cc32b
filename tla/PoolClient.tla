------------------------------ MODULE PoolClient -----------------------------
(***************************************************************************)
(* How a page of the dashboard talks to a pool (src/dashboard/lib/pool.ts): *)
(* the loop that polls whichever device answers, and the refresh after a    *)
(* click, which runs the same poll beside the loop.                         *)
(*                                                                         *)
(* A poll is three requests in turn: the view of the pool, the events since *)
(* the last one heard of, the lab.  Between any two of them other polls, and *)
(* the devices, go on.  The devices answer, fall silent and restart as they *)
(* please; the /events they serve is pool/daemon.py's.                      *)
(***************************************************************************)
EXTENDS Naturals, Sequences, SequencesExt, FiniteSetsExt

CONSTANTS
  Device,     \* the devices, by their URL
  Seeds,      \* where the page starts looking
  FeedSize,   \* events the page keeps (60)
  Reporters,  \* bound: the devices where anything happens
  MaxNews,    \* bound: events noted in all
  None        \* no device

ASSUME ClientAssumption ==
  /\ Seeds \subseteq Device
  /\ Seeds # {}
  /\ FeedSize \in Nat \ {0}
  /\ MaxNews \in Nat
  /\ None \notin Device

VARIABLES
  up,         \* the devices that answer a request now
  log,        \* the events each device would tell of
  news,       \* how many events there have been: the devices' common clock
  base,       \* refs base, known, lastEvent of usePool
  known,
  lastEvent,
  gateway,    \* state of usePool: gateway, error, events
  error,
  feed,
  stopped,    \* the page was left: the cleanup of the polling effect has run
  poll,       \* the polls: the loop's and a click's
  heardFrom,  \* history: the devices whose events the page was ever told
  told        \* history: every event that has been in the feed

pages == <<base, known, lastEvent>>
screen == <<gateway, error, feed, told>>
devices == <<up, log, news>>
vars == <<devices, pages, screen, stopped, poll, heardFrom>>

\* The loop's poll, and that of pool.refresh after a click.
Pollers == {"loop", "click"}

Event == [by : Device, t : 1..MaxNews]

\* Where a poll is.  "asleep" is a loop waiting for its timer, "over" one that
\* will not poll again.
Stages == {"idle", "view", "events", "reply", "lab", "asleep", "over"}

NoPoll(pc) ==
  [pc |-> pc, at |-> None, left |-> {}, spare |-> {},
   since |-> 0, got |-> {}]

TypeOK ==
  /\ up \subseteq Device
  /\ log \in [Device -> SUBSET Event]
  /\ news \in 0..MaxNews
  /\ base \in Device \cup {None}
  /\ known \subseteq Device
  /\ lastEvent \in 0..MaxNews
  /\ gateway \in Device \cup {None}
  /\ error \in BOOLEAN
  /\ feed \in Seq(Event) /\ Len(feed) <= FeedSize
  /\ stopped \in BOOLEAN
  /\ poll \in [Pollers ->
       [pc : Stages, at : Device \cup {None}, left : SUBSET Device, spare : SUBSET Device, since : 0..MaxNews, got : SUBSET Event]]
  /\ heardFrom \subseteq Device
  /\ told \subseteq Event

-----------------------------------------------------------------------------
\* The devices.

\* Daemon.recent_events: what the device told of after that time.
RecentEvents(d, since) == {e \in log[d] : e.t > since}

\* Daemon._record; its deque holds 80, more than the bound. No two events have one time,
\* which time.time() does not promise but to its microsecond.
Note(d) ==
  /\ d \in up \cap Reporters
  /\ news < MaxNews
  /\ news' = news + 1
  /\ log' = [log EXCEPT ![d] = @ \cup {[by |-> d, t |-> news + 1]}]
  /\ UNCHANGED <<up, pages, screen, stopped, poll, heardFrom>>

\* A device is cut off, or crashes and with it its log.
FallSilent(d) ==
  /\ d \in up
  /\ up' = up \ {d}
  /\ \E kept \in BOOLEAN : log' = IF kept THEN log ELSE [log EXCEPT ![d] = {}]
  /\ UNCHANGED <<news, pages, screen, stopped, poll, heardFrom>>

AnswerAgain(d) ==
  /\ d \notin up
  /\ up' = up \cup {d}
  /\ UNCHANGED <<log, news, pages, screen, stopped, poll, heardFrom>>

-----------------------------------------------------------------------------
\* One poll.

\* The poll asks one of these addresses next, having the others left.
Asking(r, u) ==
  [r EXCEPT !.pc = "view", !.at = u, !.left = @ \ {u}, !.spare = @ \ {u}]

\* No address is left to ask: what remains is the lab.
NoneLeft(r) == [r EXCEPT !.pc = "lab", !.at = None]

\* poll() up to its first request: the address that worked last goes first, and
\* the seeds it would not ask anyway are kept for when nobody answers.
StartPoll(p) ==
  LET addresses == IF known = {} THEN Seeds ELSE known
      order == addresses \cup ({base} \ {None})
      first == IF base # None THEN {base} ELSE order
  IN /\ known' = addresses
     /\ \E u \in first :
          poll' = [poll EXCEPT ![p] =
            Asking([@ EXCEPT !.left = order, !.spare = Seeds \ order], u)]
     /\ UNCHANGED <<devices, base, lastEvent, screen, stopped, heardFrom>>

\* The view arrives: this address is the base, what it holds to be alive is
\* what is known, and the events are asked for at once.
ViewArrives(p) ==
  /\ poll[p].pc = "view"
  /\ poll[p].at \in up
  /\ base' = poll[p].at
  /\ \E alive \in SUBSET Device : known' = alive \cup {poll[p].at}
  /\ poll' = [poll EXCEPT ![p].pc = "events", ![p].since = lastEvent,
                          ![p].left = {}, ![p].spare = {}]
  /\ UNCHANGED <<devices, lastEvent, screen, stopped, heardFrom>>

\* Mutant: the seeds are not asked again.
ViewMissingNoSeeds(p) ==
  /\ poll[p].pc = "view"
  /\ poll[p].at \notin up
  /\ IF poll[p].left = {} THEN poll' = [poll EXCEPT ![p] = NoneLeft(@)]
     ELSE \E u \in poll[p].left : poll' = [poll EXCEPT ![p] = Asking(@, u)]
  /\ UNCHANGED <<devices, pages, screen, stopped, heardFrom>>

\* No answer in 2.5 s, or an error: try the next.
ViewMissing(p) ==
  /\ poll[p].pc = "view"
  /\ poll[p].at \notin up
  /\ LET next == IF poll[p].left # {} THEN poll[p].left ELSE poll[p].spare
     IN IF next = {} THEN poll' = [poll EXCEPT ![p] = NoneLeft(@)]
        ELSE \E u \in next : poll' = [poll EXCEPT ![p] = Asking(@, u)]
  /\ UNCHANGED <<devices, pages, screen, stopped, heardFrom>>

\* The device answers, ...
EventsAnswered(p) ==
  /\ poll[p].pc = "events"
  /\ poll[p].at \in up
  /\ poll' = [poll EXCEPT ![p].pc = "reply",
                          ![p].got = RecentEvents(poll[p].at, poll[p].since)]
  /\ UNCHANGED <<devices, pages, screen, stopped, heardFrom>>

\* Mutant: lastEvent is the time of the answer, not of its last event.
EventsArriveLate(p) ==
  /\ poll[p].pc = "reply"
  /\ poll' = [poll EXCEPT ![p].pc = "lab", ![p].since = 0]
  /\ lastEvent' = news
  /\ heardFrom' = heardFrom \cup {e.by : e \in poll[p].got}
  /\ UNCHANGED <<devices, base, known, screen, stopped>>

\* ... and its answer arrives, when lastEvent may have moved.
EventsArrive(p) ==
  /\ poll[p].pc = "reply"
  /\ poll' = [poll EXCEPT ![p].pc = "lab", ![p].since = 0]
  /\ IF poll[p].got = {} THEN UNCHANGED lastEvent
     ELSE \E last \in poll[p].got :
            (\A e \in poll[p].got : e.t <= last.t) /\ lastEvent' = last.t
  /\ heardFrom' = heardFrom \cup {e.by : e \in poll[p].got}
  /\ UNCHANGED <<devices, base, known, screen, stopped>>

EventsMissing(p) ==
  /\ poll[p].pc = "events"
  /\ poll[p].at \notin up
  /\ poll' = [poll EXCEPT ![p].pc = "lab", ![p].since = 0]
  /\ UNCHANGED <<devices, pages, screen, stopped, heardFrom>>

\* The events of an answer, in the order of the device's log.
InOrder(events) ==
  CHOOSE order \in SetToSeqs(events) :
    \A i, j \in DOMAIN order : i < j => order[i].t <= order[j].t

\* Mutant: events are added without looking at what the feed has.
MergeEventsTwice(have, incoming) ==
  LET all == have \o InOrder(incoming)
  IN IF Len(all) <= FeedSize THEN all
     ELSE SubSeq(all, Len(all) - FeedSize + 1, Len(all))

\* mergeEvents: what the feed does not show yet, after what it does.
MergeEvents(have, incoming) ==
  LET all == have \o InOrder(incoming \ Range(have))
  IN IF Len(all) <= FeedSize THEN all
     ELSE SubSeq(all, Len(all) - FeedSize + 1, Len(all))

\* Mutant: the loop does not look whether it was stopped.
AfterPollAgain(p) == IF p = "click" THEN "idle" ELSE "asleep"

\* What becomes of the poll: a loop sleeps until its timer fires, unless it
\* was stopped meanwhile.
AfterPoll(p) ==
  IF p = "click" THEN "idle" ELSE IF stopped THEN "over" ELSE "asleep"

\* The lab answered or did not: setState.
Publish(p) ==
  /\ poll[p].pc = "lab"
  /\ gateway' = poll[p].at
  /\ error' = (poll[p].at = None)
  /\ feed' = IF poll[p].got = {} THEN feed ELSE MergeEvents(feed, poll[p].got)
  /\ told' = told \cup poll[p].got
  /\ poll' = [poll EXCEPT ![p] = NoPoll(AfterPoll(p))]
  /\ UNCHANGED <<devices, pages, stopped, heardFrom>>

-----------------------------------------------------------------------------
\* The polls there are.

\* The loop's timer fires.
TimerFires ==
  /\ poll["loop"].pc = "asleep"
  /\ StartPoll("loop")

\* pool.refresh, after the owner or the lab did what was clicked.
Refresh ==
  /\ poll["click"].pc = "idle"
  /\ ~stopped
  /\ StartPoll("click")

\* The page is left: the cleanup clears the timer; a poll that is under way
\* runs on.
LeavePage ==
  /\ ~stopped
  /\ stopped' = TRUE
  /\ poll' = IF poll["loop"].pc = "asleep"
             THEN [poll EXCEPT !["loop"] = NoPoll("over")] ELSE poll
  /\ UNCHANGED <<devices, pages, screen, heardFrom>>

-----------------------------------------------------------------------------
Init ==
  /\ up \in SUBSET Device
  /\ log = [d \in Device |-> {}]
  /\ news = 0
  /\ base = None
  /\ known = Seeds
  /\ lastEvent = 0
  /\ gateway = None
  /\ error = FALSE
  /\ feed = <<>>
  /\ told = {}
  /\ stopped = FALSE
  /\ \E u \in Seeds :   \* the loop is called when the page is mounted
       poll = [p \in Pollers |->
                 IF p = "loop" THEN [NoPoll("view") EXCEPT !.at = u, !.left = Seeds \ {u}]
                 ELSE NoPoll("idle")]
  /\ heardFrom = {}

PollStep(p) ==
  \/ ViewArrives(p)
  \/ ViewMissing(p)
  \/ EventsAnswered(p)
  \/ EventsArrive(p)
  \/ EventsMissing(p)
  \/ Publish(p)

Next ==
  \/ \E d \in Device : Note(d) \/ FallSilent(d) \/ AnswerAgain(d)
  \/ \E p \in Pollers : PollStep(p)
  \/ TimerFires
  \/ Refresh
  \/ LeavePage

Spec == Init /\ [][Next]_vars

\* Requests end, answered or timed out, and timers fire.  Nothing makes a
\* device answer, an owner click or a page close.
Fairness ==
  /\ \A p \in Pollers : WF_vars(PollStep(p))
  /\ WF_vars(TimerFires)

FairSpec == Spec /\ Fairness

-----------------------------------------------------------------------------
\* Two polls in flight ask for events since the same moment; however their
\* answers interleave, no event is in the feed twice (mergeEvents).
FeedNeverRepeats ==
  \A i, j \in 1..Len(feed) : feed[i] = feed[j] => i = j

\* While one device is all the page has heard, moving lastEvent loses nothing:
\* whatever that device tells of and is not after lastEvent has been in the
\* feed, or is in the hands of a poll that will put it there.
NothingSkipped ==
  \A d \in Device :
    heardFrom \subseteq {d} =>
      \A e \in log[d] :
        e.t <= lastEvent =>
          e \in told \cup UNION {poll[p].got : p \in Pollers}

\* Once the page is left, during the loop's poll or between two, the loop never
\* starts another poll.
StoppedLoopStops ==
  [][stopped /\ poll["loop"].pc \in {"asleep", "over"}
       => poll'["loop"].pc \in {"asleep", "over"}]_vars

\* A page left open finds the pool again as long as one of the devices it
\* started from is there, whatever it has heard of meanwhile.
Reconnects ==
  \A s \in Seeds :
    <>[](s \in up /\ ~stopped) => <>[](gateway # None /\ ~error)

\* The feed tells one device's news in the order it happened: Feed.tsx shows
\* the end of it, "newest first".
FeedInOrder ==
  \A d \in Device : heardFrom \subseteq {d} =>
    \A i, j \in 1..Len(feed) : i < j => feed[i].t < feed[j].t
=============================================================================
