--------------------------- MODULE PoolClientProofs -------------------------
(***************************************************************************)
(* What the loop of lib/pool.ts and the refresh beside it can be relied on   *)
(* for, with any number of devices and of events.                            *)
(*                                                                         *)
(* The argument for the feed: a moment up to which nothing of a device is    *)
(* missing stays one, whatever happens next.  lastEvent is such a moment,    *)
(* and so is the one each poll asked from; an answer has everything between  *)
(* the moment it was asked from and the last event in it.  And a feed whose  *)
(* events all differ still is one after any answer is merged into it.        *)
(***************************************************************************)
EXTENDS PoolClient, FiniteSetTheorems, WellFoundedInduction, SequenceTheorems, TLAPS

Poll ==
  [pc : Stages, at : Device \cup {None}, left : SUBSET Device, spare : SUBSET Device,
   since : 0..MaxNews, got : SUBSET Event]

\* The types the argument needs.
TypeInv ==
  /\ up \subseteq Device
  /\ log \in [Device -> SUBSET Event]
  /\ news \in 0..MaxNews
  /\ base \in Device \cup {None}
  /\ known \subseteq Device
  /\ lastEvent \in 0..MaxNews
  /\ poll \in [Pollers -> Poll]

\* Each device tells of its own, at the times it happened.
LogsAreTrue == \A d \in Device : \A e \in log[d] : e.by = d /\ e.t <= news

InHand(e) == e \in told \/ \E p \in Pollers : e \in poll[p].got

\* Up to this moment nothing is missing of the only device heard from.
NothingMissing(moment) ==
  \A d \in Device : heardFrom \subseteq {d} =>
    \A e \in log[d] : e.t <= moment => InHand(e)

\* A poll with nothing yet, one that asked, and one that was answered.
NothingYet == \A p \in Pollers : poll[p].pc \notin {"reply", "lab"} => poll[p].got = {}

AskedFromThere ==
  \A p \in Pollers : poll[p].pc \in {"events", "reply"} =>
    poll[p].since <= news /\ NothingMissing(poll[p].since)

AnswerIsWhole ==
  \A p \in Pollers : poll[p].pc = "reply" =>
    /\ poll[p].at \in Device
    /\ \A f \in poll[p].got : f.by = poll[p].at /\ f.t <= news
    /\ \A e \in log[poll[p].at], f \in poll[p].got :
         poll[p].since < e.t /\ e.t <= f.t => e \in poll[p].got

LastIsWhole == lastEvent <= news /\ NothingMissing(lastEvent)

IInv == LogsAreTrue /\ NothingYet /\ AskedFromThere /\ AnswerIsWhole /\ LastIsWhole

-----------------------------------------------------------------------------
\* What a poll is after each of its steps.

LEMMA AskingIs ==
  ASSUME NEW r \in Poll, NEW u \in Device
  PROVE  /\ Asking(r, u) \in Poll
         /\ Asking(r, u).pc = "view"
         /\ Asking(r, u).at = u
         /\ Asking(r, u).got = r.got
BY DEF Asking, Poll, Stages

LEMMA NoneLeftIs ==
  ASSUME NEW r \in Poll
  PROVE  /\ NoneLeft(r) \in Poll
         /\ NoneLeft(r).pc = "lab"
         /\ NoneLeft(r).got = r.got
BY DEF NoneLeft, Poll, Stages

LEMMA NoPollIs ==
  ASSUME NEW pc \in Stages
  PROVE  NoPoll(pc) \in Poll /\ NoPoll(pc).pc = pc /\ NoPoll(pc).got = {}
BY ClientAssumption DEF NoPoll, Poll

\* A poll that starts asks a device for its view.
LEMMA StartPollIs ==
  ASSUME TypeInv, NEW p \in Pollers, StartPoll(p)
  PROVE  /\ known' \subseteq Device
         /\ UNCHANGED <<devices, base, lastEvent, screen, stopped, heardFrom>>
         /\ \E r \in Poll : /\ poll' = [poll EXCEPT ![p] = r]
                            /\ r.pc = "view"
                            /\ r.at \in Device
                            /\ r.got = poll[p].got
<1> DEFINE addresses == IF known = {} THEN Seeds ELSE known
           order == addresses \cup ({base} \ {None})
           first == IF base # None THEN {base} ELSE order
           laid == [poll[p] EXCEPT !.left = order, !.spare = Seeds \ order]
<1>1. addresses \subseteq Device /\ order \subseteq Device /\ first \subseteq Device
  BY ClientAssumption DEF TypeInv
<1>2. poll[p] \in Poll
  BY DEF TypeInv
<1>3. laid \in Poll /\ laid.got = poll[p].got
  BY <1>1, <1>2, ClientAssumption DEF Poll
<1>4. PICK u \in first : poll' = [poll EXCEPT ![p] = Asking(laid, u)]
  BY DEF StartPoll
<1>5. u \in Device
  BY <1>1, <1>4
<1> HIDE DEF laid
<1>6. known' \subseteq Device
  BY <1>1 DEF StartPoll
<1>7. UNCHANGED <<devices, base, lastEvent, screen, stopped, heardFrom>>
  BY DEF StartPoll
<1>8. /\ Asking(laid, u) \in Poll
      /\ Asking(laid, u).pc = "view"
      /\ Asking(laid, u).at = u
      /\ Asking(laid, u).got = poll[p].got
  BY <1>3, <1>5, AskingIs
<1> DEFINE r == Asking(laid, u)
<1>9. r \in Poll /\ poll' = [poll EXCEPT ![p] = r] /\ r.pc = "view"
      /\ r.at \in Device /\ r.got = poll[p].got
  BY <1>4, <1>5, <1>8
<1> HIDE DEF r
<1> QED
  BY <1>6, <1>7, <1>9

\* A view that is missing leads to the next address, or to none.
LEMMA ViewMissingIs ==
  ASSUME TypeInv, NEW p \in Pollers, ViewMissing(p)
  PROVE  /\ poll[p].pc = "view"
         /\ UNCHANGED <<devices, pages, screen, stopped, heardFrom>>
         /\ \E r \in Poll : /\ poll' = [poll EXCEPT ![p] = r]
                            /\ r.pc = "lab" \/ (r.pc = "view" /\ r.at \in Device)
                            /\ r.got = poll[p].got
<1> DEFINE next == IF poll[p].left # {} THEN poll[p].left ELSE poll[p].spare
<1>1. poll[p] \in Poll
  BY DEF TypeInv
<1>2. next \subseteq Device
  BY <1>1 DEF Poll
<1>3. poll[p].pc = "view" /\ UNCHANGED <<devices, pages, screen, stopped, heardFrom>>
  BY DEF ViewMissing
<1>4. CASE next = {}
  <2>1. poll' = [poll EXCEPT ![p] = NoneLeft(poll[p])]
    BY <1>4 DEF ViewMissing
  <2> DEFINE r == NoneLeft(poll[p])
  <2>2. r \in Poll /\ r.pc = "lab" /\ r.got = poll[p].got
    BY <1>1, NoneLeftIs
  <2>3. poll' = [poll EXCEPT ![p] = r]
    BY <2>1
  <2> HIDE DEF r
  <2> QED
    BY <1>3, <2>2, <2>3
<1>5. CASE next # {}
  <2>1. PICK u \in next : poll' = [poll EXCEPT ![p] = Asking(poll[p], u)]
    BY <1>5 DEF ViewMissing
  <2> DEFINE r == Asking(poll[p], u)
  <2>2. r \in Poll /\ r.pc = "view" /\ r.at \in Device /\ r.got = poll[p].got
    BY <1>1, <1>2, AskingIs
  <2>3. poll' = [poll EXCEPT ![p] = r]
    BY <2>1
  <2> HIDE DEF r
  <2> QED
    BY <1>3, <2>2, <2>3
<1> QED
  BY <1>4, <1>5

LEMMA PublishIs ==
  ASSUME TypeInv, NEW p \in Pollers, Publish(p)
  PROVE  /\ poll[p].pc = "lab"
         /\ told' = told \cup poll[p].got
         /\ UNCHANGED <<devices, pages, stopped, heardFrom>>
         /\ \E r \in Poll : /\ poll' = [poll EXCEPT ![p] = r]
                            /\ r.pc = AfterPoll(p)
                            /\ r.pc \in {"idle", "asleep", "over"}
                            /\ r.got = {}
<1>1. AfterPoll(p) \in {"idle", "asleep", "over"}
  BY DEF AfterPoll
<1>2. poll' = [poll EXCEPT ![p] = NoPoll(AfterPoll(p))]
  BY DEF Publish
<1> QED
  BY <1>1, <1>2, NoPollIs DEF Publish, Stages

LEMMA ViewArrivesIs ==
  ASSUME TypeInv, NEW p \in Pollers, ViewArrives(p)
  PROVE  \E r \in Poll : /\ poll' = [poll EXCEPT ![p] = r]
                            /\ r.pc = "events"
                            /\ r.at = poll[p].at
                            /\ r.since = lastEvent
                            /\ r.got = poll[p].got
<1>1. poll[p] \in Poll
  BY DEF TypeInv
<1> DEFINE r == [poll[p] EXCEPT !.pc = "events", !.since = lastEvent, !.left = {}, !.spare = {}]
<1>4. /\ r \in Poll
      /\ r.pc = "events"
      /\ r.at = poll[p].at
      /\ r.since = lastEvent
      /\ r.got = poll[p].got
  BY <1>1 DEF Poll, Stages, TypeInv
<1>5. poll' = [poll EXCEPT ![p] = r]
  BY DEF ViewArrives
<1> HIDE DEF r
<1> QED
  BY <1>4, <1>5

LEMMA EventsAnsweredIs ==
  ASSUME TypeInv, NEW p \in Pollers, EventsAnswered(p)
  PROVE  \E r \in Poll : /\ poll' = [poll EXCEPT ![p] = r]
                            /\ r.pc = "reply"
                            /\ r.at = poll[p].at
                            /\ r.since = poll[p].since
                            /\ r.got = RecentEvents(poll[p].at, poll[p].since)
<1>1. poll[p] \in Poll
  BY DEF TypeInv
<1>2. poll[p].at \in Device
  BY DEF EventsAnswered, TypeInv
<1>3. RecentEvents(poll[p].at, poll[p].since) \subseteq Event
  BY <1>2 DEF RecentEvents, TypeInv
<1> DEFINE r == [poll[p] EXCEPT !.pc = "reply", !.got = RecentEvents(poll[p].at, poll[p].since)]
<1>4. /\ r \in Poll
      /\ r.pc = "reply"
      /\ r.at = poll[p].at
      /\ r.since = poll[p].since
      /\ r.got = RecentEvents(poll[p].at, poll[p].since)
  BY <1>1, <1>3 DEF Poll, Stages, TypeInv
<1>5. poll' = [poll EXCEPT ![p] = r]
  BY DEF EventsAnswered
<1> HIDE DEF r
<1> QED
  BY <1>4, <1>5

LEMMA EventsArriveIs ==
  ASSUME TypeInv, NEW p \in Pollers, EventsArrive(p)
  PROVE  \E r \in Poll : /\ poll' = [poll EXCEPT ![p] = r]
                            /\ r.pc = "lab"
                            /\ r.at = poll[p].at
                            /\ r.got = poll[p].got
<1>1. poll[p] \in Poll
  BY DEF TypeInv
<1>2. 0 \in 0..MaxNews
  BY ClientAssumption
<1> DEFINE r == [poll[p] EXCEPT !.pc = "lab", !.since = 0]
<1>4. /\ r \in Poll
      /\ r.pc = "lab"
      /\ r.at = poll[p].at
      /\ r.got = poll[p].got
  BY <1>1, <1>2 DEF Poll, Stages
<1>5. poll' = [poll EXCEPT ![p] = r]
  BY DEF EventsArrive
<1> HIDE DEF r
<1> QED
  BY <1>4, <1>5

LEMMA EventsMissingIs ==
  ASSUME TypeInv, NEW p \in Pollers, EventsMissing(p)
  PROVE  \E r \in Poll : /\ poll' = [poll EXCEPT ![p] = r]
                            /\ r.pc = "lab"
                            /\ r.at = poll[p].at
                            /\ r.got = poll[p].got
<1>1. poll[p] \in Poll
  BY DEF TypeInv
<1>2. 0 \in 0..MaxNews
  BY ClientAssumption
<1> DEFINE r == [poll[p] EXCEPT !.pc = "lab", !.since = 0]
<1>4. /\ r \in Poll
      /\ r.pc = "lab"
      /\ r.at = poll[p].at
      /\ r.got = poll[p].got
  BY <1>1, <1>2 DEF Poll, Stages
<1>5. poll' = [poll EXCEPT ![p] = r]
  BY DEF EventsMissing
<1> HIDE DEF r
<1> QED
  BY <1>4, <1>5

-----------------------------------------------------------------------------
LEMMA TypesInitially == Init => TypeInv
<1> SUFFICES ASSUME Init PROVE TypeInv
  OBVIOUS
<1>1. PICK u \in Seeds :
        poll = [p \in Pollers |->
                  IF p = "loop" THEN [NoPoll("view") EXCEPT !.at = u, !.left = Seeds \ {u}]
                  ELSE NoPoll("idle")]
  BY DEF Init
<1>2. NoPoll("view") \in Poll /\ NoPoll("idle") \in Poll
  BY NoPollIs DEF Stages
<1>3. [NoPoll("view") EXCEPT !.at = u, !.left = Seeds \ {u}] \in Poll
  BY <1>2, ClientAssumption DEF Poll
<1>4. poll \in [Pollers -> Poll]
  BY <1>1, <1>2, <1>3
<1> QED
  BY <1>4, ClientAssumption DEF Init, TypeInv

LEMMA TypesPreserved == TypeInv /\ [Next]_vars => TypeInv'
<1> SUFFICES ASSUME TypeInv, [Next]_vars PROVE TypeInv'
  OBVIOUS
<1> USE ClientAssumption DEF TypeInv, devices, pages, screen
<1>1. ASSUME NEW d \in Device, Note(d) PROVE TypeInv'
  <2>1. [by |-> d, t |-> news + 1] \in Event
    BY <1>1 DEF Note, Event
  <2>2. log' \in [Device -> SUBSET Event]
    BY <1>1, <2>1 DEF Note
  <2> QED
    BY <1>1, <2>2 DEF Note
<1>2. ASSUME NEW d \in Device, FallSilent(d) \/ AnswerAgain(d) PROVE TypeInv'
  BY <1>2 DEF FallSilent, AnswerAgain
<1>3. ASSUME NEW p \in Pollers, ViewArrives(p) PROVE TypeInv'
  <2>1. poll' \in [Pollers -> Poll]
    BY <1>3, ViewArrivesIs
  <2> QED
    BY <1>3, <2>1 DEF ViewArrives
<1>4. ASSUME NEW p \in Pollers, ViewMissing(p) PROVE TypeInv'
  BY <1>4, ViewMissingIs
<1>5. ASSUME NEW p \in Pollers, EventsAnswered(p) PROVE TypeInv'
  BY <1>5, EventsAnsweredIs DEF EventsAnswered
<1>6. ASSUME NEW p \in Pollers, EventsArrive(p) PROVE TypeInv'
  <2>1. poll' \in [Pollers -> Poll]
    BY <1>6, EventsArriveIs
  <2>2. lastEvent' \in 0..MaxNews
    BY <1>6 DEF EventsArrive, Poll, Event
  <2> QED
    BY <1>6, <2>1, <2>2 DEF EventsArrive
<1>7. ASSUME NEW p \in Pollers, EventsMissing(p) PROVE TypeInv'
  BY <1>7, EventsMissingIs DEF EventsMissing
<1>8. ASSUME NEW p \in Pollers, Publish(p) PROVE TypeInv'
  BY <1>8, PublishIs
<1>9. CASE TimerFires \/ Refresh
  BY <1>9, StartPollIs DEF TimerFires, Refresh, Pollers
<1>10. CASE LeavePage
  <2>1. NoPoll("over") \in Poll
    BY NoPollIs DEF Stages
  <2> QED
    BY <1>10, <2>1 DEF LeavePage
<1>11. CASE UNCHANGED vars
  BY <1>11 DEF vars
<1> QED
  BY <1>1, <1>2, <1>3, <1>4, <1>5, <1>6, <1>7, <1>8, <1>9, <1>10, <1>11 DEF Next, PollStep

-----------------------------------------------------------------------------
\* The polling loop of a page that was left never polls again (the cleanup of
\* the effect in usePool, and the check after a poll that was under way).
THEOREM LeftIsLeft == Spec => StoppedLoopStops
<1> DEFINE Stops == stopped /\ poll["loop"].pc \in {"asleep", "over"}
                      => poll'["loop"].pc \in {"asleep", "over"}
           Stopped == stopped => poll["loop"].pc # "asleep"
<1>1. Init => Stopped
  BY DEF Init
<1>2. TypeInv /\ Stopped /\ [Next]_vars => Stopped' /\ [Stops]_vars
  <2> SUFFICES ASSUME TypeInv, Stopped, [Next]_vars PROVE Stopped' /\ Stops
    OBVIOUS
  <2> USE DEF TypeInv, Pollers
  <2>1. ASSUME UNCHANGED poll, UNCHANGED stopped PROVE Stopped' /\ Stops
    BY <2>1
  <2>2. ASSUME NEW d \in Device, Note(d) \/ FallSilent(d) \/ AnswerAgain(d)
        PROVE  Stopped' /\ Stops
    BY <2>1, <2>2 DEF Note, FallSilent, AnswerAgain
  <2>3. ASSUME NEW p \in Pollers, ViewArrives(p) \/ ViewMissing(p) \/ EventsAnswered(p)
        PROVE  Stopped' /\ Stops
    <3>1. UNCHANGED stopped /\ poll[p].pc \in {"view", "events"}
      BY <2>3 DEF ViewArrives, ViewMissing, EventsAnswered
    <3>2. PICK r \in Poll : poll' = [poll EXCEPT ![p] = r]
                            /\ r.pc \in {"view", "events", "reply", "lab"}
      BY <2>3, ViewArrivesIs, ViewMissingIs, EventsAnsweredIs
    <3> QED
      BY <3>1, <3>2
  <2>4. ASSUME NEW p \in Pollers, EventsArrive(p) \/ EventsMissing(p)
        PROVE  Stopped' /\ Stops
    <3>1. UNCHANGED stopped /\ poll[p].pc \in {"events", "reply"}
      BY <2>4 DEF EventsArrive, EventsMissing
    <3>2. PICK r \in Poll : poll' = [poll EXCEPT ![p] = r] /\ r.pc = "lab"
      BY <2>4, EventsArriveIs, EventsMissingIs
    <3> QED
      BY <3>1, <3>2
  <2>5. ASSUME NEW p \in Pollers, Publish(p) PROVE Stopped' /\ Stops
    BY <2>5, PublishIs DEF AfterPoll
  <2>6. CASE TimerFires
    BY <2>6, StartPollIs DEF TimerFires
  <2>7. CASE Refresh
    BY <2>7, StartPollIs DEF Refresh
  <2>8. CASE LeavePage
    BY <2>8, NoPollIs DEF LeavePage, Stages
  <2> QED
    BY <2>1, <2>2, <2>3, <2>4, <2>5, <2>6, <2>7, <2>8 DEF Next, PollStep, vars
<1> QED
  BY <1>1, <1>2, TypesInitially, TypesPreserved, PTL DEF Spec, StoppedLoopStops

-----------------------------------------------------------------------------
\* A moment up to which nothing is missing stays one, as long as what is in
\* hand stays in hand and what is noted is noted later.
Onward ==
  /\ \A e : InHand(e) => InHand(e)'
  /\ heardFrom \subseteq heardFrom'
  /\ \A d \in Device : \A e \in log'[d] : e \in log[d] \/ e.t > news
  /\ news <= news'

LEMMA MomentsStay ==
  ASSUME TypeInv, TypeInv', Onward, NEW m \in Nat, m <= news, NothingMissing(m)
  PROVE  NothingMissing(m)'
<1> SUFFICES ASSUME NEW d \in Device, heardFrom' \subseteq {d},
                    NEW e \in log'[d], e.t <= m
             PROVE  InHand(e)'
  BY DEF NothingMissing
<1>1. e.t \in Nat /\ news \in Nat
  BY DEF TypeInv, Event
<1>2. e \in log[d]
  BY <1>1 DEF Onward
<1>3. InHand(e)
  BY <1>2 DEF NothingMissing, Onward
<1> QED
  BY <1>3 DEF Onward

\* A step of poll p that leaves the devices alone and keeps what p has in hand.
LEMMA QuietStep ==
  ASSUME TypeInv, TypeInv', IInv, NEW p \in Pollers, NEW r \in Poll,
         poll' = [poll EXCEPT ![p] = r],
         poll[p].got \subseteq r.got \cup told', told \subseteq told',
         UNCHANGED <<log, news, lastEvent, heardFrom>>,
         r.pc \notin {"reply", "lab"} => r.got = {},
         r.pc = "events" => r.since = lastEvent,
         r.pc = "reply" =>
           /\ poll[p].pc = "events" /\ r.since = poll[p].since
           /\ r.at \in Device
           /\ r.got = RecentEvents(r.at, r.since)
  PROVE  IInv'
<1>1. poll'[p] = r /\ \A q \in Pollers : q # p => poll'[q] = poll[q]
  BY DEF TypeInv
<1>2. Onward
  BY <1>1 DEF Onward, InHand, TypeInv
<1>3. \A q \in Pollers : poll[q].since \in Nat
  BY DEF TypeInv, Poll
<1>4. lastEvent \in Nat
  BY DEF TypeInv
<1>5. LogsAreTrue' /\ NothingYet'
  BY <1>1 DEF IInv, LogsAreTrue, NothingYet
<1>6. LastIsWhole'
  BY <1>2, <1>4, MomentsStay DEF IInv, LastIsWhole
<1>7. AskedFromThere'
  <2> SUFFICES ASSUME NEW q \in Pollers, poll'[q].pc \in {"events", "reply"}
               PROVE  poll'[q].since <= news' /\ NothingMissing(poll[q].since)'
    BY DEF AskedFromThere
  <2>1. CASE q # p
    <3>1. poll[q].since <= news /\ NothingMissing(poll[q].since)
      BY <1>1, <2>1 DEF IInv, AskedFromThere
    <3>2. \A m \in Nat : m = poll[q].since => NothingMissing(m)'
      BY <3>1, <1>2, MomentsStay
    <3> QED
      BY <1>1, <1>3, <2>1, <3>1, <3>2 DEF NothingMissing
  <2>2. CASE q = p /\ r.pc = "events"
    BY <1>1, <1>6, <2>2 DEF LastIsWhole, NothingMissing
  <2>3. CASE q = p /\ r.pc = "reply"
    <3>1. poll[p].since <= news /\ NothingMissing(poll[p].since)
      BY <2>3 DEF IInv, AskedFromThere
    <3>2. \A m \in Nat : m = poll[p].since => NothingMissing(m)'
      BY <3>1, <1>2, MomentsStay
    <3> QED
      BY <1>1, <1>3, <2>3, <3>1, <3>2 DEF NothingMissing
  <2> QED
    BY <1>1, <2>1, <2>2, <2>3
<1>8. AnswerIsWhole'
  <2> SUFFICES ASSUME NEW q \in Pollers, poll'[q].pc = "reply"
               PROVE  /\ poll'[q].at \in Device
                      /\ \A f \in poll'[q].got : f.by = poll'[q].at /\ f.t <= news'
                      /\ \A e \in log'[poll'[q].at], f \in poll'[q].got :
                           poll'[q].since < e.t /\ e.t <= f.t => e \in poll'[q].got
    BY DEF AnswerIsWhole
  <2>1. CASE q # p
    BY <1>1, <2>1 DEF IInv, AnswerIsWhole
  <2>2. CASE q = p
    BY <1>1, <2>2 DEF IInv, LogsAreTrue, RecentEvents
  <2> QED
    BY <2>1, <2>2
<1> QED
  BY <1>5, <1>6, <1>7, <1>8 DEF IInv

\* The devices go on: what they note is later than all that was asked for.
LEMMA DeviceStep ==
  ASSUME TypeInv, TypeInv', IInv, NEW d \in Device,
         Note(d) \/ FallSilent(d) \/ AnswerAgain(d)
  PROVE  IInv'
<1>1. UNCHANGED <<poll, lastEvent, heardFrom, told>>
  BY DEF Note, FallSilent, AnswerAgain, pages, screen
<1>2. /\ news <= news'
      /\ \A c \in Device : \A e \in log'[c] :
           \/ e \in log[c]
           \/ e.by = c /\ e.t > news /\ e.t <= news'
  <2>1. CASE Note(d)
    BY <2>1 DEF Note, TypeInv
  <2>2. CASE FallSilent(d) \/ AnswerAgain(d)
    BY <2>2 DEF FallSilent, AnswerAgain, TypeInv
  <2> QED
    BY <2>1, <2>2
<1>3. Onward
  BY <1>1, <1>2 DEF Onward, InHand
<1>4. \A q \in Pollers : poll[q].since \in Nat
  BY DEF TypeInv, Poll
<1>5. lastEvent \in Nat /\ news \in Nat /\ news' \in Nat
  BY DEF TypeInv
<1>6. \A c \in Device : \A e \in log'[c] \cup log[c] : e.t \in Nat
  BY DEF TypeInv, Event
<1>7. LogsAreTrue'
  BY <1>2, <1>5, <1>6 DEF IInv, LogsAreTrue
<1>8. NothingYet'
  BY <1>1 DEF IInv, NothingYet
<1>9. LastIsWhole'
  BY <1>1, <1>2, <1>3, <1>5, MomentsStay DEF IInv, LastIsWhole
<1>10. AskedFromThere'
  <2> SUFFICES ASSUME NEW q \in Pollers, poll[q].pc \in {"events", "reply"}
               PROVE  poll[q].since <= news' /\ NothingMissing(poll[q].since)'
    BY <1>1 DEF AskedFromThere
  <2>1. poll[q].since <= news /\ NothingMissing(poll[q].since)
    BY DEF IInv, AskedFromThere
  <2>2. \A m \in Nat : m = poll[q].since => NothingMissing(m)'
    BY <2>1, <1>3, MomentsStay
  <2> QED
    BY <1>1, <1>2, <1>4, <1>5, <2>1, <2>2 DEF NothingMissing
<1>11. AnswerIsWhole'
  <2> SUFFICES ASSUME NEW q \in Pollers, poll[q].pc = "reply"
               PROVE  /\ poll[q].at \in Device
                      /\ \A f \in poll[q].got : f.by = poll[q].at /\ f.t <= news'
                      /\ \A e \in log'[poll[q].at], f \in poll[q].got :
                           poll[q].since < e.t /\ e.t <= f.t => e \in poll[q].got
    BY <1>1 DEF AnswerIsWhole
  <2>1. \A f \in poll[q].got : f.t \in Nat
    BY DEF TypeInv, Poll, Event
  <2> QED
    BY <1>2, <1>5, <1>6, <2>1 DEF IInv, AnswerIsWhole
<1> QED
  BY <1>7, <1>8, <1>9, <1>10, <1>11 DEF IInv

\* An answer arrives: it has all there was up to its last event, and lastEvent
\* is the moment of that.
LEMMA AnswerStep ==
  ASSUME TypeInv, TypeInv', IInv, NEW p \in Pollers, EventsArrive(p)
  PROVE  IInv'
<1>1. PICK r \in Poll : poll' = [poll EXCEPT ![p] = r] /\ r.pc = "lab" /\ r.got = poll[p].got
  BY EventsArriveIs
<1>2. poll'[p] = r /\ \A q \in Pollers : q # p => poll'[q] = poll[q]
  BY <1>1 DEF TypeInv
<1>3. /\ UNCHANGED <<log, news, told>>
      /\ heardFrom' = heardFrom \cup {e.by : e \in poll[p].got}
      /\ poll[p].pc = "reply"
  BY DEF EventsArrive, devices, screen
<1>4. Onward
  BY <1>1, <1>2, <1>3 DEF Onward, InHand, TypeInv
<1>5. \A q \in Pollers : poll[q].since \in Nat
  BY DEF TypeInv, Poll
<1>6. lastEvent \in Nat /\ news \in Nat
  BY DEF TypeInv
<1>7. LogsAreTrue' /\ NothingYet'
  BY <1>1, <1>2, <1>3 DEF IInv, LogsAreTrue, NothingYet
<1>8. LastIsWhole'
  <2>1. CASE poll[p].got = {}
    <3>1. lastEvent' = lastEvent
      BY <2>1 DEF EventsArrive
    <3> QED
      BY <1>3, <1>4, <1>6, <3>1, MomentsStay DEF IInv, LastIsWhole
  <2>2. CASE poll[p].got # {}
    <3>1. PICK last \in poll[p].got : lastEvent' = last.t
      BY <2>2 DEF EventsArrive
    <3>2. /\ last.by = poll[p].at
          /\ last.t <= news
          /\ poll[p].at \in heardFrom'
      BY <1>3, <3>1 DEF IInv, AnswerIsWhole
    <3>3. poll[p].since <= news /\ NothingMissing(poll[p].since)
      BY <1>3 DEF IInv, AskedFromThere
    <3>4. \A m \in Nat : m = poll[p].since => NothingMissing(m)'
      BY <1>4, <3>3, MomentsStay
    <3>5. ASSUME NEW d \in Device, heardFrom' \subseteq {d},
                 NEW e \in log'[d], e.t <= last.t
          PROVE  InHand(e)'
      <4>1. d = poll[p].at /\ e \in log[poll[p].at]
        BY <1>3, <3>2, <3>5
      <4>2. e.t \in Nat /\ poll[p].since \in Nat
        BY <1>3, <3>5 DEF TypeInv, Poll, Event
      <4>3. CASE e.t <= poll[p].since
        BY <1>5, <3>4, <3>5, <4>3 DEF NothingMissing
      <4>4. CASE poll[p].since < e.t
        <5>1. e \in poll[p].got
          BY <1>3, <3>1, <3>5, <4>1, <4>4 DEF IInv, AnswerIsWhole
        <5> QED
          BY <1>1, <1>2, <5>1 DEF InHand
      <4> QED
        BY <4>2, <4>3, <4>4
    <3> QED
      BY <1>3, <3>1, <3>2, <3>5 DEF LastIsWhole, NothingMissing
  <2> QED
    BY <2>1, <2>2
<1>9. AskedFromThere'
  <2> SUFFICES ASSUME NEW q \in Pollers, poll'[q].pc \in {"events", "reply"}
               PROVE  poll'[q].since <= news' /\ NothingMissing(poll[q].since)'
    BY DEF AskedFromThere
  <2>1. q # p
    BY <1>1, <1>2
  <2>2. poll[q].since <= news /\ NothingMissing(poll[q].since)
    BY <1>2, <2>1 DEF IInv, AskedFromThere
  <2>3. \A m \in Nat : m = poll[q].since => NothingMissing(m)'
    BY <1>4, <2>2, MomentsStay
  <2> QED
    BY <1>2, <1>3, <1>5, <2>1, <2>2, <2>3 DEF NothingMissing
<1>10. AnswerIsWhole'
  BY <1>1, <1>2, <1>3 DEF IInv, AnswerIsWhole
<1> QED
  BY <1>7, <1>8, <1>9, <1>10 DEF IInv

LEMMA Inductive == TypeInv /\ TypeInv' /\ IInv /\ [Next]_vars => IInv'
<1> SUFFICES ASSUME TypeInv, TypeInv', IInv, [Next]_vars PROVE IInv'
  OBVIOUS
<1> USE DEF devices, pages, screen
<1>1. ASSUME NEW d \in Device, Note(d) \/ FallSilent(d) \/ AnswerAgain(d) PROVE IInv'
  BY <1>1, DeviceStep
<1>2. ASSUME NEW p \in Pollers, ViewArrives(p) PROVE IInv'
  <2>1. PICK r \in Poll : /\ poll' = [poll EXCEPT ![p] = r]
                          /\ r.pc = "events" /\ r.since = lastEvent
                          /\ r.got = poll[p].got
    BY <1>2, ViewArrivesIs
  <2>2. poll[p].got = {} /\ UNCHANGED <<log, news, lastEvent, heardFrom, told>>
    BY <1>2 DEF ViewArrives, IInv, NothingYet
  <2> QED
    BY <2>1, <2>2, QuietStep
<1>3. ASSUME NEW p \in Pollers, ViewMissing(p) PROVE IInv'
  <2>1. PICK r \in Poll : /\ poll' = [poll EXCEPT ![p] = r]
                          /\ r.pc \in {"lab", "view"}
                          /\ r.got = poll[p].got
    BY <1>3, ViewMissingIs
  <2>2. poll[p].got = {} /\ UNCHANGED <<log, news, lastEvent, heardFrom, told>>
    BY <1>3 DEF ViewMissing, IInv, NothingYet
  <2> QED
    BY <2>1, <2>2, QuietStep
<1>4. ASSUME NEW p \in Pollers, EventsAnswered(p) PROVE IInv'
  <2>1. PICK r \in Poll : /\ poll' = [poll EXCEPT ![p] = r]
                          /\ r.pc = "reply" /\ r.at = poll[p].at
                          /\ r.since = poll[p].since
                          /\ r.got = RecentEvents(poll[p].at, poll[p].since)
    BY <1>4, EventsAnsweredIs
  <2>2. /\ poll[p].pc = "events" /\ poll[p].got = {} /\ poll[p].at \in Device
        /\ UNCHANGED <<log, news, lastEvent, heardFrom, told>>
    BY <1>4 DEF EventsAnswered, IInv, NothingYet, TypeInv
  <2> QED
    BY <2>1, <2>2, QuietStep
<1>5. ASSUME NEW p \in Pollers, EventsArrive(p) PROVE IInv'
  BY <1>5, AnswerStep
<1>6. ASSUME NEW p \in Pollers, EventsMissing(p) PROVE IInv'
  <2>1. PICK r \in Poll : /\ poll' = [poll EXCEPT ![p] = r]
                          /\ r.pc = "lab"
                          /\ r.got = poll[p].got
    BY <1>6, EventsMissingIs
  <2>2. UNCHANGED <<log, news, lastEvent, heardFrom, told>>
    BY <1>6 DEF EventsMissing
  <2> QED
    BY <2>1, <2>2, QuietStep
<1>7. ASSUME NEW p \in Pollers, Publish(p) PROVE IInv'
  <2>1. PICK r \in Poll : /\ poll' = [poll EXCEPT ![p] = r]
                          /\ r.pc \in {"idle", "asleep", "over"}
                          /\ r.got = {}
    BY <1>7, PublishIs
  <2>2. told' = told \cup poll[p].got /\ UNCHANGED <<log, news, lastEvent, heardFrom>>
    BY <1>7, PublishIs
  <2> QED
    BY <2>1, <2>2, QuietStep
<1>8. ASSUME NEW p \in Pollers, poll[p].pc \in {"asleep", "idle"}, StartPoll(p) PROVE IInv'
  <2>1. PICK r \in Poll : /\ poll' = [poll EXCEPT ![p] = r]
                          /\ r.pc = "view"
                          /\ r.got = poll[p].got
    BY <1>8, StartPollIs
  <2>2. poll[p].got = {} /\ UNCHANGED <<log, news, lastEvent, heardFrom, told>>
    BY <1>8, StartPollIs DEF IInv, NothingYet
  <2> QED
    BY <2>1, <2>2, QuietStep
<1>9. ASSUME UNCHANGED <<poll, log, news, lastEvent, heardFrom, told>> PROVE IInv'
  BY <1>9 DEF IInv, LogsAreTrue, NothingYet, AskedFromThere, AnswerIsWhole, LastIsWhole,
              NothingMissing, InHand
<1>10. CASE LeavePage
  <2>1. UNCHANGED <<log, news, lastEvent, heardFrom, told>>
    BY <1>10 DEF LeavePage
  <2>2. CASE poll["loop"].pc = "asleep"
    <3>1. poll' = [poll EXCEPT !["loop"] = NoPoll("over")]
      BY <1>10, <2>2 DEF LeavePage
    <3>2. NoPoll("over") \in Poll /\ NoPoll("over").pc = "over" /\ NoPoll("over").got = {}
      BY NoPollIs DEF Stages
    <3>3. "loop" \in Pollers /\ poll["loop"].got = {}
      BY <2>2 DEF IInv, NothingYet, Pollers
    <3> QED
      BY <2>1, <3>1, <3>2, <3>3, QuietStep
  <2>3. CASE poll["loop"].pc # "asleep"
    BY <1>9, <1>10, <2>1, <2>3 DEF LeavePage
  <2> QED
    BY <2>2, <2>3
<1> QED
  BY <1>1, <1>2, <1>3, <1>4, <1>5, <1>6, <1>7, <1>8, <1>9, <1>10
     DEF Next, PollStep, TimerFires, Refresh, Pollers, vars

LEMMA Initially == Init => IInv
<1> SUFFICES ASSUME Init PROVE IInv
  OBVIOUS
<1>1. \A d \in Device : log[d] = {}
  BY DEF Init
<1>2. \A p \in Pollers : poll[p].got = {} /\ poll[p].pc \in {"view", "idle"}
  BY DEF Init, NoPoll
<1>3. lastEvent = 0 /\ news = 0
  BY DEF Init
<1> QED
  BY <1>1, <1>2, <1>3 DEF IInv, LogsAreTrue, NothingYet, AskedFromThere, AnswerIsWhole,
                          LastIsWhole, NothingMissing

\* However the polls of the loop and of the clicks interleave, and whatever the
\* devices do meanwhile, moving lastEvent loses no event of the only device
\* that was heard: each is in the feed's history or in the hands of a poll.
THEOREM NothingIsSkipped == Spec => []NothingSkipped
<1>1. LastIsWhole => NothingSkipped
  BY DEF LastIsWhole, NothingMissing, InHand, NothingSkipped
<1>2. IInv => LastIsWhole
  BY DEF IInv
<1> QED
  BY <1>1, <1>2, Initially, Inductive, TypesInitially, TypesPreserved, PTL DEF Spec

-----------------------------------------------------------------------------
(* The feed. *)

\* The least of some numbers.
LEMMA Least ==
  ASSUME NEW N \in SUBSET Nat, N # {}
  PROVE  \E n \in N : \A k \in N : n <= k
<1>1. PICK n \in N : \A k \in N : ~ (<<k, n>> \in OpToRel(<, Nat))
  BY NatLessThanWellFounded, WFMin
<1>2. \A k \in N : ~ (k < n)
  BY <1>1 DEF OpToRel
<1> QED
  BY <1>2

Sorted(order) == \A i, j \in DOMAIN order : i < j => order[i].t <= order[j].t

\* Events can be put in order, as the log of a device has them: the earliest
\* first, and then the rest.
LEMMA CanBeSorted ==
  ASSUME NEW S \in SUBSET Event, IsFiniteSet(S)
  PROVE  \E order \in SetToSeqs(S) : Sorted(order)
<1> DEFINE F == {A \in SUBSET S : ~ \E order \in SetToSeqs(A) : Sorted(order)}
<1> SUFFICES ASSUME F # {} PROVE FALSE
  OBVIOUS
<1>1. PICK A \in F : \A B \in F : ~ (<<B, A>> \in StrictSubsetOrdering(S))
  <2>1. F \subseteq FiniteSubsetsOf(S)
    BY FS_Subset DEF FiniteSubsetsOf
  <2> HIDE DEF F
  <2> QED
    BY <2>1, FS_StrictSubsetOrderingWellFounded, WFMin
<1>2. A \subseteq Event /\ IsFiniteSet(A)
  BY FS_Subset
<1>3. A # {}
  <2>1. << >> \in SetToSeqs({})
    BY FS_EmptySet DEF SetToSeqs
  <2>2. Sorted(<< >>)
    BY DEF Sorted
  <2> QED
    BY <2>1, <2>2
<1>4. PICK e \in A : \A f \in A : e.t <= f.t
  <2> DEFINE N == {f.t : f \in A}
  <2>1. N \in SUBSET Nat /\ N # {}
    BY <1>2, <1>3 DEF Event
  <2>2. \E n \in N : \A k \in N : n <= k
    <3> HIDE DEF N
    <3> QED
      BY <2>1, Least
  <2> QED
    BY <2>2
<1> DEFINE B == A \ {e}
           n == Cardinality(B)
<1>5. IsFiniteSet(B) /\ n \in Nat /\ Cardinality(A) = n + 1
  <2>1. IsFiniteSet(B) /\ Cardinality(B) = Cardinality(A) - 1
    BY <1>2, <1>4, FS_RemoveElement
  <2>2. Cardinality(A) \in Nat /\ Cardinality(B) \in Nat
    BY <1>2, <2>1, FS_CardinalityType
  <2> QED
    BY <2>1, <2>2
<1>6. PICK order \in SetToSeqs(B) : Sorted(order)
  <2>1. <<B, A>> \in StrictSubsetOrdering(S)
    BY DEF StrictSubsetOrdering
  <2>2. B \notin F
    BY <1>1, <2>1
  <2> QED
    BY <2>2
<1>7. /\ order \in [1..n -> B]
      /\ \A i, j \in 1..n : i # j => order[i] # order[j]
      /\ \A i, j \in 1..n : i < j => order[i].t <= order[j].t
  BY <1>6 DEF SetToSeqs, Sorted
<1> DEFINE whole == [i \in 1..n + 1 |-> IF i = 1 THEN e ELSE order[i - 1]]
<1> HIDE DEF n
<1>8. \A i \in 1..n + 1 : i # 1 => i - 1 \in 1..n
  BY <1>5
<1>9. whole \in [1..n + 1 -> A]
  BY <1>7, <1>8
<1>10. \A i, j \in 1..n + 1 : i # j => whole[i] # whole[j]
  <2> SUFFICES ASSUME NEW i \in 1..n + 1, NEW j \in 1..n + 1, i # j PROVE whole[i] # whole[j]
    OBVIOUS
  <2>1. CASE i = 1
    BY <1>7, <1>8, <2>1
  <2>2. CASE j = 1
    BY <1>7, <1>8, <2>2
  <2>3. CASE i # 1 /\ j # 1
    <3>1. i - 1 # j - 1
      BY <1>5
    <3> QED
      BY <1>7, <1>8, <2>3, <3>1
  <2> QED
    BY <2>1, <2>2, <2>3
<1>11. \A i, j \in 1..n + 1 : i < j => whole[i].t <= whole[j].t
  <2> SUFFICES ASSUME NEW i \in 1..n + 1, NEW j \in 1..n + 1, i < j
               PROVE  whole[i].t <= whole[j].t
    OBVIOUS
  <2>1. CASE i = 1
    BY <1>4, <1>9, <2>1
  <2>2. CASE i # 1
    <3>1. j # 1 /\ i - 1 < j - 1
      BY <1>5, <2>2
    <3> QED
      BY <1>7, <1>8, <2>2, <3>1
  <2> QED
    BY <2>1, <2>2
<1>12. whole \in SetToSeqs(A)
  BY <1>5, <1>9, <1>10 DEF SetToSeqs
<1>13. Sorted(whole)
  BY <1>11 DEF Sorted
<1> QED
  BY <1>12, <1>13

NoRepeats(s) == \A i, j \in 1..Len(s) : s[i] = s[j] => i = j

\* Put in order, no event is there twice and none is added.
LEMMA InOrderIs ==
  ASSUME NEW S \in SUBSET Event, IsFiniteSet(S)
  PROVE  InOrder(S) \in Seq(S) /\ NoRepeats(InOrder(S))
<1>1. \E order \in SetToSeqs(S) : Sorted(order)
  BY CanBeSorted
<1>2. InOrder(S) \in SetToSeqs(S)
  BY <1>1 DEF InOrder, Sorted
<1> DEFINE n == Cardinality(S)
           o == InOrder(S)
<1>3. n \in Nat /\ o \in [1..n -> S] /\ \A i, j \in 1..n : i # j => o[i] # o[j]
  BY <1>2, FS_CardinalityType DEF SetToSeqs
<1> HIDE DEF n, o
<1>4. o \in Seq(S) /\ Len(o) = n
  BY <1>3
<1>5. NoRepeats(o)
  BY <1>3, <1>4 DEF NoRepeats
<1> QED
  BY <1>4, <1>5 DEF o

\* What is merged into a feed without repeats leaves it without.
LEMMA MergeIs ==
  ASSUME NEW have \in Seq(Event), NoRepeats(have),
         NEW incoming \in SUBSET Event, IsFiniteSet(incoming)
  PROVE  MergeEvents(have, incoming) \in Seq(Event) /\ NoRepeats(MergeEvents(have, incoming))
<1> DEFINE new == incoming \ Range(have)
           fresh == InOrder(new)
           all == have \o fresh
<1>1. new \subseteq Event /\ IsFiniteSet(new)
  BY FS_Subset
<1>2. fresh \in Seq(new) /\ NoRepeats(fresh)
  BY <1>1, InOrderIs
<1>3. fresh \in Seq(Event)
  BY <1>1, <1>2, SeqMonotonic
<1>4. \A i \in 1..Len(have) : have[i] \in Range(have)
  BY DEF Range
<1>5. \A i \in 1..Len(fresh) : fresh[i] \notin Range(have)
  BY <1>2
<1> HIDE DEF fresh
<1>6. /\ all \in Seq(Event)
      /\ Len(all) = Len(have) + Len(fresh)
      /\ \A i \in 1..Len(have) + Len(fresh) :
           all[i] = IF i <= Len(have) THEN have[i] ELSE fresh[i - Len(have)]
  BY <1>3, ConcatProperties
<1>7. NoRepeats(all)
  <2> SUFFICES ASSUME NEW i \in 1..Len(all), NEW j \in 1..Len(all), all[i] = all[j], i < j
               PROVE  FALSE
    BY <1>6 DEF NoRepeats
  <2> DEFINE h == Len(have)
             g == Len(fresh)
  <2>1. h \in Nat /\ g \in Nat
    BY <1>3
  <2>2. CASE j <= h
    BY <1>6, <2>1, <2>2 DEF NoRepeats
  <2>3. CASE i > h
    <3>1. i - h \in 1..g /\ j - h \in 1..g /\ i - h # j - h
      BY <1>6, <2>1, <2>3
    <3>2. all[i] = fresh[i - h] /\ all[j] = fresh[j - h]
      BY <1>6, <2>1, <2>3
    <3> QED
      BY <1>2, <3>1, <3>2 DEF NoRepeats
  <2>4. CASE i <= h /\ j > h
    <3>1. i \in 1..h /\ j - h \in 1..g
      BY <1>6, <2>1, <2>4
    <3>2. all[i] = have[i] /\ all[j] = fresh[j - h]
      BY <1>6, <2>1, <2>4
    <3> QED
      BY <1>4, <1>5, <3>1, <3>2
  <2> QED
    BY <2>1, <2>2, <2>3, <2>4, <1>6
<1> HIDE DEF all
<1>8. CASE Len(all) <= FeedSize
  <2>1. MergeEvents(have, incoming) = all
    BY <1>8 DEF MergeEvents, all, fresh
  <2> QED
    BY <1>6, <1>7, <2>1
<1>9. CASE ~(Len(all) <= FeedSize)
  <2> DEFINE m == Len(all) - FeedSize + 1
             end == SubSeq(all, m, Len(all))
  <2>1. MergeEvents(have, incoming) = end
    BY <1>9 DEF MergeEvents, all, fresh
  <2>2. m \in Int /\ Len(all) \in Nat /\ m \in 1..Len(all)
    BY <1>6, <1>9, ClientAssumption
  <2>3. \A i \in m..Len(all) : all[i] \in Event
    BY <1>6, <2>2, ElementOfSeq
  <2>4. /\ end \in Seq(Event)
        /\ Len(end) = Len(all) - m + 1
        /\ \A i \in 1..Len(all) - m + 1 : end[i] = all[m + i - 1]
    <3> HIDE DEF m
    <3> QED
      BY <2>2, <2>3, SubSeqProperties
  <2>5. NoRepeats(end)
    <3> SUFFICES ASSUME NEW i \in 1..Len(end), NEW j \in 1..Len(end), end[i] = end[j]
                 PROVE  i = j
      BY DEF NoRepeats
    <3> HIDE DEF m, end
    <3>1. m + i - 1 \in 1..Len(all) /\ m + j - 1 \in 1..Len(all)
      BY <2>2, <2>4
    <3>2. all[m + i - 1] = all[m + j - 1]
      BY <2>2, <2>4
    <3> QED
      BY <1>7, <2>2, <3>1, <3>2 DEF NoRepeats
  <2> QED
    BY <2>1, <2>4, <2>5
<1> QED
  BY <1>8, <1>9

\* The feed, and what a poll may still bring to it.
FeedInv ==
  /\ feed \in Seq(Event)
  /\ NoRepeats(feed)
  /\ \A d \in Device : IsFiniteSet(log[d])
  /\ \A p \in Pollers : IsFiniteSet(poll[p].got)

LEMMA FeedInitially == Init => FeedInv
<1> SUFFICES ASSUME Init PROVE FeedInv
  OBVIOUS
<1>1. feed = << >> /\ \A d \in Device : log[d] = {}
  BY DEF Init
<1>2. \A p \in Pollers : poll[p].got = {}
  BY DEF Init, NoPoll
<1>3. feed \in Seq(Event) /\ NoRepeats(feed)
  <2>1. Len(feed) = 0 /\ feed \in Seq(Event)
    BY <1>1
  <2> QED
    BY <2>1 DEF NoRepeats
<1> QED
  BY <1>1, <1>2, <1>3, FS_EmptySet DEF FeedInv

\* A step that brings no poll any events, and does not publish.
LEMMA FeedQuiet ==
  ASSUME FeedInv, UNCHANGED feed,
         \A d \in Device : log'[d] = log[d],
         \A p \in Pollers : poll'[p].got \in {poll[p].got, {}}
  PROVE  FeedInv'
BY FS_EmptySet DEF FeedInv, NoRepeats

LEMMA FeedStays == TypeInv /\ FeedInv /\ [Next]_vars => FeedInv'
<1> SUFFICES ASSUME TypeInv, FeedInv, [Next]_vars PROVE FeedInv'
  OBVIOUS
<1> USE DEF devices, pages, screen
<1>0. poll \in [Pollers -> Poll] /\ log \in [Device -> SUBSET Event]
  BY DEF TypeInv
<1>1. ASSUME NEW d \in Device, Note(d) \/ FallSilent(d) \/ AnswerAgain(d) PROVE FeedInv'
  <2>1. UNCHANGED <<feed, poll>>
    BY <1>1 DEF Note, FallSilent, AnswerAgain
  <2>2. \A c \in Device :
          log'[c] \in {log[c], {}, log[c] \cup {[by |-> d, t |-> news + 1]}}
    BY <1>0, <1>1 DEF Note, FallSilent, AnswerAgain
  <2>3. ASSUME NEW c \in Device PROVE IsFiniteSet(log'[c])
    <3>1. IsFiniteSet(log[c])
      BY DEF FeedInv
    <3>2. IsFiniteSet(log[c] \cup {[by |-> d, t |-> news + 1]})
      BY <3>1, FS_AddElement
    <3> QED
      BY <2>2, <3>1, <3>2, FS_EmptySet
  <2> QED
    BY <2>1, <2>3 DEF FeedInv, NoRepeats
<1>2. ASSUME NEW p \in Pollers, ViewArrives(p) \/ ViewMissing(p) \/ EventsArrive(p) \/ EventsMissing(p)
      PROVE  FeedInv'
  <2>1. UNCHANGED <<feed, log>>
    BY <1>2 DEF ViewArrives, ViewMissing, EventsArrive, EventsMissing
  <2>2. \A q \in Pollers : poll'[q].got = poll[q].got
    <3>1. \E r : poll' = [poll EXCEPT ![p] = r] /\ r.got = poll[p].got
      <4>1. CASE ViewArrives(p)
        BY <4>1, ViewArrivesIs
      <4>2. CASE ViewMissing(p)
        BY <4>2, ViewMissingIs
      <4>3. CASE EventsArrive(p)
        BY <4>3, EventsArriveIs
      <4>4. CASE EventsMissing(p)
        BY <4>4, EventsMissingIs
      <4> QED
        BY <1>2, <4>1, <4>2, <4>3, <4>4
    <3> QED
      BY <1>0, <3>1
  <2> QED
    BY <2>1, <2>2, FeedQuiet
<1>3. ASSUME NEW p \in Pollers, EventsAnswered(p) PROVE FeedInv'
  <2>1. UNCHANGED <<feed, log>> /\ poll[p].at \in Device
    BY <1>0, <1>3 DEF EventsAnswered, TypeInv
  <2>2. /\ \A q \in Pollers \ {p} : poll'[q] = poll[q]
        /\ poll'[p].got = RecentEvents(poll[p].at, poll[p].since)
    BY <1>0, <1>3 DEF EventsAnswered, Poll
  <2>3. IsFiniteSet(poll'[p].got)
    <3>1. poll'[p].got \subseteq log[poll[p].at]
      BY <2>2 DEF RecentEvents
    <3>2. IsFiniteSet(log[poll[p].at])
      BY <2>1 DEF FeedInv
    <3> QED
      BY <3>1, <3>2, FS_Subset
  <2> QED
    BY <2>1, <2>2, <2>3 DEF FeedInv, NoRepeats
<1>4. ASSUME NEW p \in Pollers, Publish(p) PROVE FeedInv'
  <2>1. UNCHANGED log /\ \A q \in Pollers : poll'[q].got \in {poll[q].got, {}}
    BY <1>0, <1>4, PublishIs
  <2>2. feed' \in Seq(Event) /\ NoRepeats(feed')
    <3>1. CASE poll[p].got = {}
      BY <1>4, <3>1 DEF Publish, FeedInv
    <3>2. CASE poll[p].got # {}
      <4>1. feed' = MergeEvents(feed, poll[p].got)
        BY <1>4, <3>2 DEF Publish
      <4>2. poll[p].got \in SUBSET Event /\ IsFiniteSet(poll[p].got)
        BY <1>0 DEF Poll, FeedInv
      <4>3. feed \in Seq(Event) /\ NoRepeats(feed)
        BY DEF FeedInv
      <4> QED
        BY <4>1, <4>2, <4>3, MergeIs
    <3> QED
      BY <3>1, <3>2
  <2> QED
    BY <2>1, <2>2, FS_EmptySet DEF FeedInv, NoRepeats
<1>5. CASE TimerFires \/ Refresh
  <2>1. \E p \in Pollers : StartPoll(p)
    BY <1>5 DEF TimerFires, Refresh, Pollers
  <2>2. UNCHANGED <<feed, log>> /\ \A q \in Pollers : poll'[q].got = poll[q].got
    BY <1>0, <2>1, StartPollIs
  <2> QED
    BY <2>2, FeedQuiet
<1>6. CASE LeavePage
  <2>1. UNCHANGED <<feed, log>>
    BY <1>6 DEF LeavePage
  <2>2. \A q \in Pollers : poll'[q].got \in {poll[q].got, {}}
    BY <1>0, <1>6 DEF LeavePage, NoPoll
  <2> QED
    BY <2>1, <2>2, FeedQuiet
<1>7. CASE UNCHANGED vars
  BY <1>7, FeedQuiet DEF vars
<1> QED
  BY <1>1, <1>2, <1>3, <1>4, <1>5, <1>6, <1>7 DEF Next, PollStep

\* Two polls may ask from the same moment, and a page may hear the same events
\* from a device again and again: the feed shows none of them twice
\* (mergeEvents).
THEOREM NoneTwice == Spec => []FeedNeverRepeats
<1>1. FeedInv => FeedNeverRepeats
  BY DEF FeedInv, NoRepeats, FeedNeverRepeats
<1> QED
  BY <1>1, FeedInitially, FeedStays, TypesInitially, TypesPreserved, PTL DEF Spec
=============================================================================
