------------------------------ MODULE PoolReplay -----------------------------
(***************************************************************************)
(* How a finished question becomes a replay: the timeline of its steps       *)
(* (lib/poolReplay.ts) and the legs of its route (components/pool/Journey).  *)
(*                                                                         *)
(* A result is what /generate returns: a record of its passes, the events    *)
(* noted between them and the text of each token.  Times are counted in      *)
(* halves of a hop's transport, and how long a step is shown is left out.    *)
(* A pass is counted from 1 here, at_pass from 0 as in the code.             *)
(***************************************************************************)
EXTENDS Naturals, Sequences, SequencesExt, FiniteSets

\* A place on the stage that a payload can travel between.
You == [type |-> "you"]
Answer == [type |-> "answer"]
Copy(member, stage) == [type |-> "copy", member |-> member, stage |-> stage]

Send(from, to, bytes, ms, between, failed) ==
  [kind |-> "send", from |-> from, to |-> to, bytes |-> bytes,
   networkMs |-> ms, betweenDevices |-> between, failed |-> failed]
Compute(at, ms) == [kind |-> "compute", at |-> at, computeMs |-> ms]
Token(text) == [kind |-> "token", text |-> text]
Lost(member, stage) == [kind |-> "lost", member |-> member, stage |-> stage]
Waiting(stage) == [kind |-> "waiting", stage |-> stage]
Recovered(route) == [kind |-> "recovered", route |-> route]

\* The copies a pass went through, stage by stage.
StagesOf(pass) == [k \in 1..Len(pass.route) |-> Copy(pass.route[k], k - 1)]

\* Where a payload that was lost at this stage of pass i had come from.
ComingFrom(result, i, stage) ==
  IF i > 1 /\ stage > 0 /\ stage <= Len(result.passes[i - 1].route)
    THEN StagesOf(result.passes[i - 1])[stage]
    ELSE You

\* What happened while pass i was being attempted.  A failover always names the
\* device it was about (runner.py, generate), which is what the program makes sure of.
AttemptSteps(result, i, event) ==
  IF event.kind = "waiting" THEN <<Waiting(event.stage)>>
  ELSE IF event.kind = "failover"
    THEN <<Send(ComingFrom(result, i, event.stage),
                Copy(event.member, event.stage), 0, 0, FALSE, TRUE),
           Lost(event.member, event.stage)>>
    ELSE <<>>

\* A hop: the payload crosses to the copy, which computes.  Halves are whole
\* numbers here: the times given are even.
HopSteps(pass, k) ==
  LET places == StagesOf(pass)
      hop == pass.hops[k]
  IN <<Send(IF k = 1 THEN You ELSE places[k - 1], places[k], hop.sent_bytes,
            hop.transport_ms \div 2, k > 1, FALSE),
       Compute(places[k], hop.compute_ms)>>

\* What the last copy found comes back, and is one more token of the answer,
\* unless it is the one that ends it.
ReturnSteps(result, i) ==
  LET pass == result.passes[i]
      last == pass.hops[Len(pass.hops)]
  IN <<Send(Last(StagesOf(pass)), Answer, last.received_bytes,
            last.transport_ms \div 2, FALSE, FALSE)>>
     \o (IF i <= Len(result.tokens) THEN <<Token(result.tokens[i])>> ELSE <<>>)

\* Which events were noted when so many passes were through.
EventsAt(result, atPass) ==
  {j \in DOMAIN result.events : result.events[j].at_pass = atPass}

\* What these events come to, in the order they were noted.
StepsOf(these, each) ==
  FlattenSeq([j \in DOMAIN each |-> IF j \in these THEN each[j] ELSE <<>>])

PassSteps(result, i) ==
  LET events == result.events
      pass == result.passes[i]
      recoveries == {j \in EventsAt(result, i) : events[j].kind = "recovered"}
  IN StepsOf(EventsAt(result, i - 1),
             [j \in DOMAIN events |-> AttemptSteps(result, i, events[j])])
     \o FlattenSeq([k \in DOMAIN pass.hops |-> HopSteps(pass, k)])
     \o ReturnSteps(result, i)
     \o StepsOf(recoveries, [j \in DOMAIN events |-> <<Recovered(pass.route)>>])

BuildTimeline(result) ==
  FlattenSeq([i \in DOMAIN result.passes |-> PassSteps(result, i)])

\* What /generate returns: each pass went through a copy of every stage; at most
\* one token each, as the pass that ends the answer has none; and a device that
\* was lost was lost before a pass that recovered from it.
IsResult(result) ==
  /\ result.passes \in Seq(Range(result.passes))
  /\ result.passes # <<>>
  /\ \A i \in DOMAIN result.passes :
       LET pass == result.passes[i]
       IN /\ pass.route \in Seq(Range(pass.route))
          /\ pass.hops \in Seq(Range(pass.hops))
          /\ Len(pass.hops) = Len(pass.route)
          /\ pass.hops # <<>>
          /\ pass.recovery \in BOOLEAN
          /\ \A k \in DOMAIN pass.hops :
               {pass.hops[k].sent_bytes, pass.hops[k].compute_ms} \subseteq Nat
  /\ result.tokens \in Seq(Range(result.tokens))
  /\ Len(result.tokens) <= Len(result.passes)
  /\ result.events \in Seq(Range(result.events))
  /\ \A j \in DOMAIN result.events :
       LET event == result.events[j]
       IN event.kind = "failover" =>
            /\ event.at_pass \in 0..Len(result.passes) - 1
            /\ result.passes[event.at_pass + 1].recovery

-----------------------------------------------------------------------------
\* Mutant: at_pass is taken to count from one.
FailoversFromOne(result, i) ==
  {j \in EventsAt(result, i) : result.events[j].kind = "failover"}

\* The legs of the journey: consecutive passes over one route.  Of the losses
\* before a leg it tells the first.

Failovers(result, i) ==
  {j \in EventsAt(result, i - 1) : result.events[j].kind = "failover"}

NewLeg(result, i) ==
  LET pass == result.passes[i]
      losses == Failovers(result, i)
      first == result.events[CHOOSE j \in losses : \A k \in losses : j <= k]
  IN [route |-> pass.route,
      passes |-> 1,
      resent |-> IF pass.recovery THEN pass.seq_len ELSE 0,
      lostBefore |-> IF losses = {} THEN <<>> ELSE <<first.member, first.stage>>]

\* Pass i goes on with the last leg, or begins one.
AddPass(result, legs, i) ==
  LET pass == result.passes[i]
      goesOn == legs # <<>> /\ Last(legs).route = pass.route /\ ~pass.recovery
  IN IF goesOn THEN [legs EXCEPT ![Len(legs)].passes = @ + 1]
     ELSE Append(legs, NewLeg(result, i))

LegsOf(result) ==
  LET legs[i \in 0..Len(result.passes)] ==
        IF i = 0 THEN <<>> ELSE AddPass(result, legs[i - 1], i)
  IN legs[Len(result.passes)]
=============================================================================
