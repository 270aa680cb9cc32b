----------------------------- MODULE TwoDevices -----------------------------
(***************************************************************************)
(* The two-device demo (src/dashboard/app/two-devices/page.tsx): it asks the *)
(* single-machine API for the chain's topology and for a generation, and     *)
(* replays what comes back.  The API answers or fails; a request has no      *)
(* timeout of its own (lib/api.ts).                                          *)
(***************************************************************************)
EXTENDS ChainReplay, FiniteSetsExt

CONSTANTS
  NumShards,   \* devices of the chain
  Questions,   \* what may be asked
  Answers,     \* the results the API may give, each of a question
  Replays      \* bound: the replays there may be at a time, cancelled ones too

ASSUME TwoDevicesAssumption ==
  /\ NumShards \in Nat \ {0}
  /\ "none" \notin Questions
  /\ \A r \in Answers : IsGeneration(r, NumShards)

VARIABLES
  topology,    \* the topology is known
  chainError,  \* an error is shown
  asksChain,   \* requests for the topology that are under way
  chainPhase,  \* idle, waiting, playing, done
  chainAsked,  \* the question as sent
  chainResult, \* a sequence: the last result, or empty
  chainRun,    \* the number of the run in charge, modulo 4
  pulses,      \* per link, the payloads shown crossing it; what computes;
  busyNode,    \* the tokens and the totals shown so far
  chainTokens,
  chainTotals,
  chainPlay    \* the play()s that have not returned

chainStage == <<pulses, busyNode, chainTokens, chainTotals>>
chainVars == <<topology, chainError, asksChain, chainPhase, chainAsked, chainResult, chainRun,
               chainStage, chainPlay>>

\* What the page takes for the chain's length: two until it knows.
Shards == IF topology THEN NumShards ELSE 2

ChainZero == [bytes |-> 0, networkMs |-> 0, computeMs |-> 0]

NoReplay == [id |-> 4, steps |-> <<>>]
NoBusy == 99

\* resetStage(), with the number of devices its caller knew.
ResetStage(shards) ==
  /\ pulses' = [l \in 0..shards |-> 0]
  /\ busyNode' = NoBusy
  /\ chainTokens' = <<>>
  /\ chainTotals' = ChainZero

ChainInit ==
  /\ topology = FALSE
  /\ chainError = FALSE
  /\ asksChain = 1              \* the effect asks when the page is mounted
  /\ chainPhase = "idle"
  /\ chainAsked = "none"
  /\ chainResult = <<>>
  /\ chainRun = 0
  /\ pulses = <<>>
  /\ busyNode = NoBusy
  /\ chainTokens = <<>>
  /\ chainTotals = ChainZero
  /\ chainPlay = [i \in Replays |-> NoReplay]

\* The page is mounted again.
ChainMounts ==
  /\ topology' = FALSE
  /\ chainError' = FALSE
  /\ asksChain' = 1
  /\ chainPhase' = "idle"
  /\ chainAsked' = "none"
  /\ chainResult' = <<>>
  /\ chainRun' = 0
  /\ pulses' = <<>>
  /\ busyNode' = NoBusy
  /\ chainTokens' = <<>>
  /\ chainTotals' = ChainZero
  /\ chainPlay' = [i \in Replays |-> NoReplay]

-----------------------------------------------------------------------------
\* loadTopology(): whichever answer comes last counts, a failure too.
TopologyAnswered ==
  /\ asksChain > 0
  /\ asksChain' = asksChain - 1
  /\ topology' \in BOOLEAN
  /\ chainError' = ~topology'
  /\ UNCHANGED <<chainPhase, chainAsked, chainResult, chainRun, chainStage, chainPlay>>

\* "retry", which is there with an error and without a topology.  Bound: two
\* requests at a time.
Retry ==
  /\ ~topology /\ chainError
  /\ asksChain < 2
  /\ asksChain' = asksChain + 1
  /\ UNCHANGED <<topology, chainError, chainPhase, chainAsked, chainResult, chainRun,
                 chainStage, chainPlay>>

\* Mutant: run() and play() do not take a number of their own.
NextChainRunUnchanged == chainRun

NextChainRun == (chainRun + 1) % 4

InChargeOf(i) == chainPlay[i].id = chainRun

\* Bound: no third run within one step of a cancelled replay.
Settled == \A i \in Replays : chainPlay[i] = NoReplay \/ InChargeOf(i)

\* run(): the last result stays until there is another.
RunChain(question) ==
  /\ chainPhase # "waiting"
  /\ topology
  /\ Settled
  /\ chainRun' = NextChainRun
  /\ ResetStage(NumShards)
  /\ chainError' = FALSE
  /\ chainAsked' = question
  /\ chainPhase' = "waiting"
  /\ UNCHANGED <<topology, asksChain, chainResult, chainPlay>>

\* play(): the stage is cleared again and the steps are laid out.
BeginPlay(result, shards) ==
  /\ \E i \in Replays : chainPlay[i] = NoReplay
  /\ LET free == CHOOSE i \in Replays : chainPlay[i] = NoReplay
     IN chainPlay' = [chainPlay EXCEPT ![free] =
          [id |-> NextChainRun, steps |-> ChainTimeline(result, shards)]]
  /\ chainRun' = NextChainRun
  /\ ResetStage(shards)
  /\ chainPhase' = "playing"

\* The answer is played on the chain as it was when the question was asked,
\* whatever became of the topology since.
GenerationArrives ==
  /\ chainPhase = "waiting"
  /\ \E r \in {s \in Answers : s.prompt = chainAsked} :
       /\ chainResult' = <<r>>
       /\ BeginPlay(r, NumShards)
  /\ UNCHANGED <<topology, chainError, asksChain, chainAsked>>

GenerationFails ==
  /\ chainPhase = "waiting"
  /\ chainPhase' = "idle"
  /\ chainError' = TRUE
  /\ UNCHANGED <<topology, asksChain, chainAsked, chainResult, chainRun, chainStage, chainPlay>>

\* The Replay button, which plays on the chain as the page knows it now.
ReplayAgain ==
  /\ chainPhase = "done"
  /\ chainResult # <<>>
  /\ Settled
  /\ BeginPlay(chainResult[1], Shards)
  /\ UNCHANGED <<topology, chainError, asksChain, chainAsked, chainResult>>

ChainShowStep(i) ==
  /\ chainPlay[i].steps # <<>>
  /\ InChargeOf(i)
  /\ LET step == Head(chainPlay[i].steps)
     IN \/ /\ step.kind = "send"
           /\ busyNode' = NoBusy
           /\ pulses' = [l \in DOMAIN pulses |-> pulses[l] + IF l = step.link THEN 1 ELSE 0]
           /\ chainTotals' = [chainTotals EXCEPT
                !.networkMs = @ + step.networkMs,
                !.bytes = @ + IF step.betweenDevices THEN step.bytes ELSE 0]
           /\ UNCHANGED chainTokens
        \/ /\ step.kind = "compute"
           /\ busyNode' = step.node
           /\ chainTotals' = [chainTotals EXCEPT !.computeMs = @ + step.computeMs]
           /\ UNCHANGED <<pulses, chainTokens>>
        \/ /\ step.kind = "token"
           /\ busyNode' = NoBusy
           /\ chainTokens' = Append(chainTokens, step.text)
           /\ UNCHANGED <<pulses, chainTotals>>
  /\ chainPlay' = [chainPlay EXCEPT ![i].steps = Tail(@)]
  /\ UNCHANGED <<topology, chainError, asksChain, chainPhase, chainAsked, chainResult, chainRun>>

ChainCancelled(i) ==
  /\ chainPlay[i] # NoReplay
  /\ ~InChargeOf(i)
  /\ chainPlay' = [chainPlay EXCEPT ![i] = NoReplay]
  /\ UNCHANGED <<topology, chainError, asksChain, chainPhase, chainAsked, chainResult, chainRun, chainStage>>

ChainPlayEnds(i) ==
  /\ chainPlay[i] # NoReplay
  /\ chainPlay[i].steps = <<>>
  /\ InChargeOf(i)
  /\ busyNode' = NoBusy
  /\ chainPhase' = "done"
  /\ chainPlay' = [chainPlay EXCEPT ![i] = NoReplay]
  /\ UNCHANGED <<topology, chainError, asksChain, chainAsked, chainResult, chainRun,
                 pulses, chainTokens, chainTotals>>

-----------------------------------------------------------------------------
ChainCallEnds == GenerationArrives \/ GenerationFails

ChainPlayStep(i) == ChainShowStep(i) \/ ChainCancelled(i) \/ ChainPlayEnds(i)

ChainNext ==
  \/ TopologyAnswered
  \/ Retry
  \/ \E q \in Questions : RunChain(q)
  \/ ChainCallEnds
  \/ ReplayAgain
  \/ \E i \in Replays : ChainPlayStep(i)

-----------------------------------------------------------------------------
\* The answer on the stage is the answer to the question above it, from its
\* first token on, however often the user asked, failed or replayed before.
ChainAnswersWhatWasAsked ==
  /\ chainPhase \in {"playing", "done"} =>
       /\ chainResult # <<>>
       /\ chainResult[1].prompt = chainAsked
       /\ IsPrefix(chainTokens, chainResult[1].tokens)
  /\ chainPhase = "waiting" => chainTokens = <<>>

\* A replay that ended has shown it all: each token, each payload on each link,
\* and exactly the time on the network and computing that was measured.
SumOfHops(hops, f(_)) == MapThenSumSet(LAMBDA j : f(hops[j]), DOMAIN hops)

TransportOf(hops) == SumOfHops(hops, LAMBDA h : h.transport_ms)

ComputeOf(hops) == SumOfHops(hops, LAMBDA h : h.compute_ms)

ChainDoneShowsItAll ==
  chainPhase = "done" =>
    LET r == chainResult[1] IN
    /\ chainTokens = r.tokens
    /\ chainTotals.networkMs = TransportOf(r.hops)
    /\ chainTotals.computeMs = ComputeOf(r.hops)
    /\ \A l \in DOMAIN pulses : pulses[l] * NumShards = Len(r.hops)
=============================================================================
