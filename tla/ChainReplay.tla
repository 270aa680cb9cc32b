----------------------------- MODULE ChainReplay ----------------------------
(***************************************************************************)
(* One generation of the fixed chain as a replay (lib/replay.ts).  A result  *)
(* has one record per hop, pass after pass; links are counted from 0, which  *)
(* joins the prompt to the first device, and transport in halves.            *)
(***************************************************************************)
EXTENDS Naturals, Sequences, SequencesExt

ChainSend(link, bytes, between, ms) ==
  [kind |-> "send", link |-> link, bytes |-> bytes,
   betweenDevices |-> between, networkMs |-> ms]
ChainCompute(node, ms) == [kind |-> "compute", node |-> node, computeMs |-> ms]
ChainToken(text) == [kind |-> "token", text |-> text]

Half(hop) == hop.transport_ms \div 2

\* What the API returns: the hops of its passes through the whole chain, and
\* the text of each token, which the pass that ends the answer has not.
IsGeneration(result, numShards) ==
  /\ result.hops \in Seq(Range(result.hops))
  /\ \A j \in DOMAIN result.hops :
       LET hop == result.hops[j]
       IN /\ {hop.sent_bytes, hop.compute_ms, hop.transport_ms} \subseteq Nat
          /\ hop.transport_ms = 2 * Half(hop)
  /\ result.tokens \in Seq(Range(result.tokens))
  /\ \E passes \in Len(result.tokens)..Len(result.hops) :
       passes > 0 /\ Len(result.hops) = passes * numShards

\* The hops of each pass through the chain; the last may be cut short.
Passes(hops, numShards) ==
  LET count == (Len(hops) + numShards - 1) \div numShards
      upTo(i) == IF i * numShards <= Len(hops) THEN i * numShards ELSE Len(hops)
  IN [i \in 1..count |-> SubSeq(hops, (i - 1) * numShards + 1, upTo(i))]

\* Mutant: the way back of the hop before is forgotten.
DeviceStepsOneWay(pass, k) ==
  (IF k = 1 THEN <<>>
   ELSE <<ChainSend(k - 1, pass[k].sent_bytes, TRUE, Half(pass[k]))>>)
  \o <<ChainCompute(k - 1, pass[k].compute_ms)>>

\* Device k - 1 computes, after what device k - 2 produced has crossed to it.
DeviceSteps(pass, k) ==
  (IF k = 1 THEN <<>>
   ELSE <<ChainSend(k - 1, pass[k].sent_bytes, TRUE, Half(pass[k - 1]) + Half(pass[k]))>>)
  \o <<ChainCompute(k - 1, pass[k].compute_ms)>>

ChainPassSteps(pass, tokens, i) ==
  <<ChainSend(0, pass[1].sent_bytes, FALSE, Half(pass[1]))>>
  \o FlattenSeq([k \in DOMAIN pass |-> DeviceSteps(pass, k)])
  \o <<ChainSend(Len(pass), Last(pass).received_bytes, FALSE, Half(Last(pass)))>>
  \o (IF i <= Len(tokens) THEN <<ChainToken(tokens[i])>> ELSE <<>>)

ChainTimeline(result, numShards) ==
  LET passes == Passes(result.hops, numShards)
  IN FlattenSeq([i \in DOMAIN passes |-> ChainPassSteps(passes[i], result.tokens, i)])
=============================================================================
