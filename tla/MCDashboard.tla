----------------------------- MODULE MCDashboard ----------------------------
(***************************************************************************)
(* For TLC: three devices, two stages and two copies wanted of each, with    *)
(* the pictures and the results the pool page may meet; and a chain of two   *)
(* devices with what its API may measure.                                    *)
(***************************************************************************)
EXTENDS Dashboard

CONSTANTS a, b, c

MCStage == {0, 1}

\* Every device has lent the memory for both stages; TooSmall has lent too little for any.
Row(liveness, state, speed, zero, one, busy) ==
  [liveness |-> liveness, state |-> state, speed |-> speed, slots |-> 2,
   hosting |-> [s \in MCStage |-> IF s = 0 THEN zero ELSE one],
   inflight |-> [s \in MCStage |-> IF s = 0 THEN busy ELSE 0]]

TooSmall(row) == [row EXCEPT !.slots = 0]

Picture(self, ra, rb, rc) ==
  [self |-> self, lab |-> {a, b, c},
   member |-> [d \in Device |-> IF d = a THEN ra ELSE IF d = b THEN rb ELSE rc]]

\* Two devices carry the pool and one is spare; the faster has gone; one is
\* handing over to one that loads, a third is late; and one works alone, beside
\* one that has left and one that lent too little memory to help.
MCPictures == {
  Picture(c, Row("alive", "active", 3, "ready", "ready", 0),
             Row("alive", "active", 2, "ready", "ready", 1),
             Row("alive", "active", 1, "none", "none", 0)),
  Picture(c, Row("down", "active", 3, "ready", "ready", 1),
             Row("alive", "active", 2, "ready", "ready", 0),
             Row("alive", "active", 1, "loading", "failed", 0)),
  Picture(b, Row("suspect", "active", 3, "ready", "none", 0),
             Row("alive", "draining", 2, "ready", "ready", 0),
             Row("alive", "active", 1, "ready", "loading", 0)),
  Picture(c, TooSmall(Row("alive", "active", 3, "none", "none", 0)),
             Row("down", "left", 2, "none", "none", 0),
             Row("alive", "active", 1, "ready", "ready", 0))
}

Hop(n) ==
  [sent_bytes |-> n, received_bytes |-> 1, compute_ms |-> n + 2, transport_ms |-> 2 * n]

Pass(route, phase_, recovery) ==
  [route |-> route, phase |-> phase_, recovery |-> recovery, seq_len |-> 3,
   hops |-> [k \in DOMAIN route |-> Hop(k)]]

Event(kind, atPass, s, member) ==
  [kind |-> kind, at_pass |-> atPass, stage |-> s, member |-> member]

\* An answer of one token; and one that lost two devices before its first pass was
\* through, nobody there to take over for a while, and one of them again, back at
\* another stage, before its second, and that a third pass ends without a token.
MCResults == {
  [passes |-> <<Pass(<<a, b>>, "prefill", FALSE)>>,
   events |-> <<Event("busy", 0, 0, b)>>,
   tokens |-> <<"x">>],
  [passes |-> <<Pass(<<b, a>>, "prefill", TRUE), Pass(<<b, c>>, "prefill", TRUE),
                Pass(<<b, c>>, "decode", FALSE)>>,
   events |-> <<Event("failover", 0, 0, a), Event("waiting", 0, 0, None),
                Event("failover", 0, 1, c), Event("recovered", 1, None, None),
                Event("failover", 1, 1, a), Event("recovered", 2, None, None)>>,
   tokens |-> <<"x", "z">>]
}

\* The chain: an answer to each of two questions, one of them cut short by a
\* stop token.
ChainHop(h, phase_, n) ==
  [hop |-> h, phase |-> phase_, sent_bytes |-> n, received_bytes |-> 1,
   compute_ms |-> n + 1, transport_ms |-> 2 * n]

ChainHops == <<ChainHop(0, "prefill", 3), ChainHop(1, "prefill", 5),
               ChainHop(0, "decode", 1), ChainHop(1, "decode", 2)>>

MCAnswers == {
  [prompt |-> "p", hops |-> ChainHops, tokens |-> <<"x">>],
  [prompt |-> "q", hops |-> ChainHops, tokens |-> <<"x", "y">>]
}

\* With and without the cache, over several hops, and one token only.
MCRuns == {
  [hops |-> ChainHops, total_sent_bytes |-> 11],
  [hops |-> <<ChainHop(0, "prefill", 3), ChainHop(1, "prefill", 5),
              ChainHop(0, "prefill", 4), ChainHop(1, "prefill", 6)>>,
   total_sent_bytes |-> 18],
  [hops |-> <<ChainHop(0, "prefill", 2), ChainHop(1, "prefill", 0)>>,
   total_sent_bytes |-> 2]
}
=============================================================================
