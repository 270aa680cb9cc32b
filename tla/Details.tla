------------------------------- MODULE Details ------------------------------
(***************************************************************************)
(* The chain's page of figures (src/dashboard/app/details/page.tsx): one     *)
(* generation, or one compared with the cache off, and the charts of its     *)
(* hops (components/HorizontalBars.tsx).                                     *)
(***************************************************************************)
EXTENDS Naturals, Sequences, FiniteSetsExt

CONSTANTS
  Runs,        \* the generations the API may measure
  PlotWidth    \* pixels of a chart's plot

\* What a generation measured: of each hop the bytes and times, of the whole the
\* bytes of all its hops.  Whatever phase there is has sent something, and time
\* was spent.
IsRun(r) ==
  /\ r.hops \in Seq(Range(r.hops))
  /\ \A j \in DOMAIN r.hops :
       /\ r.hops[j].phase \in {"prefill", "decode"}
       /\ {r.hops[j].sent_bytes, r.hops[j].compute_ms, r.hops[j].transport_ms} \subseteq Nat
       /\ \E k \in DOMAIN r.hops : r.hops[k].phase = r.hops[j].phase /\ r.hops[k].sent_bytes > 0
  /\ \E j \in DOMAIN r.hops : r.hops[j].compute_ms > 0
  /\ r.total_sent_bytes = SumFunction([j \in DOMAIN r.hops |-> r.hops[j].sent_bytes])

\* The page is never so narrow that no plot is left.
ASSUME DetailsAssumption ==
  /\ PlotWidth \in Nat /\ PlotWidth > 3
  /\ \A r \in Runs : IsRun(r)

VARIABLES
  chain,       \* the topology is known
  asksTopology,\* requests for it that are under way
  running,     \* what is being run: none, generate, compare
  shown,       \* a sequence: the result shown, or empty
  comparison   \* a sequence: the comparison shown, or empty

detailVars == <<chain, asksTopology, running, shown, comparison>>

DetailsInit ==
  /\ chain = FALSE
  /\ asksTopology = 1
  /\ running = "none"
  /\ shown = <<>>
  /\ comparison = <<>>

\* The page is mounted again.
DetailsMounts ==
  /\ chain' = FALSE
  /\ asksTopology' = 1
  /\ running' = "none"
  /\ shown' = <<>>
  /\ comparison' = <<>>

\* loadTopology(), at first and by "refresh".  Bound: two at a time.
DetailsTopology ==
  /\ asksTopology > 0
  /\ asksTopology' = asksTopology - 1
  /\ chain' \in BOOLEAN
  /\ UNCHANGED <<running, shown, comparison>>

RefreshTopology ==
  /\ asksTopology < 2
  /\ asksTopology' = asksTopology + 1
  /\ UNCHANGED <<chain, running, shown, comparison>>

\* Mutant: a comparison stays until there is another.
RunDetailsKept(compare) ==
  /\ running = "none"
  /\ chain
  /\ running' = IF compare THEN "compare" ELSE "generate"
  /\ UNCHANGED <<chain, asksTopology, shown, comparison>>

\* run(): a plain generation drops the comparison at once.
RunDetails(compare) ==
  /\ running = "none"
  /\ chain
  /\ running' = IF compare THEN "compare" ELSE "generate"
  /\ comparison' = IF compare THEN comparison ELSE <<>>
  /\ UNCHANGED <<chain, asksTopology, shown>>

Compared ==
  /\ running = "compare"
  /\ \E cached, uncached \in Runs :
       /\ comparison' = <<[cached |-> cached, uncached |-> uncached]>>
       /\ shown' = <<cached>>
  /\ running' = "none"
  /\ UNCHANGED <<chain, asksTopology>>

Generated ==
  /\ running = "generate"
  /\ \E r \in Runs : shown' = <<r>>
  /\ running' = "none"
  /\ UNCHANGED <<chain, asksTopology, comparison>>

DetailsFail ==
  /\ running # "none"
  /\ running' = "none"
  /\ UNCHANGED <<chain, asksTopology, shown, comparison>>

DetailsNext ==
  \/ DetailsTopology
  \/ RefreshTopology
  \/ \E compare \in BOOLEAN : RunDetails(compare)
  \/ Compared
  \/ Generated
  \/ DetailsFail

-----------------------------------------------------------------------------
\* The charts.  A row is a sequence of segments, each a value.

HopsOf(hops) == {hops[j].hop : j \in DOMAIN hops}

SumWhere(hops, h, field) ==
  SumFunction([j \in {j \in DOMAIN hops : hops[j].hop = h} |-> hops[j][field]])

\* BandwidthPanel: the bytes of one phase, one bar per hop.  The hops of a phase
\* keep the places they have in the whole generation.
Phase(hops, phase_) == [j \in {j \in DOMAIN hops : hops[j].phase = phase_} |-> hops[j]]

BandwidthRows(hops) ==
  [h \in HopsOf(hops) |-> <<SumWhere(hops, h, "sent_bytes")>>]

\* LatencyPanel: both phases together.
LatencyRows(hops) ==
  [h \in HopsOf(hops) |-> <<SumWhere(hops, h, "compute_ms"),
                            SumWhere(hops, h, "transport_ms")>>]

\* CachePanel: all the bytes with the cache off, then with it on.
CacheRows(c) == <<<<c.uncached.total_sent_bytes>>, <<c.cached.total_sent_bytes>>>>

RowTotal(row) == SumFunction(row)

\* A chart is to the scale of its longest bar.
DataMax(rows) == Max({1} \cup {RowTotal(rows[h]) : h \in DOMAIN rows})

SegmentGap == 2

\* Where each segment of a row starts, and how wide it is before the gap.
RawWidth(rows, h, k) == (rows[h][k] * PlotWidth) \div DataMax(rows)

StartOf(rows, h, k) == SumFunction([j \in 1..k - 1 |-> RawWidth(rows, h, j)])

\* The gap is taken out of every segment but the last.
BarWidth(rows, h, k) ==
  IF k = Len(rows[h]) THEN RawWidth(rows, h, k)
  ELSE IF RawWidth(rows, h, k) > SegmentGap THEN RawWidth(rows, h, k) - SegmentGap ELSE 0

\* Mutant: the gap between segments is not taken out of them.
BarsTouch(rows, h) ==
  {[from |-> StartOf(rows, h, k), to |-> StartOf(rows, h, k) + RawWidth(rows, h, k),
    segment |-> k] : k \in {k \in DOMAIN rows[h] : RawWidth(rows, h, k) > 0}}

\* One that has no width left is not drawn.
Bars(rows, h) ==
  {[from |-> StartOf(rows, h, k), to |-> StartOf(rows, h, k) + BarWidth(rows, h, k),
    segment |-> k] : k \in {k \in DOMAIN rows[h] : BarWidth(rows, h, k) > 0}}

-----------------------------------------------------------------------------
\* A comparison on the page is of the run whose figures stand below it.
ComparisonIsOfThisRun ==
  comparison # <<>> => shown = <<comparison[1].cached>>

\* The bars of a chart lie within the plot, one after the other, and the
\* longest reaches its end, in the comparison's chart too; and no byte that
\* crossed a hop is left out of the two charts of bytes.
InThePlot(rows) ==
  \A h \in DOMAIN rows :
    /\ \A bar \in Bars(rows, h) : bar.to <= PlotWidth
    /\ \A bar, next \in Bars(rows, h) :
         bar.segment < next.segment => bar.to + SegmentGap <= next.from

LongestReaches(rows) ==
  DOMAIN rows # {} =>
    \E h \in DOMAIN rows : \E bar \in Bars(rows, h) : bar.to >= PlotWidth - 1 - SegmentGap

BytesIn(rows) == SumFunction([h \in DOMAIN rows |-> RowTotal(rows[h])])

ChartsAddUp ==
  shown # <<>> =>
    LET hops == shown[1].hops
        prefill == BandwidthRows(Phase(hops, "prefill"))
        decode == BandwidthRows(Phase(hops, "decode"))
        charts == {prefill, decode, LatencyRows(hops)}
                  \cup {CacheRows(comparison[j]) : j \in DOMAIN comparison}
    IN /\ \A rows \in charts : InThePlot(rows) /\ LongestReaches(rows)
       /\ BytesIn(prefill) + BytesIn(decode) = shown[1].total_sent_bytes
=============================================================================
