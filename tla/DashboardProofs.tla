--------------------------- MODULE DashboardProofs --------------------------
(***************************************************************************)
(* What holds of the dashboard for any pictures, results, measurements and   *)
(* devices, whichever pages are opened and left.                             *)
(***************************************************************************)
EXTENDS Dashboard, FiniteSetTheorems, SequenceTheorems, WellFoundedInduction, TLAPS

-----------------------------------------------------------------------------
\* The page of figures.

\* A generation that is not a comparison has dropped the last one.
Dropped == running = "generate" => comparison = <<>>

LEMMA DetailsStays == UNCHANGED detailVars /\ Dropped /\ ComparisonIsOfThisRun
                        => Dropped' /\ ComparisonIsOfThisRun'
BY DEF detailVars, Dropped, ComparisonIsOfThisRun

\* The comparison on the page is of the run whose figures stand below it,
\* whatever fails or is refreshed meanwhile (details/page.tsx, run).
THEOREM ComparesThisRun == SiteSpec => []ComparisonIsOfThisRun
<1> DEFINE Inv == Dropped /\ ComparisonIsOfThisRun
<1>1. SiteInit => Inv
  BY DEF SiteInit, DetailsInit, Dropped, ComparisonIsOfThisRun
<1>2. Inv /\ [SiteNext]_siteVars => Inv'
  <2> SUFFICES ASSUME Inv, [SiteNext]_siteVars PROVE Inv'
    OBVIOUS
  <2>1. CASE OnPoolPage \/ OnTwoDevices \/ UNCHANGED siteVars
    <3>1. UNCHANGED detailVars
      BY <2>1 DEF OnPoolPage, OnTwoDevices, PoolPageOpen, TwoDevicesOpen, siteVars
    <3> QED
      BY <3>1, DetailsStays
  <2>2. CASE DetailsTopology \/ RefreshTopology \/ DetailsFail
    BY <2>2 DEF DetailsTopology, RefreshTopology, DetailsFail, Dropped, ComparisonIsOfThisRun
  <2>3. ASSUME NEW compare \in BOOLEAN, RunDetails(compare) PROVE Inv'
    BY <2>3 DEF RunDetails, Dropped, ComparisonIsOfThisRun
  <2>4. CASE Compared
    <3>1. PICK cached \in Runs, uncached \in Runs :
            /\ comparison' = <<[cached |-> cached, uncached |-> uncached]>>
            /\ shown' = <<cached>>
      BY <2>4 DEF Compared
    <3>2. running' = "none"
      BY <2>4 DEF Compared
    <3> QED
      BY <3>1, <3>2 DEF Dropped, ComparisonIsOfThisRun
  <2>5. CASE Generated
    BY <2>5 DEF Generated, Dropped, ComparisonIsOfThisRun
  <2>6. ASSUME NEW to \in {"/", "/two-devices", "/details"}, Follow(to) PROVE Inv'
    BY <2>6 DEF Follow, DetailsMounts, Dropped, ComparisonIsOfThisRun
  <2> QED
    BY <2>1, <2>2, <2>3, <2>4, <2>5, <2>6 DEF SiteNext, OnDetails
<1> QED
  BY <1>1, <1>2, PTL DEF SiteSpec

-----------------------------------------------------------------------------
\* The crash in the middle of an answer.

\* Shapes: what a step changes a field of has that field.
Shapes ==
  /\ asking = [crash |-> asking.crash, start |-> asking.start, via |-> asking.via,
               at |-> asking.at, left |-> asking.left]
  /\ play = [i \in Plays |-> [id |-> play[i].id, steps |-> play[i].steps, seen |-> play[i].seen]]
  /\ runId \in 0..MaxRun

\* While a question is out, no replay that is still there is in charge: none
\* ends the question's run in its place.
NoneInCharge == phase = "running" => \A i \in Plays : play[i].id # runId

\* Another device was there to be asked than the one to crash.
HadChoice(start) == Cardinality(Alive(start)) > 1

\* The timer of a crash is that of the question that is out, and it knows whom
\* not to crash.
TimerIsOurs ==
  timer.armed = TRUE =>
    /\ phase = "running"
    /\ asking.crash = TRUE
    /\ timer.via = asking.via
    /\ HadChoice(asking.start) => asking.via # None /\ timer.victim # asking.via

PageInv == Shapes /\ NoneInCharge /\ TimerIsOurs

\* A run gets a number that no replay has.
LEMMA NextIsAnother ==
  ASSUME runId \in 0..MaxRun
  PROVE  NextRun \in 0..MaxRun /\ NextRun # runId
BY PageAssumption DEF NextRun

\* A picture with two devices alive has one beside any given device.
LEMMA AnotherIsAlive ==
  ASSUME NEW p, NEW victim, HadChoice(p)
  PROVE  Alive(p) \ {victim} # {}
<1> SUFFICES ASSUME Alive(p) \ {victim} = {} PROVE FALSE
  OBVIOUS
<1>1. Alive(p) = {} \/ Alive(p) = {victim}
  OBVIOUS
<1>2. Cardinality(Alive(p)) \in {0, 1}
  BY <1>1, FS_EmptySet, FS_Singleton
<1> QED
  BY <1>2 DEF HadChoice

\* So the device asked is there, and is not the one to crash.
LEMMA AskedIsSafe ==
  ASSUME NEW p, NEW victim, NEW via \in Requesters(p, victim), HadChoice(p)
  PROVE  via # None /\ via # victim
<1>1. Alive(p) \ {victim} # {}
  BY AnotherIsAlive
<1>2. via \in Alive(p) \ {victim}
  BY <1>1 DEF Requesters
<1>3. Alive(p) \subseteq Device
  BY DEF Alive, Members
<1> QED
  BY <1>2, <1>3, PageAssumption

\* And the timer crashes another than the one asked.
LEMMA TargetIsAnother ==
  ASSUME NEW p, NEW via, NEW victim, NEW d \in Targets(p, via, victim), victim # via
  PROVE  d # via
BY DEF Targets

LEMMA AskKeeps ==
  ASSUME PageInv, NEW crash \in BOOLEAN, Ask(crash)
  PROVE  PageInv' /\ killed' = None
<1>1. PICK victim \in IF crash THEN OrNone(Fastest(view, Holders(view))) ELSE {None} :
        \E via \in IF crash THEN Requesters(view, victim) ELSE {None} :
          LET order == IF via # None THEN {via} ELSE {view.self} \cup Alive(view)
              first == IF via # None THEN via ELSE view.self
          IN /\ asking' = [crash |-> crash, start |-> view, via |-> via,
                           at |-> first, left |-> order \ {first}]
             /\ timer' = [armed |-> crash, via |-> via, victim |-> victim]
  BY DEF Ask
<1>2. PICK via \in IF crash THEN Requesters(view, victim) ELSE {None} :
        /\ \E first, left : asking' = [crash |-> crash, start |-> view, via |-> via,
                                       at |-> first, left |-> left]
        /\ timer' = [armed |-> crash, via |-> via, victim |-> victim]
  BY <1>1
<1>3. /\ runId' = NextRun /\ phase' = "running" /\ killed' = None
      /\ UNCHANGED play
      /\ \A i \in Plays : Idle(i) \/ InCharge(i)
  BY DEF Ask
<1>4. Shapes'
  BY <1>2, <1>3, NextIsAnother DEF PageInv, Shapes
<1>5. NoneInCharge'
  BY <1>3, NextIsAnother, PageAssumption DEF PageInv, Shapes, NoneInCharge, Idle, NoPlay, InCharge
<1>6. TimerIsOurs'
  <2> SUFFICES ASSUME crash = TRUE
               PROVE  HadChoice(view) => via # None /\ victim # via
    BY <1>2, <1>3 DEF TimerIsOurs, HadChoice, Alive, Members
  <2> QED
    BY <1>2, AskedIsSafe
<1> QED
  BY <1>3, <1>4, <1>5, <1>6 DEF PageInv

\* The step of CrashIsMidAnswer.
AimsRight ==
  killed' \notin {killed, None} =>
    /\ Running /\ asking.crash
    /\ Cardinality(Alive(asking.start)) > 1 => asking.via \notin {None, killed'}

LEMMA TimerKeeps == PageInv /\ CrashTimer => PageInv' /\ AimsRight
<1> SUFFICES ASSUME PageInv, CrashTimer PROVE PageInv' /\ AimsRight
  OBVIOUS
<1>1. /\ timer.armed = TRUE
      /\ killed' \in Targets(view, timer.via, timer.victim)
      /\ timer' = NoTimer
      /\ UNCHANGED <<phase, asking, play, runId>>
  BY DEF CrashTimer, TimerIsOurs, PageInv
<1>2. PageInv'
  BY <1>1 DEF PageInv, Shapes, NoneInCharge, TimerIsOurs, NoTimer
<1>3. /\ phase = "running" /\ asking.crash /\ timer.via = asking.via
      /\ HadChoice(asking.start) => asking.via # None /\ timer.victim # asking.via
  BY <1>1 DEF PageInv, TimerIsOurs
<1>4. HadChoice(asking.start) => killed' # asking.via
  BY <1>1, <1>3, TargetIsAnother
<1> QED
  BY <1>2, <1>3, <1>4 DEF AimsRight, Running, HadChoice

\* Whatever ends a question clears its timer, and what shows a replay touches
\* neither.
LEMMA RestKeeps ==
  ASSUME PageInv,
         \/ PictureArrives \/ DeviceSilent \/ Answered \/ Failed
         \/ \E i \in Plays : PlayStep(i)
  PROVE  PageInv' /\ killed' \in {killed, None}
<1>1. CASE PictureArrives
  BY <1>1 DEF PictureArrives, PageInv, Shapes, NoneInCharge, TimerIsOurs
<1>2. CASE DeviceSilent
  <2>1. UNCHANGED <<phase, runId, timer, play, killed>>
    BY <1>2 DEF DeviceSilent
  <2>2. PICK at, left : asking' = [crash |-> asking.crash, start |-> asking.start,
                                   via |-> asking.via, at |-> at, left |-> left]
    <3> DEFINE r == [crash |-> asking.crash, start |-> asking.start, via |-> asking.via,
                     at |-> asking.at, left |-> asking.left]
    <3>1. asking = r
      BY DEF PageInv, Shapes
    <3>2. CASE asking.left = {}
      <4>1. asking' = [asking EXCEPT !.at = None]
        BY <1>2, <3>2 DEF DeviceSilent
      <4> QED
        BY <3>1, <4>1
    <3>3. CASE asking.left # {}
      <4>1. PICK d \in asking.left : asking' = [asking EXCEPT !.at = d, !.left = @ \ {d}]
        BY <1>2, <3>3 DEF DeviceSilent
      <4>2. asking' = [crash |-> asking.crash, start |-> asking.start, via |-> asking.via,
                       at |-> d, left |-> asking.left \ {d}]
        BY <3>1, <4>1
      <4> QED
        BY <4>2
    <3> QED
      BY <3>2, <3>3
  <2>3. Shapes'
    BY <2>1, <2>2 DEF PageInv, Shapes
  <2>4. NoneInCharge'
    BY <2>1 DEF PageInv, NoneInCharge
  <2>5. /\ asking'.crash = asking.crash
        /\ asking'.start = asking.start
        /\ asking'.via = asking.via
    BY <2>2
  <2>6. TimerIsOurs'
    BY <2>1, <2>5 DEF PageInv, TimerIsOurs, HadChoice, Alive, Members
  <2> QED
    BY <2>1, <2>3, <2>4, <2>6 DEF PageInv
<1>3. CASE Answered
  <2>1. \E i, steps : play' = [play EXCEPT ![i] = [id |-> NextRun, steps |-> steps, seen |-> {}]]
    BY <1>3 DEF Answered
  <2>2. /\ runId' = NextRun /\ phase' = "playing" /\ killed' = None
        /\ timer' = NoTimer /\ asking' = NotAsking
    BY <1>3 DEF Answered
  <2>3. Shapes'
    BY <2>1, <2>2, NextIsAnother DEF PageInv, Shapes, NotAsking
  <2>4. NoneInCharge' /\ TimerIsOurs'
    BY <2>2 DEF NoneInCharge, TimerIsOurs, NoTimer
  <2> QED
    BY <2>2, <2>3, <2>4 DEF PageInv
<1>4. CASE Failed
  BY <1>4 DEF Failed, NoTimer, NotAsking, PageInv, Shapes, NoneInCharge, TimerIsOurs
<1>5. ASSUME NEW i \in Plays, ShowStep(i) \/ Cancelled(i)
      PROVE  PageInv' /\ killed' \in {killed, None}
  <2>1. UNCHANGED <<phase, runId, asking, timer, killed>>
    BY <1>5 DEF ShowStep, Cancelled
  <2>2. /\ \A j \in Plays : play'[j].id \in {play[j].id, MaxRun + 1}
        /\ play' = [j \in Plays |-> [id |-> play'[j].id, steps |-> play'[j].steps,
                                     seen |-> play'[j].seen]]
    <3>1. CASE ShowStep(i)
      <4>1. PICK steps, seen :
              play' = [play EXCEPT ![i] = [id |-> play[i].id, steps |-> steps, seen |-> seen]]
        BY <3>1 DEF ShowStep
      <4> QED
        BY <1>5, <4>1 DEF PageInv, Shapes
    <3>2. CASE Cancelled(i)
      BY <1>5, <3>2 DEF Cancelled, NoPlay, PageInv, Shapes
    <3> QED
      BY <1>5, <3>1, <3>2
  <2>3. Shapes'
    BY <2>1, <2>2 DEF PageInv, Shapes
  <2>4. NoneInCharge'
    BY <2>1, <2>2, PageAssumption DEF PageInv, Shapes, NoneInCharge
  <2>5. TimerIsOurs'
    BY <2>1 DEF PageInv, TimerIsOurs, HadChoice, Alive, Members
  <2> QED
    BY <2>1, <2>3, <2>4, <2>5 DEF PageInv
<1>6. ASSUME NEW i \in Plays, PlayEnds(i) PROVE PageInv' /\ killed' \in {killed, None}
  <2>1. /\ play[i].id = runId /\ phase' = "done"
        /\ play' = [play EXCEPT ![i] = NoPlay]
        /\ UNCHANGED <<runId, asking, timer, killed>>
    BY <1>6 DEF PlayEnds, InCharge
  <2>2. phase # "running" /\ timer.armed # TRUE
    BY <2>1 DEF PageInv, NoneInCharge, TimerIsOurs
  <2>3. Shapes'
    BY <2>1 DEF PageInv, Shapes, NoPlay
  <2> QED
    BY <2>1, <2>2, <2>3 DEF PageInv, NoneInCharge, TimerIsOurs
<1> QED
  BY <1>1, <1>2, <1>3, <1>4, <1>5, <1>6 DEF PlayStep

\* However questions, answers, failures, replays and pages follow one another,
\* a device is crashed only while the question it is crashed for is out, and
\* never the one that was asked when there was another (run, app/page.tsx).
THEOREM CrashesMidAnswer == SiteSpec => CrashIsMidAnswer
<1>1. SiteInit => PageInv
  BY PageAssumption DEF SiteInit, Init, PageInv, Shapes, NoneInCharge, TimerIsOurs, NoTimer,
                        NotAsking, NoPlay
<1>2. PageInv /\ [SiteNext]_siteVars => PageInv' /\ [AimsRight]_vars
  <2> SUFFICES ASSUME PageInv, [SiteNext]_siteVars PROVE PageInv' /\ AimsRight
    OBVIOUS
  <2>1. ASSUME killed' \in {killed, None} PROVE AimsRight
    BY <2>1 DEF AimsRight
  <2>2. CASE OnTwoDevices \/ OnDetails \/ UNCHANGED siteVars
    <3>1. UNCHANGED vars
      BY <2>2 DEF OnTwoDevices, OnDetails, TwoDevicesOpen, DetailsOpen, siteVars
    <3> QED
      BY <2>1, <3>1 DEF vars, PageInv, Shapes, NoneInCharge, TimerIsOurs
  <2>3. ASSUME NEW crash \in BOOLEAN, Ask(crash) PROVE PageInv' /\ AimsRight
    BY <2>1, <2>3, AskKeeps
  <2>4. CASE CrashTimer
    BY <2>4, TimerKeeps
  <2>5. CASE \/ PictureArrives \/ DeviceSilent \/ Answered \/ Failed
             \/ \E i \in Plays : PlayStep(i)
    BY <2>1, <2>5, RestKeeps
  <2>6. ASSUME NEW to \in {"/", "/two-devices", "/details"}, Follow(to)
        PROVE  PageInv' /\ AimsRight
    <3>1. PoolMounts
      BY <2>6 DEF Follow
    <3>2. PageInv' /\ killed' = None
      BY <3>1, PageAssumption DEF PoolMounts, PageInv, Shapes, NoneInCharge, TimerIsOurs,
                                  NoTimer, NotAsking, NoPlay
    <3> QED
      BY <2>1, <3>2
  <2> QED
    BY <2>2, <2>3, <2>4, <2>5, <2>6 DEF SiteNext, OnPoolPage, PlayStep
<1> QED
  BY <1>1, <1>2, PTL DEF SiteSpec, CrashIsMidAnswer, AimsRight

-----------------------------------------------------------------------------
(* A replay is a sequence of steps made of shorter ones, end to end.  What it
   comes to is an induction over that, done here once. *)

\* The least of some numbers.
LEMMA Least ==
  ASSUME NEW N \in SUBSET Nat, N # {}
  PROVE  \E n \in N : \A k \in N : n <= k
<1>1. PICK n \in N : \A k \in N : ~ (<<k, n>> \in OpToRel(<, Nat))
  BY NatLessThanWellFounded, WFMin
<1>2. \A k \in N : ~ (k < n)
  BY <1>1 DEF OpToRel
<1> QED
  BY <1>2

IsSeq(s) == s \in Seq(Range(s))

LEMMA SeqIs ==
  ASSUME NEW s, IsSeq(s)
  PROVE  Len(s) \in Nat /\ DOMAIN s = 1..Len(s)
BY DEF IsSeq

LEMMA MakesSeq ==
  ASSUME NEW S, NEW s \in Seq(S)
  PROVE  IsSeq(s)
<1>1. Len(s) \in Nat /\ DOMAIN s = 1..Len(s) /\ s \in [1..Len(s) -> S]
  BY LenProperties
<1>2. s \in [1..Len(s) -> Range(s)]
  BY <1>1 DEF Range
<1> QED
  BY <1>1, <1>2 DEF IsSeq

LEMMA CountedIsSeq ==
  ASSUME NEW n \in Nat, NEW s, DOMAIN s = 1..n, s = [i \in 1..n |-> s[i]]
  PROVE  IsSeq(s) /\ Len(s) = n
<1>1. s \in [1..n -> Range(s)]
  BY DEF Range
<1>2. s \in Seq(Range(s)) /\ Len(s) = n
  BY <1>1
<1> QED
  BY <1>2 DEF IsSeq

LEMMA CatIs ==
  ASSUME NEW s, NEW t, IsSeq(s), IsSeq(t)
  PROVE  /\ IsSeq(s \o t)
         /\ Len(s \o t) = Len(s) + Len(t)
         /\ \A i \in 1..Len(s) + Len(t) :
              (s \o t)[i] = IF i <= Len(s) THEN s[i] ELSE t[i - Len(s)]
<1> DEFINE S == Range(s) \cup Range(t)
<1>1. s \in Seq(S) /\ t \in Seq(S)
  BY SeqMonotonic DEF IsSeq
<1> HIDE DEF S
<1> QED
  BY <1>1, ConcatProperties, MakesSeq

LEMMA TailIs ==
  ASSUME NEW s, IsSeq(s), s # << >>
  PROVE  /\ IsSeq(Tail(s))
         /\ Len(s) \in Nat \ {0}
         /\ Len(Tail(s)) = Len(s) - 1
         /\ Head(s) = s[1]
         /\ \A i \in 1..Len(s) - 1 : Tail(s)[i] = s[i + 1]
<1>1. s \in Seq(Range(s))
  BY DEF IsSeq
<1>2. /\ Tail(s) \in Seq(Range(s))
      /\ Len(Tail(s)) = Len(s) - 1
      /\ \A i \in 1..Len(Tail(s)) : Tail(s)[i] = s[i + 1]
  BY <1>1, HeadTailProperties
<1>3. Len(s) \in Nat \ {0} /\ Head(s) = s[1]
  BY <1>1, EmptySeq
<1> QED
  BY <1>2, <1>3, MakesSeq

\* Flattened, sequences follow one another: f[i] is the first i of them.
Laid(f, seqs) ==
  f = [i \in 1..Len(seqs) |-> IF i = 1 THEN seqs[i] ELSE f[i - 1] \o seqs[i]]

LEMMA FlattenIs ==
  ASSUME NEW seqs, IsSeq(seqs), Len(seqs) # 0
  PROVE  \E f : Laid(f, seqs) /\ FlattenSeq(seqs) = f[Len(seqs)]
<1> DEFINE Upto(f, k) == f = [i \in 1..k |-> IF i = 1 THEN seqs[i] ELSE f[i - 1] \o seqs[i]]
           N == {k \in Nat : ~ \E f : Upto(f, k)}
<1>1. N = {}
  <2> SUFFICES ASSUME N # {} PROVE FALSE
    OBVIOUS
  <2>1. PICK k \in N : \A j \in N : k <= j
    <3>1. N \in SUBSET Nat
      OBVIOUS
    <3> HIDE DEF N
    <3> QED
      BY <3>1, Least
  <2>2. k # 0
    <3>1. Upto([i \in 1..0 |-> i], 0)
      OBVIOUS
    <3>2. 0 \notin N
      BY <3>1
    <3> QED
      BY <2>1, <3>2
  <2>3. k - 1 \in Nat /\ k - 1 \notin N
    <3>1. k \in Nat
      BY <2>1
    <3> HIDE DEF N
    <3> QED
      BY <2>1, <2>2, <3>1
  <2>4. PICK g : Upto(g, k - 1)
    BY <2>3
  <2> DEFINE h == [i \in 1..k |-> IF i = 1 THEN seqs[i] ELSE g[i - 1] \o seqs[i]]
  <2>5. \A i \in 1..k - 1 : h[i] = g[i]
    <3> TAKE i \in 1..k - 1
    <3>1. i \in 1..k
      BY <2>3
    <3>2. g[i] = IF i = 1 THEN seqs[i] ELSE g[i - 1] \o seqs[i]
      BY <2>4
    <3> QED
      BY <3>1, <3>2
  <2>6. \A i \in 1..k : i # 1 => i - 1 \in 1..k - 1
    BY <2>3
  <2>7. Upto(h, k)
    BY <2>5, <2>6
  <2> QED
    BY <2>1, <2>7
<1>2. Len(seqs) \in Nat
  BY SeqIs
<1>3. \E f : Laid(f, seqs)
  BY <1>1, <1>2 DEF Laid
<1> DEFINE flatten == CHOOSE f : Laid(f, seqs)
<1>4. Laid(flatten, seqs)
  BY <1>3
<1>5. FlattenSeq(seqs) = flatten[Len(seqs)]
  BY DEF FlattenSeq, Laid
<1> QED
  BY <1>4, <1>5

-----------------------------------------------------------------------------
(* What a replay adds up to.  A tally is what the page counts while it shows
   one step after another: the tokens of an answer, an amount, or the devices
   lost. *)

Moves(step, before, after, tally) ==
  CASE tally.of = "answer" ->
         IF step.kind = "token"
         THEN /\ after = before + 1
              /\ after <= Len(tally.tokens)
              /\ step.text = tally.tokens[after]
         ELSE after = before
    [] tally.of = "network" ->
         after = IF step.kind = "send" THEN before + step.networkMs ELSE before
    [] tally.of = "compute" ->
         after = IF step.kind = "compute" THEN before + step.computeMs ELSE before
    [] tally.of = "bytes" ->
         after = IF step.kind = "send"
                 THEN before + IF step.betweenDevices THEN step.bytes ELSE 0
                 ELSE before
    [] tally.of = "link" ->
         after = IF step.kind = "send" /\ step.link = tally.link THEN before + 1 ELSE before
    [] tally.of = "lost" ->
         after = IF step.kind = "lost" THEN before \cup {step.member} ELSE before

\* These steps, shown one after another, lead the tally from here to there.
Leads(steps, from, to, tally) ==
  /\ IsSeq(steps)
  /\ \E c : /\ c[0] = from /\ c[Len(steps)] = to
            /\ \A k \in 1..Len(steps) : Moves(steps[k], c[k - 1], c[k], tally)

LEMMA LeadsNowhere ==
  ASSUME NEW steps, IsSeq(steps), NEW n, NEW tally,
         \A k \in 1..Len(steps) : Moves(steps[k], n, n, tally)
  PROVE  Leads(steps, n, n, tally)
<1> DEFINE c == [k \in 0..Len(steps) |-> n]
<1>1. Len(steps) \in Nat
  BY SeqIs
<1>2. /\ c[0] = n /\ c[Len(steps)] = n
      /\ \A k \in 1..Len(steps) : c[k] = n /\ c[k - 1] = n
  BY <1>1
<1> HIDE DEF c
<1> QED
  BY <1>2 DEF Leads

LEMMA LeadsOne ==
  ASSUME NEW step, NEW a, NEW b, NEW tally, Moves(step, a, b, tally)
  PROVE  Leads(<<step>>, a, b, tally)
<1> DEFINE c == [k \in 0..1 |-> IF k = 0 THEN a ELSE b]
           s == <<step>>
<1>1. IsSeq(s) /\ Len(s) = 1 /\ s[1] = step
  <2>1. s \in Seq({step})
    OBVIOUS
  <2> QED
    BY <2>1, MakesSeq
<1>2. c[0] = a /\ c[1] = b
  OBVIOUS
<1>3. \A k \in 1..1 : k = 1 /\ k - 1 = 0
  OBVIOUS
<1> HIDE DEF c, s
<1>4. \A k \in 1..1 : Moves(s[k], c[k - 1], c[k], tally)
  BY <1>1, <1>2, <1>3
<1>5. Leads(s, a, b, tally)
  BY <1>1, <1>2, <1>4 DEF Leads
<1> QED
  BY <1>5 DEF s

LEMMA LeadsOn ==
  ASSUME NEW s, NEW t, NEW tally, NEW a, NEW b, NEW e,
         Leads(s, a, b, tally), Leads(t, b, e, tally)
  PROVE  Leads(s \o t, a, e, tally)
<1> DEFINE n == Len(s)
           m == Len(t)
<1>1. IsSeq(s) /\ IsSeq(t) /\ n \in Nat /\ m \in Nat
  BY SeqIs DEF Leads
<1>2. /\ IsSeq(s \o t)
      /\ Len(s \o t) = n + m
      /\ \A i \in 1..n + m : (s \o t)[i] = IF i <= n THEN s[i] ELSE t[i - n]
  BY <1>1, CatIs
<1>3. PICK c : /\ c[0] = a /\ c[n] = b
               /\ \A k \in 1..n : Moves(s[k], c[k - 1], c[k], tally)
  BY DEF Leads
<1>4. PICK d : /\ d[0] = b /\ d[m] = e
               /\ \A k \in 1..m : Moves(t[k], d[k - 1], d[k], tally)
  BY DEF Leads
<1> DEFINE w == s \o t
           g == [k \in 0..n + m |-> IF k <= n THEN c[k] ELSE d[k - n]]
<1> HIDE DEF n, m, w
<1>5. g[0] = a
  BY <1>1, <1>3
<1>6. g[n + m] = e
  <2>1. CASE m = 0
    BY <1>1, <1>3, <1>4, <2>1
  <2>2. CASE m # 0
    <3>1. n + m \in 0..n + m /\ ~(n + m <= n) /\ (n + m) - n = m
      BY <1>1, <2>2
    <3>2. g[n + m] = d[(n + m) - n]
      BY <3>1
    <3> QED
      BY <1>4, <3>1, <3>2
  <2> QED
    BY <2>1, <2>2
<1>7. ASSUME NEW k \in 1..n + m
      PROVE  Moves(w[k], g[k - 1], g[k], tally)
  <2>1. CASE k <= n
    <3>1. k \in 1..n /\ w[k] = s[k] /\ g[k] = c[k] /\ g[k - 1] = c[k - 1]
      BY <1>1, <1>2, <2>1 DEF w
    <3> QED
      BY <1>3, <3>1
  <2>2. CASE k > n
    <3>1. k - n \in 1..m /\ w[k] = t[k - n] /\ g[k] = d[k - n]
      BY <1>1, <1>2, <2>2 DEF w
    <3>2. g[k - 1] = d[k - n - 1]
      <4>1. CASE k = n + 1
        BY <1>1, <1>3, <1>4, <4>1
      <4>2. CASE k # n + 1
        <5>1. k - 1 \in 0..n + m /\ ~(k - 1 <= n) /\ (k - 1) - n = (k - n) - 1
          BY <1>1, <2>2, <4>2
        <5>2. g[k - 1] = d[(k - 1) - n]
          BY <5>1
        <5> QED
          BY <5>1, <5>2
      <4> QED
        BY <4>1, <4>2
    <3> QED
      BY <1>4, <3>1, <3>2
  <2> QED
    BY <1>1, <2>1, <2>2
<1>8. Len(w) = n + m /\ IsSeq(w)
  BY <1>2 DEF w
<1> HIDE DEF g
<1>9. Leads(w, a, e, tally)
  BY <1>5, <1>6, <1>7, <1>8 DEF Leads
<1> QED
  BY <1>9 DEF w

\* After the first step the rest leads on from there.
LEMMA LeadsTail ==
  ASSUME NEW steps, NEW a, NEW b, NEW tally, Leads(steps, a, b, tally), steps # << >>
  PROVE  \E next : Moves(Head(steps), a, next, tally) /\ Leads(Tail(steps), next, b, tally)
<1> DEFINE n == Len(steps)
           rest == Tail(steps)
<1>1. IsSeq(steps)
  BY DEF Leads
<1>2. /\ IsSeq(rest) /\ n \in Nat \ {0} /\ Len(rest) = n - 1 /\ Head(steps) = steps[1]
      /\ \A i \in 1..n - 1 : rest[i] = steps[i + 1]
  BY <1>1, TailIs
<1>3. PICK c : /\ c[0] = a /\ c[n] = b
               /\ \A k \in 1..n : Moves(steps[k], c[k - 1], c[k], tally)
  BY DEF Leads
<1> DEFINE d == [k \in 0..n - 1 |-> c[k + 1]]
<1> HIDE DEF n, rest
<1>4. d[0] = c[1] /\ d[n - 1] = b
  BY <1>2, <1>3
<1>5. ASSUME NEW k \in 1..n - 1
      PROVE  Moves(rest[k], d[k - 1], d[k], tally)
  <2>1. k + 1 \in 1..n /\ rest[k] = steps[k + 1] /\ d[k] = c[k + 1] /\ d[k - 1] = c[k]
    BY <1>2
  <2>2. (k + 1) - 1 = k
    OBVIOUS
  <2>3. Moves(steps[k + 1], c[(k + 1) - 1], c[k + 1], tally)
    BY <1>3, <2>1
  <2> QED
    BY <2>1, <2>2, <2>3
<1> HIDE DEF d
<1>6. Leads(rest, c[1], b, tally)
  BY <1>2, <1>4, <1>5 DEF Leads
<1>7. Moves(steps[1], a, c[1], tally)
  <2>1. 1 \in 1..n /\ 1 - 1 = 0
    BY <1>2
  <2>2. Moves(steps[1], c[1 - 1], c[1], tally)
    BY <1>3, <2>1
  <2> QED
    BY <1>3, <2>1, <2>2
<1> QED
  BY <1>2, <1>6, <1>7 DEF rest

LEMMA LeadsEnd ==
  ASSUME NEW a, NEW b, NEW tally, Leads(<< >>, a, b, tally)
  PROVE  a = b
BY DEF Leads

\* Sequences of steps, each of which leads one part of the way, end to end.
LEMMA LeadsFlat ==
  ASSUME NEW seqs, IsSeq(seqs), NEW tally, NEW at,
         \A i \in 1..Len(seqs) : Leads(seqs[i], at[i - 1], at[i], tally)
  PROVE  Leads(FlattenSeq(seqs), at[0], at[Len(seqs)], tally)
<1> DEFINE n == Len(seqs)
<1>1. n \in Nat
  BY SeqIs
<1>2. CASE n = 0
  <2>1. FlattenSeq(seqs) = seqs
    BY <1>2 DEF FlattenSeq
  <2>2. Leads(seqs, at[0], at[0], tally)
    BY <1>1, <1>2, LeadsNowhere
  <2> QED
    BY <1>2, <2>1, <2>2
<1>3. CASE n # 0
  <2>1. PICK f : Laid(f, seqs) /\ FlattenSeq(seqs) = f[n]
    BY <1>3, FlattenIs
  <2>2. \A i \in 1..n : f[i] = IF i = 1 THEN seqs[i] ELSE f[i - 1] \o seqs[i]
    BY <2>1 DEF Laid
  <2> DEFINE N == {i \in 1..n : ~Leads(f[i], at[0], at[i], tally)}
  <2>3. N = {}
    <3> SUFFICES ASSUME N # {} PROVE FALSE
      OBVIOUS
    <3>1. N \in SUBSET Nat
      BY <1>1
    <3>2. PICK i \in N : \A j \in N : i <= j
      <4> HIDE DEF N
      <4> QED
        BY <3>1, Least
    <3>3. i \in 1..n /\ ~Leads(f[i], at[0], at[i], tally)
      BY <3>2
    <3>4. Leads(seqs[i], at[i - 1], at[i], tally)
      BY <3>3
    <3>5. CASE i = 1
      <4>1. i - 1 = 0 /\ f[i] = seqs[i]
        BY <2>2, <3>3, <3>5
      <4> QED
        BY <3>3, <3>4, <4>1
    <3>6. CASE i # 1
      <4>1. i - 1 \in 1..n /\ i - 1 \notin N
        BY <1>1, <3>2, <3>3, <3>6
      <4>2. Leads(f[i - 1], at[0], at[i - 1], tally)
        BY <4>1
      <4>3. Leads(f[i - 1] \o seqs[i], at[0], at[i], tally)
        BY <3>4, <4>2, LeadsOn
      <4> QED
        BY <2>2, <3>3, <3>6, <4>3
    <3> QED
      BY <3>5, <3>6
  <2> QED
    BY <1>1, <1>3, <2>1, <2>3
<1> QED
  BY <1>2, <1>3

LEMMA LeadsNone ==
  ASSUME NEW n, NEW tally
  PROVE  Leads(<< >>, n, n, tally)
<1>1. IsSeq(<< >>) /\ Len(<< >>) = 0
  <2>1. << >> \in Seq({})
    OBVIOUS
  <2> QED
    BY <2>1, MakesSeq
<1> DEFINE s == << >>
<1>2. IsSeq(s) /\ \A k \in 1..Len(s) : Moves(s[k], n, n, tally)
  BY <1>1
<1> HIDE DEF s
<1>3. Leads(s, n, n, tally)
  BY <1>2, LeadsNowhere
<1> QED
  BY <1>3 DEF s

LEMMA SubIs ==
  ASSUME NEW s, NEW m \in Int, NEW n \in Int
  PROVE  /\ IsSeq(SubSeq(s, m, n))
         /\ Len(SubSeq(s, m, n)) = IF m <= n THEN n - m + 1 ELSE 0
         /\ \A i \in 1..n - m + 1 : SubSeq(s, m, n)[i] = s[m + i - 1]
<1> DEFINE S == {s[i] : i \in m..n}
<1>1. \A i \in m..n : s[i] \in S
  OBVIOUS
<1> DEFINE t == SubSeq(s, m, n)
<1>2. /\ t \in Seq(S)
      /\ Len(t) = IF m <= n THEN n - m + 1 ELSE 0
      /\ \A i \in 1..n - m + 1 : t[i] = s[m + i - 1]
  <2> HIDE DEF S
  <2> QED
    BY <1>1, SubSeqProperties
<1> HIDE DEF S, t
<1>3. IsSeq(t)
  BY <1>2, MakesSeq
<1> QED
  BY <1>2, <1>3 DEF t

LEMMA LeadsTwo ==
  ASSUME NEW first, NEW second, NEW a, NEW b, NEW e, NEW tally,
         Moves(first, a, b, tally), Moves(second, b, e, tally)
  PROVE  Leads(<<first, second>>, a, e, tally)
<1> DEFINE c == [k \in 0..2 |-> IF k = 0 THEN a ELSE IF k = 1 THEN b ELSE e]
           s == <<first, second>>
<1>1. IsSeq(s) /\ Len(s) = 2 /\ s[1] = first /\ s[2] = second
  <2>1. s \in Seq({first, second})
    OBVIOUS
  <2> QED
    BY <2>1, MakesSeq
<1>2. c[0] = a /\ c[1] = b /\ c[2] = e
  OBVIOUS
<1>3. \A k \in 1..2 : (k = 1 /\ k - 1 = 0) \/ (k = 2 /\ k - 1 = 1)
  OBVIOUS
<1> HIDE DEF c, s
<1>4. \A k \in 1..2 : Moves(s[k], c[k - 1], c[k], tally)
  BY <1>1, <1>2, <1>3
<1>5. Leads(s, a, e, tally)
  BY <1>1, <1>2, <1>4 DEF Leads
<1> QED
  BY <1>5 DEF s

-----------------------------------------------------------------------------
(* Sums over a set are taken element by element, in an order nobody knows; what
   they come to does not depend on it. *)

Pick(s) == CHOOSE x \in s : TRUE

\* f sums v over any of these sets.
SumsOver(f, v, sets) ==
  f = [s \in sets |-> IF s = {} THEN 0 ELSE v[Pick(s)] + f[s \ {Pick(s)}]]

LEMMA PickIn ==
  ASSUME NEW s, s # {}
  PROVE  Pick(s) \in s
BY DEF Pick

LEMMA LessOne ==
  ASSUME NEW s, IsFiniteSet(s), NEW x \in s
  PROVE  /\ IsFiniteSet(s \ {x})
         /\ Cardinality(s) \in Nat \ {0}
         /\ Cardinality(s \ {x}) = Cardinality(s) - 1
<1>1. Cardinality(s) \in Nat /\ Cardinality(s) # 0
  BY FS_CardinalityType, FS_EmptySet
<1> QED
  BY <1>1, FS_RemoveElement

LEMMA SumExists ==
  ASSUME NEW D, IsFiniteSet(D), NEW v
  PROVE  \E f : SumsOver(f, v, SUBSET D)
<1> DEFINE small(k) == {s \in SUBSET D : Cardinality(s) <= k}
           N == {k \in Nat : ~ \E f : SumsOver(f, v, small(k))}
<1>1. \A s \in SUBSET D : IsFiniteSet(s) /\ Cardinality(s) \in Nat
  BY FS_Subset, FS_CardinalityType
<1>2. N = {}
  <2> SUFFICES ASSUME N # {} PROVE FALSE
    OBVIOUS
  <2>1. PICK k \in N : \A j \in N : k <= j
    <3>1. N \in SUBSET Nat
      OBVIOUS
    <3> HIDE DEF N
    <3> QED
      BY <3>1, Least
  <2>2. k \in Nat
    BY <2>1
  <2>3. k # 0
    <3> SUFFICES ASSUME k = 0 PROVE FALSE
      OBVIOUS
    <3>1. \A s \in small(0) : s = {}
      BY <1>1, FS_EmptySet
    <3> DEFINE z == [s \in small(0) |-> 0]
    <3>2. SumsOver(z, v, small(0))
      BY <3>1 DEF SumsOver
    <3> QED
      BY <2>1, <3>2
  <2>4. k - 1 \in Nat /\ k - 1 \notin N
    <3> HIDE DEF N
    <3> QED
      BY <2>1, <2>2, <2>3
  <2>5. PICK g : SumsOver(g, v, small(k - 1))
    BY <2>4
  <2> DEFINE h == [s \in small(k) |-> IF s = {} THEN 0 ELSE v[Pick(s)] + g[s \ {Pick(s)}]]
  <2>6. \A s \in small(k) : s # {} => s \ {Pick(s)} \in small(k - 1)
    <3> SUFFICES ASSUME NEW s \in small(k), s # {} PROVE s \ {Pick(s)} \in small(k - 1)
      OBVIOUS
    <3>1. Cardinality(s \ {Pick(s)}) = Cardinality(s) - 1 /\ Cardinality(s) \in Nat
      BY <1>1, PickIn, LessOne
    <3> QED
      BY <2>2, <3>1
  <2>7. \A s \in small(k - 1) : s \in small(k) /\ h[s] = g[s]
    <3> SUFFICES ASSUME NEW s \in small(k - 1) PROVE s \in small(k) /\ h[s] = g[s]
      OBVIOUS
    <3>1. s \in small(k)
      BY <1>1, <2>2
    <3>2. g[s] = IF s = {} THEN 0 ELSE v[Pick(s)] + g[s \ {Pick(s)}]
      <4> HIDE DEF small
      <4> QED
        BY <2>5 DEF SumsOver
    <3>3. h[s] = IF s = {} THEN 0 ELSE v[Pick(s)] + g[s \ {Pick(s)}]
      <4> HIDE DEF small
      <4> QED
        BY <3>1
    <3> QED
      BY <3>1, <3>2, <3>3
  <2>8. SumsOver(h, v, small(k))
    <3> HIDE DEF small
    <3>1. \A s \in small(k) : h[s] = IF s = {} THEN 0 ELSE v[Pick(s)] + h[s \ {Pick(s)}]
      BY <2>6, <2>7
    <3> QED
      BY <3>1 DEF SumsOver
  <2> QED
    BY <2>1, <2>8
<1>3. Cardinality(D) \in Nat
  BY FS_CardinalityType
<1>4. PICK f : SumsOver(f, v, small(Cardinality(D)))
  BY <1>2, <1>3
<1>5. small(Cardinality(D)) = SUBSET D
  BY FS_Subset
<1> QED
  BY <1>4, <1>5

\* f sums these numbers over any part of D.
Sums(f, v, D) ==
  /\ IsFiniteSet(D)
  /\ \A x \in D : v[x] \in Nat
  /\ SumsOver(f, v, SUBSET D)

LEMMA SumIs ==
  ASSUME NEW D, NEW v, NEW f, Sums(f, v, D)
  PROVE  \A s \in SUBSET D : f[s] = IF s = {} THEN 0 ELSE v[Pick(s)] + f[s \ {Pick(s)}]
BY DEF Sums, SumsOver

LEMMA SumType ==
  ASSUME NEW D, NEW v, NEW f, Sums(f, v, D)
  PROVE  \A t \in SUBSET D : f[t] \in Nat
<1> DEFINE N == {k \in Nat : \E s \in SUBSET D : Cardinality(s) = k /\ f[s] \notin Nat}
<1>1. \A s \in SUBSET D : IsFiniteSet(s) /\ Cardinality(s) \in Nat
  BY FS_Subset, FS_CardinalityType DEF Sums
<1>2. N = {}
  <2> SUFFICES ASSUME N # {} PROVE FALSE
    OBVIOUS
  <2>1. PICK k \in N : \A j \in N : k <= j
    <3>1. N \in SUBSET Nat
      OBVIOUS
    <3> HIDE DEF N
    <3> QED
      BY <3>1, Least
  <2>2. PICK s \in SUBSET D : Cardinality(s) = k /\ f[s] \notin Nat
    BY <2>1
  <2>3. s # {} /\ f[s] = v[Pick(s)] + f[s \ {Pick(s)}]
    <3>1. f[s] = IF s = {} THEN 0 ELSE v[Pick(s)] + f[s \ {Pick(s)}]
      BY SumIs
    <3> QED
      BY <2>2, <3>1
  <2>4. /\ Pick(s) \in s /\ Cardinality(s \ {Pick(s)}) = k - 1 /\ k \in Nat \ {0}
        /\ v[Pick(s)] \in Nat
    BY <1>1, <2>2, <2>3, PickIn, LessOne DEF Sums
  <2>5. k - 1 \notin N
    <3> HIDE DEF N
    <3> QED
      BY <2>1, <2>4
  <2>6. f[s \ {Pick(s)}] \in Nat
    BY <2>4, <2>5
  <2> QED
    BY <2>2, <2>3, <2>4, <2>6
<1> QED
  BY <1>1, <1>2

\* As it is of every part of s that lacks one element.
AddsBelow(f, v, s, y) ==
  \A z \in s : /\ f[(s \ {z}) \cup {y}] = f[s \ {z}] + v[y]
               /\ f[(s \ {z}) \cup {z}] = f[s \ {z}] + v[z]

LEMMA SumAddsIf ==
  ASSUME NEW D, NEW v, NEW f, Sums(f, v, D),
         NEW s, s \in SUBSET D, NEW y \in D, y \notin s, AddsBelow(f, v, s, y)
  PROVE  f[s \cup {y}] = f[s] + v[y]
<1>1. PICK u \in SUBSET D : u = s \cup {y}
  OBVIOUS
<1>2. PICK z : z = Pick(u)
  OBVIOUS
<1>3. z \in u
  BY <1>1, <1>2, PickIn
<1>4. f[u] = v[z] + f[u \ {z}]
  <2>1. f[u] = IF u = {} THEN 0 ELSE v[Pick(u)] + f[u \ {Pick(u)}]
    BY SumIs
  <2> QED
    BY <1>2, <1>3, <2>1
<1>5. f[s] \in Nat /\ f[s \ {z}] \in Nat /\ v[y] \in Nat /\ v[z] \in Nat
  <2>1. s \in SUBSET D /\ s \ {z} \in SUBSET D
    OBVIOUS
  <2>2. f[s] \in Nat /\ f[s \ {z}] \in Nat
    BY <2>1, SumType
  <2> QED
    BY <1>1, <1>3, <2>2 DEF Sums
<1>6. CASE z = y
  <2>1. u \ {z} = s
    BY <1>1, <1>6
  <2>2. f[u] = v[y] + f[s]
    BY <1>4, <1>6, <2>1
  <2>3. f[u] = f[s] + v[y]
    BY <1>5, <2>2
  <2> QED
    BY <1>1, <2>3
<1>7. CASE z # y
  <2>1. z \in s
    BY <1>1, <1>3, <1>7
  <2>2. u \ {z} = (s \ {z}) \cup {y}
    BY <1>1, <1>7
  <2>3. s = (s \ {z}) \cup {z}
    BY <2>1
  <2>4. f[u \ {z}] = f[s \ {z}] + v[y]
    BY <2>1, <2>2 DEF AddsBelow
  <2>5. f[s] = f[s \ {z}] + v[z]
    BY <2>1, <2>3 DEF AddsBelow
  <2> QED
    BY <1>1, <1>4, <1>5, <2>4, <2>5
<1> QED
  BY <1>6, <1>7

\* One more element adds its own.
LEMMA SumAdds ==
  ASSUME NEW D, NEW v, NEW f, Sums(f, v, D)
  PROVE  \A t \in SUBSET D : \A x \in D : x \notin t => f[t \cup {x}] = f[t] + v[x]
<1> DEFINE Adds(s, y) == f[s \cup {y}] = f[s] + v[y]
           N == {k \in Nat : \E s \in SUBSET D : /\ Cardinality(s) = k
                                                 /\ \E y \in D : y \notin s /\ ~Adds(s, y)}
<1>1. \A s \in SUBSET D : IsFiniteSet(s) /\ Cardinality(s) \in Nat
  BY FS_Subset, FS_CardinalityType DEF Sums
<1>2. N = {}
  <2> SUFFICES ASSUME N # {} PROVE FALSE
    OBVIOUS
  <2>1. PICK k \in N : \A j \in N : k <= j
    <3>1. N \in SUBSET Nat
      OBVIOUS
    <3> HIDE DEF N
    <3> QED
      BY <3>1, Least
  <2>2. PICK s \in SUBSET D, y \in D : Cardinality(s) = k /\ y \notin s /\ ~Adds(s, y)
    BY <2>1
  <2>3. ASSUME NEW z \in s
        PROVE  Adds(s \ {z}, y) /\ Adds(s \ {z}, z)
    <3>1. Cardinality(s \ {z}) = k - 1 /\ k \in Nat \ {0}
      BY <1>1, <2>2, LessOne
    <3>2. k - 1 \notin N
      <4> HIDE DEF N
      <4> QED
        BY <2>1, <3>1
    <3>3. s \ {z} \in SUBSET D /\ z \in D /\ z \notin s \ {z} /\ y \notin s \ {z}
      BY <2>2
    <3> HIDE DEF Adds
    <3> QED
      BY <3>1, <3>2, <3>3
  <2>4. AddsBelow(f, v, s, y)
    BY <2>3 DEF AddsBelow
  <2>5. y \notin s /\ s \in SUBSET D /\ y \in D
    BY <2>2
  <2>6. f[s \cup {y}] = f[s] + v[y]
    BY <2>4, <2>5, SumAddsIf
  <2> QED
    BY <2>2, <2>6
<1> QED
  BY <1>1, <1>2

LEMMA ImageIsFinite ==
  ASSUME NEW S, IsFiniteSet(S), NEW f, DOMAIN f = S
  PROVE  IsFiniteSet({f[x] : x \in S})
<1> DEFINE T == {f[x] : x \in S}
           g == [x \in S |-> f[x]]
<1>1. g \in Surjection(S, T)
  BY DEF Surjection
<1> HIDE DEF g, T
<1>2. IsFiniteSet(T)
  BY <1>1, FS_Surjection
<1> QED
  BY <1>2 DEF T

-----------------------------------------------------------------------------
(* The timeline of a chain's generation. *)

ToldBy(r) == [of |-> "answer", tokens |-> r.tokens]

\* Device by device.
LEMMA DeviceLeads ==
  ASSUME NEW pass, NEW k, NEW tally, NEW a, NEW b, NEW e,
         IF k = 1 THEN a = b
         ELSE Moves(ChainSend(k - 1, pass[k].sent_bytes, TRUE, Half(pass[k - 1]) + Half(pass[k])),
                    a, b, tally),
         Moves(ChainCompute(k - 1, pass[k].compute_ms), b, e, tally)
  PROVE  Leads(DeviceSteps(pass, k), a, e, tally)
<1> DEFINE send == ChainSend(k - 1, pass[k].sent_bytes, TRUE, Half(pass[k - 1]) + Half(pass[k]))
           compute == ChainCompute(k - 1, pass[k].compute_ms)
           before == IF k = 1 THEN << >> ELSE <<send>>
<1>1. Leads(<<compute>>, b, e, tally)
  BY LeadsOne
<1>2. Leads(before, a, b, tally)
  <2>1. CASE k = 1
    BY <2>1, LeadsNone
  <2>2. CASE k # 1
    <3>1. Moves(send, a, b, tally)
      BY <2>2
    <3>2. Leads(<<send>>, a, b, tally)
      BY <3>1, LeadsOne
    <3> QED
      BY <2>2, <3>2
  <2> QED
    BY <2>1, <2>2
<1>3. DeviceSteps(pass, k) = before \o <<compute>>
  BY DEF DeviceSteps
<1> HIDE DEF before, compute
<1> QED
  BY <1>1, <1>2, <1>3, LeadsOn

\* A pass: in, from device to device, out, and what it found.
LEMMA PassLeads ==
  ASSUME NEW pass, IsSeq(pass), NEW toks, NEW i, NEW tally,
         NEW a, NEW at, NEW b, NEW e,
         Moves(ChainSend(0, pass[1].sent_bytes, FALSE, Half(pass[1])), a, at[0], tally),
         \A k \in 1..Len(pass) : Leads(DeviceSteps(pass, k), at[k - 1], at[k], tally),
         Moves(ChainSend(Len(pass), Last(pass).received_bytes, FALSE, Half(Last(pass))),
               at[Len(pass)], b, tally),
         IF i <= Len(toks) THEN Moves(ChainToken(toks[i]), b, e, tally) ELSE b = e
  PROVE  Leads(ChainPassSteps(pass, toks, i), a, e, tally)
<1> DEFINE first == <<ChainSend(0, pass[1].sent_bytes, FALSE, Half(pass[1]))>>
           each == [k \in DOMAIN pass |-> DeviceSteps(pass, k)]
           middle == FlattenSeq(each)
           last == <<ChainSend(Len(pass), Last(pass).received_bytes, FALSE, Half(Last(pass)))>>
           found == IF i <= Len(toks) THEN <<ChainToken(toks[i])>> ELSE << >>
<1>1. Leads(first, a, at[0], tally)
  BY LeadsOne
<1>2. Leads(middle, at[0], at[Len(pass)], tally)
  <2>1. Len(pass) \in Nat /\ DOMAIN pass = 1..Len(pass)
    BY SeqIs
  <2>2. IsSeq(each) /\ Len(each) = Len(pass)
    BY <2>1, CountedIsSeq
  <2>3. \A k \in 1..Len(each) : Leads(each[k], at[k - 1], at[k], tally)
    BY <2>1, <2>2
  <2> HIDE DEF each
  <2> QED
    BY <2>2, <2>3, LeadsFlat
<1>3. Leads(last, at[Len(pass)], b, tally)
  BY LeadsOne
<1>4. Leads(found, b, e, tally)
  <2>1. CASE i <= Len(toks)
    BY <2>1, LeadsOne
  <2>2. CASE ~(i <= Len(toks))
    BY <2>2, LeadsNone
  <2> QED
    BY <2>1, <2>2
<1>5. ChainPassSteps(pass, toks, i) = ((first \o middle) \o last) \o found
  BY DEF ChainPassSteps
<1> HIDE DEF first, middle, last, found
<1>6. Leads(first \o middle, a, at[Len(pass)], tally)
  BY <1>1, <1>2, LeadsOn
<1>7. Leads((first \o middle) \o last, a, b, tally)
  BY <1>3, <1>6, LeadsOn
<1> QED
  BY <1>4, <1>5, <1>7, LeadsOn

\* The generation, pass by pass.
LEMMA TimelineLeads ==
  ASSUME NEW r, NEW n \in Nat \ {0}, IsSeq(r.hops), NEW tally, NEW at,
         \A i \in 1..Len(Passes(r.hops, n)) :
           Leads(ChainPassSteps(Passes(r.hops, n)[i], r.tokens, i), at[i - 1], at[i], tally)
  PROVE  Leads(ChainTimeline(r, n), at[0], at[Len(Passes(r.hops, n))], tally)
<1> DEFINE passes == Passes(r.hops, n)
           each == [i \in DOMAIN passes |-> ChainPassSteps(passes[i], r.tokens, i)]
           count == (Len(r.hops) + n - 1) \div n
<1>1. count \in Nat
  <2> DEFINE hops == r.hops
             length == Len(hops)
  <2>1. length \in Nat
    <3>1. IsSeq(hops)
      OBVIOUS
    <3> HIDE DEF hops
    <3> QED
      BY <3>1, SeqIs
  <2>2. count = (length + n - 1) \div n
    OBVIOUS
  <2> HIDE DEF length, count
  <2>3. (length + n - 1) \div n \in Nat
    BY <2>1
  <2> QED
    BY <2>2, <2>3
<1>2. DOMAIN passes = 1..count
  BY DEF Passes
<1>3. passes = [i \in 1..count |-> passes[i]]
  BY DEF Passes
<1> HIDE DEF passes, count
<1>4. IsSeq(passes) /\ Len(passes) = count
  BY <1>1, <1>2, <1>3, CountedIsSeq
<1>5. IsSeq(each) /\ Len(each) = count
  BY <1>1, <1>2, CountedIsSeq
<1>6. \A i \in 1..Len(each) : Leads(each[i], at[i - 1], at[i], tally)
  BY <1>2, <1>4, <1>5 DEF passes
<1>7. ChainTimeline(r, n) = FlattenSeq(each)
  BY DEF ChainTimeline, passes
<1> HIDE DEF each
<1>8. Leads(FlattenSeq(each), at[0], at[Len(each)], tally)
  BY <1>5, <1>6, LeadsFlat
<1> QED
  BY <1>4, <1>5, <1>7, <1>8 DEF passes

\* Any pass is a sequence of hops, and a whole one of all the chain's.
LEMMA PassIs ==
  ASSUME NEW hops, IsSeq(hops), NEW n \in Nat \ {0},
         NEW i \in 1..Len(Passes(hops, n))
  PROVE  IsSeq(Passes(hops, n)[i])
<1> DEFINE count == (Len(hops) + n - 1) \div n
           upTo(j) == IF j * n <= Len(hops) THEN j * n ELSE Len(hops)
<1>1. Len(hops) \in Nat /\ count \in Nat
  BY SeqIs
<1>2. Len(Passes(hops, n)) = count
  BY <1>1 DEF Passes
<1>3. Passes(hops, n)[i] = SubSeq(hops, (i - 1) * n + 1, upTo(i))
  BY <1>2 DEF Passes
<1>4. (i - 1) * n + 1 \in Int /\ upTo(i) \in Int
  BY <1>1, <1>2
<1> HIDE DEF upTo
<1> QED
  BY <1>3, <1>4, SubIs

AreWhole(hops, n, p) ==
  /\ Len(Passes(hops, n)) = p
  /\ \A i \in 1..p :
       /\ Len(Passes(hops, n)[i]) = n
       /\ \A k \in 1..n : /\ (i - 1) * n + k \in 1..Len(hops)
                          /\ Passes(hops, n)[i][k] = hops[(i - 1) * n + k]

LEMMA WholePass ==
  ASSUME NEW hops, IsSeq(hops), NEW n \in Nat \ {0}, NEW p \in Nat, Len(hops) = p * n
  PROVE  AreWhole(hops, n, p)
<1> DEFINE count == (Len(hops) + n - 1) \div n
           upTo(j) == IF j * n <= Len(hops) THEN j * n ELSE Len(hops)
<1>1. count = p
  OBVIOUS
<1>2. Len(Passes(hops, n)) = p
  BY <1>1 DEF Passes
<1>3. ASSUME NEW i \in 1..p
      PROVE  /\ Len(Passes(hops, n)[i]) = n
             /\ \A k \in 1..n : /\ (i - 1) * n + k \in 1..Len(hops)
                                /\ Passes(hops, n)[i][k] = hops[(i - 1) * n + k]
  <2> DEFINE z == (i - 1) * n
  <2>1. z \in Nat /\ i * n = z + n /\ i * n <= p * n
    <3>1. (i - 1) * n >= 0 /\ (p - i) * n >= 0
      OBVIOUS
    <3>2. i * n = (i - 1) * n + n /\ p * n = i * n + (p - i) * n
      OBVIOUS
    <3>3. i * n \in Int /\ p * n \in Int /\ (p - i) * n \in Int /\ (i - 1) * n \in Int
      OBVIOUS
    <3> QED
      BY <3>1, <3>2, <3>3
  <2>2. upTo(i) = z + n
    BY <2>1
  <2>3. Passes(hops, n)[i] = SubSeq(hops, z + 1, z + n)
    BY <1>1, <2>2 DEF Passes
  <2> HIDE DEF z
  <2>4. /\ Len(SubSeq(hops, z + 1, z + n)) = n
        /\ \A k \in 1..n : SubSeq(hops, z + 1, z + n)[k] = hops[z + k]
    <3>1. z + 1 \in Int /\ z + n \in Int /\ z + 1 <= z + n /\ (z + n) - (z + 1) + 1 = n
      BY <2>1
    <3>2. \A k \in 1..n : (z + 1) + k - 1 = z + k
      BY <2>1
    <3> QED
      BY <3>1, <3>2, SubIs
  <2>5. \A k \in 1..n : z + k \in 1..Len(hops)
    BY <2>1
  <2> QED
    BY <2>3, <2>4, <2>5 DEF z
<1> QED
  BY <1>2, <1>3 DEF AreWhole

\* The timeline tells the answer from its first token on, and, laid out for the
\* chain that gave it, all of it.
LEMMA ChainTells ==
  ASSUME NEW r, NEW m \in Nat \ {0}, IsGeneration(r, m), NEW n \in Nat \ {0}
  PROVE  \E e : /\ Leads(ChainTimeline(r, n), 0, e, ToldBy(r))
                /\ n = m => e = Len(r.tokens)
<1> DEFINE toks == r.tokens
           tally == ToldBy(r)
           passes == Passes(r.hops, n)
           least(i) == IF i <= Len(toks) THEN i ELSE Len(toks)
           at == [i \in 0..Len(passes) |-> least(i)]
<1>1. /\ IsSeq(r.hops) /\ IsSeq(toks) /\ Len(toks) \in Nat
      /\ \E p \in Len(toks)..Len(r.hops) : p > 0 /\ Len(r.hops) = p * m
  BY SeqIs DEF IsGeneration, IsSeq
<1>2. Len(passes) \in Nat
  BY <1>1, SeqIs DEF Passes
<1>3. ASSUME NEW i \in 1..Len(passes)
      PROVE  Leads(ChainPassSteps(passes[i], toks, i), at[i - 1], at[i], tally)
  <2> DEFINE b == at[i - 1]
             e == at[i]
             pass == passes[i]
             here == [k \in 0..Len(pass) |-> b]
  <2>1. IsSeq(pass) /\ Len(pass) \in Nat
    BY <1>1, PassIs, SeqIs
  <2>2. here[0] = b /\ here[Len(pass)] = b
        /\ \A k \in 1..Len(pass) : here[k] = b /\ here[k - 1] = b
    BY <2>1
  <2>3. /\ i - 1 \in 0..Len(passes) /\ i \in 0..Len(passes)
        /\ b = least(i - 1) /\ e = least(i)
    BY <1>2
  <2>4. IF i <= Len(toks) THEN Moves(ChainToken(toks[i]), b, e, tally) ELSE b = e
    BY <1>1, <1>2, <2>3 DEF Moves, ChainToken, ToldBy
  <2> HIDE DEF here, pass, b, e
  <2>5. \A l, bytes, between, ms : Moves(ChainSend(l, bytes, between, ms), b, b, tally)
    BY DEF Moves, ChainSend, ToldBy
  <2>6. \A x, ms : Moves(ChainCompute(x, ms), b, b, tally)
    BY DEF Moves, ChainCompute, ToldBy
  <2>7. \A k \in 1..Len(pass) : Leads(DeviceSteps(pass, k), here[k - 1], here[k], tally)
    BY <2>2, <2>5, <2>6, DeviceLeads
  <2> QED
    BY <2>1, <2>2, <2>4, <2>5, <2>7, PassLeads DEF pass, b, e
<1>4. Leads(ChainTimeline(r, n), at[0], at[Len(passes)], tally)
  <2> HIDE DEF at
  <2> QED
    BY <1>1, <1>3, TimelineLeads
<1>5. at[0] = 0
  BY <1>1, <1>2
<1>6. n = m => at[Len(passes)] = Len(toks)
  <2> SUFFICES ASSUME n = m PROVE at[Len(passes)] = Len(toks)
    OBVIOUS
  <2>1. PICK p \in Len(toks)..Len(r.hops) : p > 0 /\ Len(r.hops) = p * m
    BY <1>1
  <2>2. p \in Nat
    BY <1>1, <2>1
  <2>3. Len(passes) = p
    <3> DEFINE hops == r.hops
    <3>1. IsSeq(hops) /\ Len(hops) = p * n
      BY <1>1, <2>1
    <3> HIDE DEF hops
    <3>2. AreWhole(hops, n, p)
      BY <2>2, <3>1, WholePass
    <3> QED
      BY <3>2 DEF hops, AreWhole
  <2> HIDE DEF passes
  <2> QED
    BY <1>1, <2>1, <2>2, <2>3
<1> QED
  BY <1>4, <1>5, <1>6

\* What is told so far is the beginning of this.
Told(said, all) ==
  /\ IsSeq(said)
  /\ Len(said) <= Len(all)
  /\ \A i \in 1..Len(said) : said[i] = all[i]

LEMMA SameSeq ==
  ASSUME NEW s, NEW t, IsSeq(s), IsSeq(t), Len(s) = Len(t),
         \A i \in 1..Len(s) : s[i] = t[i]
  PROVE  s = t
<1>1. s = [i \in 1..Len(s) |-> s[i]] /\ t = [i \in 1..Len(t) |-> t[i]]
  BY DEF IsSeq
<1> QED
  BY <1>1

LEMMA ToldIsPrefix ==
  ASSUME NEW s, NEW t, Told(s, t)
  PROVE  IsPrefix(s, t)
<1> DEFINE n == Len(s)
           u == SubSeq(s, 1, n)
           v == SubSeq(t, 1, n)
<1>1. IsSeq(s) /\ n \in Nat /\ \A i \in 1..n : s[i] = t[i]
  BY SeqIs DEF Told
<1>2. IsSeq(u) /\ Len(u) = n /\ \A i \in 1..n : u[i] = s[i]
  <2>1. /\ IsSeq(u) /\ Len(u) = IF 1 <= n THEN n - 1 + 1 ELSE 0
        /\ \A i \in 1..n - 1 + 1 : u[i] = s[1 + i - 1]
    <3> HIDE DEF n
    <3> QED
      BY <1>1, SubIs
  <2>2. n - 1 + 1 = n /\ \A i \in 1..n : 1 + i - 1 = i
    BY <1>1
  <2> HIDE DEF n, u
  <2> QED
    BY <1>1, <2>1, <2>2
<1>3. IsSeq(v) /\ Len(v) = n /\ \A i \in 1..n : v[i] = t[i]
  <2>1. /\ IsSeq(v) /\ Len(v) = IF 1 <= n THEN n - 1 + 1 ELSE 0
        /\ \A i \in 1..n - 1 + 1 : v[i] = t[1 + i - 1]
    <3> HIDE DEF n
    <3> QED
      BY <1>1, SubIs
  <2>2. n - 1 + 1 = n /\ \A i \in 1..n : 1 + i - 1 = i
    BY <1>1
  <2> HIDE DEF n, v
  <2> QED
    BY <1>1, <2>1, <2>2
<1>4. u = v
  <2> HIDE DEF n, u, v
  <2> QED
    BY <1>1, <1>2, <1>3, SameSeq
<1> QED
  BY <1>4 DEF IsPrefix, Told

LEMMA ToldNothing ==
  ASSUME NEW all, Len(all) \in Nat
  PROVE  Told(<< >>, all) /\ Len(<< >>) = 0
<1>1. << >> \in Seq({})
  OBVIOUS
<1>2. IsSeq(<< >>)
  BY <1>1, MakesSeq
<1> QED
  BY <1>2 DEF Told

LEMMA ToldOneMore ==
  ASSUME NEW said, NEW all, Told(said, all), NEW next,
         Len(said) + 1 <= Len(all), next = all[Len(said) + 1]
  PROVE  Told(Append(said, next), all) /\ Len(Append(said, next)) = Len(said) + 1
<1> DEFINE S == Range(said) \cup {next}
           more == Append(said, next)
           n == Len(said)
<1>1. IsSeq(said) /\ n \in Nat /\ \A i \in 1..n : said[i] = all[i]
  BY SeqIs DEF Told
<1>2. said \in Seq(S) /\ next \in S
  BY <1>1, SeqMonotonic DEF IsSeq
<1>3. more \in Seq(S) /\ Len(more) = n + 1 /\ more[n + 1] = next
      /\ \A i \in 1..n : more[i] = said[i]
  <2> HIDE DEF S
  <2> QED
    BY <1>2, AppendProperties
<1> HIDE DEF S, more, n
<1>4. IsSeq(more)
  BY <1>3, MakesSeq
<1>5. \A i \in 1..n + 1 : more[i] = all[i]
  BY <1>1, <1>3 DEF n
<1> QED
  BY <1>3, <1>4, <1>5 DEF Told, more, n

-----------------------------------------------------------------------------
(* The page of two devices. *)

ChainShapes ==
  /\ chainRun \in 0..3
  /\ chainPlay = [i \in Replays |-> [id |-> chainPlay[i].id, steps |-> chainPlay[i].steps]]

\* At most one replay is in charge, and while no replay is shown none is: what
\* a question finds still asleep is of the run just before it.
ChainOne ==
  /\ \A i, j \in Replays : InChargeOf(i) /\ InChargeOf(j) => i = j
  /\ chainPhase # "playing" => \A i \in Replays : ~InChargeOf(i)
  /\ chainPhase = "waiting" =>
       \A i \in Replays : chainPlay[i].id = 4 \/ (chainPlay[i].id + 1) % 4 = chainRun
  /\ \A i \in Replays : chainPlay[i].id \in 0..4

\* What is on the stage was told by the result, and the steps that are left
\* tell the rest.
ChainTelling ==
  /\ chainPhase \in {"playing", "done"} =>
       \E r \in Answers : /\ chainResult = <<r>>
                          /\ r.prompt = chainAsked
                          /\ Told(chainTokens, r.tokens)
  /\ chainPhase = "playing" =>
       \A i \in Replays : InChargeOf(i) =>
         \E e : Leads(chainPlay[i].steps, Len(chainTokens), e, ToldBy(chainResult[1]))
  /\ chainPhase = "waiting" => chainTokens = <<>>

ChainInv == ChainShapes /\ ChainOne /\ ChainTelling

LEMMA NextChainRunIsAnother ==
  ASSUME chainRun \in 0..3
  PROVE  /\ NextChainRun \in 0..3 /\ NextChainRun # chainRun /\ NextChainRun # 4
         /\ \A id \in 0..3 : (id + 1) % 4 = chainRun => id # NextChainRun
BY DEF NextChainRun

\* A replay begins: the one in charge from now on tells the answer from its
\* beginning.
LEMMA BeginKeeps ==
  ASSUME ChainInv, NEW r \in Answers, r.prompt = chainAsked, NEW shards \in Nat \ {0},
         chainPhase = "waiting" \/ (chainPhase = "done" /\ Settled),
         BeginPlay(r, shards), chainResult' = <<r>>, UNCHANGED chainAsked
  PROVE  ChainInv'
<1>1. PICK free \in Replays :
        chainPlay' = [chainPlay EXCEPT ![free] =
                        [id |-> NextChainRun, steps |-> ChainTimeline(r, shards)]]
  BY DEF BeginPlay
<1>2. /\ chainRun' = NextChainRun /\ chainTokens' = <<>> /\ chainPhase' = "playing"
  BY DEF BeginPlay, ResetStage
<1>3. ChainShapes'
  BY <1>1, <1>2, NextChainRunIsAnother DEF ChainInv, ChainShapes
<1>4. /\ chainPlay'[free] = [id |-> NextChainRun, steps |-> ChainTimeline(r, shards)]
      /\ \A i \in Replays \ {free} : chainPlay'[i] = chainPlay[i]
  BY <1>1 DEF ChainInv, ChainShapes
<1>5. \A i \in Replays : chainPlay[i].id # NextChainRun
  <2> SUFFICES ASSUME NEW i \in Replays PROVE chainPlay[i].id # NextChainRun
    OBVIOUS
  <2>1. CASE chainPhase = "waiting"
    BY <2>1, NextChainRunIsAnother DEF ChainInv, ChainShapes, ChainOne
  <2>2. CASE chainPhase = "done" /\ Settled
    BY <2>2, NextChainRunIsAnother DEF ChainInv, ChainShapes, ChainOne, Settled, NoReplay, InChargeOf
  <2> QED
    BY <2>1, <2>2
<1>6. \A i \in Replays : InChargeOf(i)' <=> i = free
  BY <1>2, <1>4, <1>5 DEF InChargeOf
<1>7. ChainOne'
  <2>1. \A i \in Replays : chainPlay'[i].id \in 0..4
    <3>1. chainPlay'[free].id \in 0..4
      <4>1. chainPlay'[free].id = NextChainRun
        BY <1>4
      <4> QED
        BY <4>1, NextChainRunIsAnother DEF ChainInv, ChainShapes
    <3>2. \A i \in Replays \ {free} : chainPlay'[i].id = chainPlay[i].id
      BY <1>4
    <3> QED
      BY <3>1, <3>2 DEF ChainInv, ChainOne
  <2> QED
    BY <1>2, <1>6, <2>1 DEF ChainOne
<1>8. ChainTelling'
  <2>1. IsGeneration(r, NumShards) /\ NumShards \in Nat \ {0}
    BY TwoDevicesAssumption
  <2>2. PICK e : Leads(ChainTimeline(r, shards), 0, e, ToldBy(r))
    BY <2>1, ChainTells
  <2>3. Len(r.tokens) \in Nat
    BY <2>1, SeqIs DEF IsGeneration, IsSeq
  <2>4. Told(<< >>, r.tokens) /\ Len(<< >>) = 0
    BY <2>3, ToldNothing
  <2>5. chainResult'[1] = r
    OBVIOUS
  <2> QED
    BY <1>2, <1>4, <1>6, <2>2, <2>4, <2>5 DEF ChainTelling
<1> QED
  BY <1>3, <1>7, <1>8 DEF ChainInv

LEMMA ChainStepKeeps ==
  ASSUME ChainInv, NEW i \in Replays, ChainShowStep(i)
  PROVE  ChainInv'
<1> DEFINE steps == chainPlay[i].steps
           tally == ToldBy(chainResult[1])
<1>1. /\ InChargeOf(i) /\ steps # << >>
      /\ chainPlay' = [chainPlay EXCEPT ![i].steps = Tail(@)]
      /\ UNCHANGED <<chainPhase, chainAsked, chainResult, chainRun>>
  BY DEF ChainShowStep
<1>2. chainPhase = "playing"
  BY <1>1 DEF ChainInv, ChainOne
<1>3. /\ ChainShapes'
      /\ chainPlay'[i] = [id |-> chainPlay[i].id, steps |-> Tail(steps)]
      /\ \A j \in Replays \ {i} : chainPlay'[j] = chainPlay[j]
  <2> DEFINE rest == [id |-> chainPlay[i].id, steps |-> Tail(steps)]
  <2>1. chainPlay[i] = [id |-> chainPlay[i].id, steps |-> steps]
    BY DEF ChainInv, ChainShapes
  <2>2. [chainPlay[i] EXCEPT !.steps = Tail(@)] = rest
    <3>1. \A id, all, left : [[id |-> id, steps |-> all] EXCEPT !.steps = left]
                               = [id |-> id, steps |-> left]
      OBVIOUS
    <3>2. PICK id, all : chainPlay[i] = [id |-> id, steps |-> all]
      BY <2>1
    <3>3. chainPlay[i].id = id /\ chainPlay[i].steps = all
      BY <3>2
    <3>4. [[id |-> id, steps |-> all] EXCEPT !.steps = Tail(all)] = [id |-> id, steps |-> Tail(all)]
      BY <3>1
    <3> QED
      BY <3>2, <3>3, <3>4
  <2>3. chainPlay' = [chainPlay EXCEPT ![i] = rest]
    BY <1>1, <2>2
  <2>4. chainPlay'[i] = rest /\ \A j \in Replays \ {i} : chainPlay'[j] = chainPlay[j]
    BY <2>3 DEF ChainInv, ChainShapes
  <2>5. chainPlay' = [j \in Replays |-> IF j = i THEN rest ELSE chainPlay[j]]
    BY <2>3 DEF ChainInv, ChainShapes
  <2>6. \A j \in Replays : chainPlay'[j] = [id |-> chainPlay'[j].id, steps |-> chainPlay'[j].steps]
    BY <2>4 DEF ChainInv, ChainShapes
  <2>7. chainPlay' = [j \in Replays |-> chainPlay'[j]]
    BY <2>5
  <2>8. ChainShapes'
    BY <1>1, <2>6, <2>7 DEF ChainInv, ChainShapes
  <2> QED
    BY <2>4, <2>8
<1>4. \A j \in Replays : InChargeOf(j)' <=> InChargeOf(j)
  BY <1>1, <1>3 DEF InChargeOf
<1>5. \A j \in Replays : InChargeOf(j) => j = i
  BY <1>1 DEF ChainInv, ChainOne
<1>6. ChainOne'
  BY <1>1, <1>2, <1>3, <1>4, <1>5 DEF ChainInv, ChainOne
<1>7. PICK r \in Answers : chainResult = <<r>> /\ r.prompt = chainAsked /\ Told(chainTokens, r.tokens)
  BY <1>2 DEF ChainInv, ChainTelling
<1>8. chainResult[1] = r
  BY <1>7
<1>9. PICK e : Leads(steps, Len(chainTokens), e, tally)
  BY <1>1, <1>2 DEF ChainInv, ChainTelling
<1>10. PICK next : Moves(Head(steps), Len(chainTokens), next, tally) /\ Leads(Tail(steps), next, e, tally)
  <2> HIDE DEF steps, tally
  <2> QED
    BY <1>1, <1>9, LeadsTail
<1>11. Told(chainTokens', r.tokens) /\ Len(chainTokens') = next
  <2>1. tally.of = "answer" /\ tally.tokens = r.tokens
    BY <1>8 DEF ToldBy
  <2>2. CASE Head(steps).kind = "token"
    <3>1. chainTokens' = Append(chainTokens, Head(steps).text)
      BY <2>2 DEF ChainShowStep
    <3>2. /\ next = Len(chainTokens) + 1
          /\ next <= Len(r.tokens)
          /\ Head(steps).text = r.tokens[next]
      BY <1>10, <2>1, <2>2 DEF Moves
    <3> HIDE DEF steps
    <3> QED
      BY <1>7, <3>1, <3>2, ToldOneMore
  <2>3. CASE Head(steps).kind # "token"
    <3>1. chainTokens' = chainTokens
      BY <2>3 DEF ChainShowStep
    <3>2. next = Len(chainTokens)
      BY <1>10, <2>1, <2>3 DEF Moves
    <3> QED
      BY <1>7, <3>1, <3>2
  <2> QED
    BY <2>2, <2>3
<1>12. ChainTelling'
  <2>1. \A j \in Replays : InChargeOf(j)' =>
          Leads(chainPlay'[j].steps, Len(chainTokens'), e, ToldBy(chainResult'[1]))
    BY <1>1, <1>3, <1>4, <1>5, <1>10, <1>11
  <2> QED
    BY <1>1, <1>2, <1>7, <1>11, <2>1 DEF ChainTelling
<1> QED
  BY <1>3, <1>6, <1>12 DEF ChainInv

LEMMA ChainKeeps ==
  ASSUME ChainInv, ChainNext
  PROVE  ChainInv'
<1>1. CASE TopologyAnswered \/ Retry
  <2>1. UNCHANGED <<chainPhase, chainAsked, chainResult, chainRun, chainTokens, chainPlay>>
    BY <1>1 DEF TopologyAnswered, Retry, chainStage
  <2> QED
    BY <2>1 DEF ChainInv, ChainShapes, ChainOne, ChainTelling, InChargeOf
<1>2. ASSUME NEW q \in Questions, RunChain(q) PROVE ChainInv'
  <2>1. /\ chainRun' = NextChainRun /\ chainTokens' = <<>> /\ chainPhase' = "waiting"
        /\ UNCHANGED chainPlay
        /\ \A i \in Replays : chainPlay[i].id = 4 \/ chainPlay[i].id = chainRun
    BY <1>2 DEF RunChain, ResetStage, Settled, NoReplay, InChargeOf
  <2>2. ChainShapes'
    BY <2>1, NextChainRunIsAnother DEF ChainInv, ChainShapes
  <2>3. ChainOne'
    <3>1. \A i \in Replays : chainPlay[i].id # NextChainRun
      BY <2>1, NextChainRunIsAnother DEF ChainInv, ChainShapes
    <3>2. \A i \in Replays : chainPlay[i].id = 4 \/ (chainPlay[i].id + 1) % 4 = NextChainRun
      BY <2>1 DEF NextChainRun
    <3> QED
      BY <2>1, <3>1, <3>2 DEF ChainInv, ChainOne, InChargeOf
  <2>4. ChainTelling'
    BY <2>1 DEF ChainTelling
  <2> QED
    BY <2>2, <2>3, <2>4 DEF ChainInv
<1>3. CASE GenerationArrives
  <2>1. PICK r \in Answers : /\ r.prompt = chainAsked /\ chainResult' = <<r>>
                             /\ BeginPlay(r, NumShards)
    BY <1>3 DEF GenerationArrives
  <2>2. chainPhase = "waiting" /\ UNCHANGED chainAsked
    BY <1>3 DEF GenerationArrives
  <2> QED
    BY <2>1, <2>2, BeginKeeps, TwoDevicesAssumption
<1>4. CASE GenerationFails
  <2>1. /\ chainPhase = "waiting" /\ chainPhase' = "idle"
        /\ UNCHANGED <<chainAsked, chainResult, chainRun, chainTokens, chainPlay>>
    BY <1>4 DEF GenerationFails, chainStage
  <2> QED
    BY <2>1 DEF ChainInv, ChainShapes, ChainOne, ChainTelling, InChargeOf
<1>5. CASE ReplayAgain
  <2>1. chainPhase = "done" /\ Settled /\ UNCHANGED <<chainAsked, chainResult>>
    BY <1>5 DEF ReplayAgain
  <2>2. PICK r \in Answers : chainResult = <<r>> /\ r.prompt = chainAsked
    BY <2>1 DEF ChainInv, ChainTelling
  <2>3. BeginPlay(r, Shards)
    BY <1>5, <2>2 DEF ReplayAgain
  <2>4. Shards \in Nat \ {0}
    BY TwoDevicesAssumption DEF Shards
  <2> QED
    BY <2>1, <2>2, <2>3, <2>4, BeginKeeps
<1>6. ASSUME NEW i \in Replays, ChainShowStep(i) PROVE ChainInv'
  BY <1>6, ChainStepKeeps
<1>7. ASSUME NEW i \in Replays, ChainCancelled(i) \/ ChainPlayEnds(i) PROVE ChainInv'
  <2>1. /\ chainPlay' = [chainPlay EXCEPT ![i] = NoReplay]
        /\ UNCHANGED <<chainAsked, chainResult, chainRun, chainTokens>>
    BY <1>7 DEF ChainCancelled, ChainPlayEnds, chainStage
  <2>2. /\ ChainShapes'
        /\ chainPlay'[i].id = 4
        /\ \A j \in Replays \ {i} : chainPlay'[j] = chainPlay[j]
    BY <2>1 DEF ChainInv, ChainShapes, NoReplay
  <2>3. \A j \in Replays : InChargeOf(j)' <=> j # i /\ InChargeOf(j)
    BY <2>1, <2>2 DEF InChargeOf, ChainInv, ChainShapes
  <2>4. CASE ChainCancelled(i)
    <3>1. UNCHANGED chainPhase
      BY <2>4 DEF ChainCancelled
    <3>2. ChainOne'
      BY <2>1, <2>2, <2>3, <3>1 DEF ChainInv, ChainOne
    <3>3. ChainTelling'
      BY <2>1, <2>2, <2>3, <3>1 DEF ChainInv, ChainTelling
    <3> QED
      BY <2>2, <3>2, <3>3 DEF ChainInv
  <2>5. CASE ChainPlayEnds(i)
    <3>1. chainPhase' = "done" /\ InChargeOf(i)
      BY <2>5 DEF ChainPlayEnds
    <3>2. chainPhase = "playing" /\ \A j \in Replays : InChargeOf(j) => j = i
      BY <3>1 DEF ChainInv, ChainOne
    <3>3. ChainOne'
      BY <2>2, <2>3, <3>1, <3>2 DEF ChainInv, ChainOne
    <3>4. ChainTelling'
      BY <2>1, <3>1, <3>2 DEF ChainInv, ChainTelling
    <3> QED
      BY <2>2, <3>3, <3>4 DEF ChainInv
  <2> QED
    BY <1>7, <2>4, <2>5
<1> QED
  BY <1>1, <1>2, <1>3, <1>4, <1>5, <1>6, <1>7 DEF ChainNext, ChainCallEnds, ChainPlayStep

LEMMA ChainStarts == ChainInit => ChainInv
<1> SUFFICES ASSUME ChainInit PROVE ChainInv
  OBVIOUS
<1>1. /\ chainPhase = "idle" /\ chainRun = 0
      /\ chainPlay = [i \in Replays |-> [id |-> 4, steps |-> <<>>]]
  BY DEF ChainInit, NoReplay
<1>2. ChainShapes
  BY <1>1 DEF ChainShapes
<1>3. ChainOne
  BY <1>1 DEF ChainOne, InChargeOf
<1>4. ChainTelling
  BY <1>1 DEF ChainTelling
<1> QED
  BY <1>2, <1>3, <1>4 DEF ChainInv

\* On the page of two devices the answer on the stage is the answer to the
\* question above it, for a chain of any length and any results, however often
\* the user asked, failed, replayed or left the page (two-devices/page.tsx, run
\* and play).
THEOREM ChainAnswers == SiteSpec => []ChainAnswersWhatWasAsked
<1>1. SiteInit => ChainInv
  BY ChainStarts DEF SiteInit
<1>2. ChainInv /\ [SiteNext]_siteVars => ChainInv'
  <2> SUFFICES ASSUME ChainInv, [SiteNext]_siteVars PROVE ChainInv'
    OBVIOUS
  <2>1. CASE OnPoolPage \/ OnDetails \/ UNCHANGED siteVars
    <3>1. UNCHANGED <<chainPhase, chainAsked, chainResult, chainRun, chainTokens, chainPlay>>
      BY <2>1 DEF OnPoolPage, OnDetails, PoolPageOpen, DetailsOpen, siteVars, chainVars, chainStage
    <3> QED
      BY <3>1 DEF ChainInv, ChainShapes, ChainOne, ChainTelling, InChargeOf
  <2>2. CASE OnTwoDevices
    <3>1. ChainNext
      BY <2>2 DEF OnTwoDevices, ChainNext, ChainCallEnds, ChainPlayStep
    <3> QED
      BY <3>1, ChainKeeps
  <2>3. ASSUME NEW to \in {"/", "/two-devices", "/details"}, Follow(to) PROVE ChainInv'
    <3>1. /\ chainPhase' = "idle" /\ chainRun' = 0
          /\ chainPlay' = [i \in Replays |-> [id |-> 4, steps |-> <<>>]]
      BY <2>3 DEF Follow, ChainMounts, NoReplay
    <3>2. ChainShapes'
      BY <3>1 DEF ChainShapes
    <3>3. ChainOne'
      BY <3>1 DEF ChainOne, InChargeOf
    <3>4. ChainTelling'
      BY <3>1 DEF ChainTelling
    <3> QED
      BY <3>2, <3>3, <3>4 DEF ChainInv
  <2> QED
    BY <2>1, <2>2, <2>3 DEF SiteNext
<1>3. ChainInv => ChainAnswersWhatWasAsked
  BY ToldIsPrefix DEF ChainInv, ChainTelling, ChainAnswersWhatWasAsked
<1> QED
  BY <1>1, <1>2, <1>3, PTL DEF SiteSpec

-----------------------------------------------------------------------------
(* The timeline of a pool's answer. *)

\* The events of these, in the order they were noted.
LEMMA StepsOfLeads ==
  ASSUME NEW these, NEW each, NEW n \in Nat, DOMAIN each = 1..n, NEW tally, NEW at,
         \A j \in 1..n : IF j \in these THEN Leads(each[j], at[j - 1], at[j], tally)
                                        ELSE at[j - 1] = at[j]
  PROVE  Leads(StepsOf(these, each), at[0], at[n], tally)
<1> DEFINE seqs == [j \in DOMAIN each |-> IF j \in these THEN each[j] ELSE << >>]
<1>1. IsSeq(seqs) /\ Len(seqs) = n
  BY CountedIsSeq
<1>2. ASSUME NEW j \in 1..n PROVE Leads(seqs[j], at[j - 1], at[j], tally)
  <2>1. CASE j \in these
    BY <2>1
  <2>2. CASE j \notin these
    <3>1. seqs[j] = << >> /\ at[j - 1] = at[j]
      BY <2>2
    <3> QED
      BY <3>1, LeadsNone
  <2> QED
    BY <2>1, <2>2
<1>3. StepsOf(these, each) = FlattenSeq(seqs)
  BY DEF StepsOf
<1> HIDE DEF seqs
<1> QED
  BY <1>1, <1>2, <1>3, LeadsFlat

\* A pass: what was lost before it, its hops, and what came back.
LEMMA PoolPassLeads ==
  ASSUME NEW r, NEW i, IsSeq(r.events), IsSeq(r.passes[i].hops), NEW tally,
         NEW lose, NEW work, NEW e,
         \A j \in 1..Len(r.events) :
           IF j \in EventsAt(r, i - 1)
             THEN Leads(AttemptSteps(r, i, r.events[j]), lose[j - 1], lose[j], tally)
             ELSE lose[j - 1] = lose[j],
         work[0] = lose[Len(r.events)],
         \A k \in 1..Len(r.passes[i].hops) :
           Leads(HopSteps(r.passes[i], k), work[k - 1], work[k], tally),
         Leads(ReturnSteps(r, i), work[Len(r.passes[i].hops)], e, tally),
         \A route : Moves(Recovered(route), e, e, tally)
  PROVE  Leads(PassSteps(r, i), lose[0], e, tally)
<1> DEFINE events == r.events
           pass == r.passes[i]
           hops == pass.hops
           recoveries == {j \in EventsAt(r, i) : events[j].kind = "recovered"}
           attempts == [j \in DOMAIN events |-> AttemptSteps(r, i, events[j])]
           told == [j \in DOMAIN events |-> <<Recovered(pass.route)>>]
           each == [k \in DOMAIN hops |-> HopSteps(pass, k)]
           first == StepsOf(EventsAt(r, i - 1), attempts)
           middle == FlattenSeq(each)
           last == StepsOf(recoveries, told)
<1>1. /\ Len(events) \in Nat /\ DOMAIN events = 1..Len(events)
      /\ Len(hops) \in Nat /\ DOMAIN hops = 1..Len(hops)
  <2>1. IsSeq(events) /\ IsSeq(hops)
    OBVIOUS
  <2> HIDE DEF events, hops
  <2> QED
    BY <2>1, SeqIs
<1>2. Leads(first, lose[0], lose[Len(events)], tally)
  <2>1. /\ DOMAIN attempts = 1..Len(events)
        /\ \A j \in 1..Len(events) : attempts[j] = AttemptSteps(r, i, events[j])
    BY <1>1
  <2> DEFINE n == Len(events)
             these == EventsAt(r, i - 1)
  <2>2. \A j \in 1..n : IF j \in these THEN Leads(attempts[j], lose[j - 1], lose[j], tally)
                                        ELSE lose[j - 1] = lose[j]
    BY <2>1
  <2>3. n \in Nat /\ DOMAIN attempts = 1..n
    BY <1>1
  <2> HIDE DEF attempts, n, these
  <2> QED
    BY <2>2, <2>3, StepsOfLeads DEF n, these
<1>3. Leads(middle, work[0], work[Len(hops)], tally)
  <2>1. IsSeq(each) /\ Len(each) = Len(hops)
    BY <1>1, CountedIsSeq
  <2>2. \A k \in 1..Len(each) : Leads(each[k], work[k - 1], work[k], tally)
    BY <1>1, <2>1
  <2> HIDE DEF each
  <2>3. Leads(FlattenSeq(each), work[0], work[Len(each)], tally)
    BY <2>1, <2>2, LeadsFlat
  <2> QED
    BY <2>1, <2>3
<1>4. Leads(last, e, e, tally)
  <2> DEFINE n == Len(events)
             still == [j \in 0..n |-> e]
  <2>1. /\ n \in Nat /\ DOMAIN told = 1..n
        /\ \A j \in 1..n : told[j] = <<Recovered(pass.route)>>
        /\ still[0] = e /\ still[n] = e
        /\ \A j \in 1..n : still[j] = e /\ still[j - 1] = e
    BY <1>1
  <2>2. Leads(<<Recovered(pass.route)>>, e, e, tally)
    BY LeadsOne
  <2>3. \A j \in 1..n : IF j \in recoveries THEN Leads(told[j], still[j - 1], still[j], tally)
                                            ELSE still[j - 1] = still[j]
    BY <2>1, <2>2
  <2> HIDE DEF n, still, told, recoveries
  <2>4. Leads(StepsOf(recoveries, told), still[0], still[n], tally)
    BY <2>1, <2>3, StepsOfLeads
  <2> QED
    BY <2>1, <2>4
<1>5. PassSteps(r, i) = ((first \o middle) \o ReturnSteps(r, i)) \o last
  BY DEF PassSteps
<1>6. work[0] = lose[Len(events)]
  OBVIOUS
<1>7. Leads(ReturnSteps(r, i), work[Len(hops)], e, tally)
  OBVIOUS
<1> HIDE DEF first, middle, last, hops, events
<1>8. Leads(first \o middle, lose[0], work[Len(hops)], tally)
  BY <1>2, <1>3, <1>6, LeadsOn
<1>9. Leads((first \o middle) \o ReturnSteps(r, i), lose[0], e, tally)
  BY <1>7, <1>8, LeadsOn
<1> QED
  BY <1>4, <1>5, <1>9, LeadsOn

LEMMA PoolTimelineLeads ==
  ASSUME NEW r, IsSeq(r.passes), NEW tally, NEW at,
         \A i \in 1..Len(r.passes) : Leads(PassSteps(r, i), at[i - 1], at[i], tally)
  PROVE  Leads(BuildTimeline(r), at[0], at[Len(r.passes)], tally)
<1> DEFINE passes == r.passes
           each == [i \in DOMAIN passes |-> PassSteps(r, i)]
<1>1. Len(passes) \in Nat /\ DOMAIN passes = 1..Len(passes)
  <2>1. IsSeq(passes)
    OBVIOUS
  <2> HIDE DEF passes
  <2> QED
    BY <2>1, SeqIs
<1>2. IsSeq(each) /\ Len(each) = Len(passes)
  BY <1>1, CountedIsSeq
<1>3. \A i \in 1..Len(each) : Leads(each[i], at[i - 1], at[i], tally)
  BY <1>1, <1>2
<1>4. BuildTimeline(r) = FlattenSeq(each)
  BY DEF BuildTimeline
<1> HIDE DEF each
<1>5. Leads(FlattenSeq(each), at[0], at[Len(each)], tally)
  BY <1>2, <1>3, LeadsFlat
<1> QED
  BY <1>2, <1>4, <1>5

\* What an attempt that failed shows counts for nothing but the device lost.
LEMMA AttemptLeads ==
  ASSUME NEW r, NEW i, NEW event, NEW tally, NEW a, NEW b,
         \A place : Moves(Waiting(place), a, a, tally),
         event.kind # "failover" => a = b,
         event.kind = "failover" =>
           /\ \A from, to : Moves(Send(from, to, 0, 0, FALSE, TRUE), a, a, tally)
           /\ \A place : Moves(Lost(event.member, place), a, b, tally)
  PROVE  Leads(AttemptSteps(r, i, event), a, b, tally)
<1>1. CASE event.kind = "waiting"
  <2>1. a = b /\ AttemptSteps(r, i, event) = <<Waiting(event.stage)>>
    BY <1>1 DEF AttemptSteps
  <2> QED
    BY <2>1, LeadsOne
<1>2. CASE event.kind = "failover"
  <2> DEFINE send == Send(ComingFrom(r, i, event.stage), Copy(event.member, event.stage),
                          0, 0, FALSE, TRUE)
             loss == Lost(event.member, event.stage)
  <2>1. Moves(send, a, a, tally) /\ Moves(loss, a, b, tally)
    BY <1>2
  <2>2. AttemptSteps(r, i, event) = <<send, loss>>
    BY <1>2 DEF AttemptSteps
  <2> HIDE DEF send, loss
  <2> QED
    BY <2>1, <2>2, LeadsTwo
<1>3. CASE event.kind \notin {"waiting", "failover"}
  <2>1. a = b /\ AttemptSteps(r, i, event) = << >>
    BY <1>3 DEF AttemptSteps
  <2> QED
    BY <2>1, LeadsNone
<1> QED
  BY <1>1, <1>2, <1>3

LEMMA HopLeads ==
  ASSUME NEW pass, NEW k, NEW tally, NEW a, NEW b, NEW e,
         \A from, to, ms :
           Moves(Send(from, to, pass.hops[k].sent_bytes, ms, k > 1, FALSE), a, b, tally),
         \A at : Moves(Compute(at, pass.hops[k].compute_ms), b, e, tally)
  PROVE  Leads(HopSteps(pass, k), a, e, tally)
<1> DEFINE places == StagesOf(pass)
           hop == pass.hops[k]
           send == Send(IF k = 1 THEN You ELSE places[k - 1], places[k], hop.sent_bytes,
                        hop.transport_ms \div 2, k > 1, FALSE)
           compute == Compute(places[k], hop.compute_ms)
<1>1. Moves(send, a, b, tally) /\ Moves(compute, b, e, tally)
  OBVIOUS
<1>2. HopSteps(pass, k) = <<send, compute>>
  BY DEF HopSteps
<1> HIDE DEF send, compute
<1> QED
  BY <1>1, <1>2, LeadsTwo

LEMMA ReturnLeads ==
  ASSUME NEW r, NEW i, NEW tally, NEW a, NEW e,
         \A from, bytes, ms : Moves(Send(from, Answer, bytes, ms, FALSE, FALSE), a, a, tally),
         IF i <= Len(r.tokens) THEN Moves(Token(r.tokens[i]), a, e, tally) ELSE a = e
  PROVE  Leads(ReturnSteps(r, i), a, e, tally)
<1> DEFINE pass == r.passes[i]
           final == pass.hops[Len(pass.hops)]
           send == Send(Last(StagesOf(pass)), Answer, final.received_bytes,
                        final.transport_ms \div 2, FALSE, FALSE)
           found == IF i <= Len(r.tokens) THEN <<Token(r.tokens[i])>> ELSE << >>
<1>1. Moves(send, a, a, tally)
  OBVIOUS
<1>2. Leads(found, a, e, tally)
  <2>1. CASE i <= Len(r.tokens)
    BY <2>1, LeadsOne
  <2>2. CASE ~(i <= Len(r.tokens))
    BY <2>2, LeadsNone
  <2> QED
    BY <2>1, <2>2
<1>3. ReturnSteps(r, i) = <<send>> \o found
  BY DEF ReturnSteps
<1> HIDE DEF send, found
<1>4. Leads(<<send>>, a, a, tally)
  BY <1>1, LeadsOne
<1> QED
  BY <1>2, <1>3, <1>4, LeadsOn

\* A pass during which nothing counted is lost.
LEMMA QuietPassLeads ==
  ASSUME NEW r, NEW i, IsSeq(r.events), IsSeq(r.passes[i].hops), NEW tally,
         NEW a, NEW work, NEW e,
         \A j \in 1..Len(r.events) : Leads(AttemptSteps(r, i, r.events[j]), a, a, tally),
         work[0] = a,
         \A k \in 1..Len(r.passes[i].hops) :
           Leads(HopSteps(r.passes[i], k), work[k - 1], work[k], tally),
         Leads(ReturnSteps(r, i), work[Len(r.passes[i].hops)], e, tally),
         \A route : Moves(Recovered(route), e, e, tally)
  PROVE  Leads(PassSteps(r, i), a, e, tally)
<1> DEFINE events == r.events
           n == Len(events)
           lose == [j \in 0..n |-> a]
<1>1. n \in Nat
  <2>1. IsSeq(events)
    OBVIOUS
  <2> HIDE DEF events
  <2> QED
    BY <2>1, SeqIs
<1>2. /\ lose[0] = a /\ lose[n] = a
      /\ \A j \in 1..n : lose[j] = a /\ lose[j - 1] = a
  BY <1>1
<1> HIDE DEF lose
<1>3. \A j \in 1..Len(r.events) :
        IF j \in EventsAt(r, i - 1)
          THEN Leads(AttemptSteps(r, i, r.events[j]), lose[j - 1], lose[j], tally)
          ELSE lose[j - 1] = lose[j]
  BY <1>2
<1>4. work[0] = lose[Len(r.events)]
  BY <1>2
<1>5. Leads(PassSteps(r, i), lose[0], e, tally)
  BY <1>3, <1>4, PoolPassLeads
<1> QED
  BY <1>2, <1>5

LEMMA ResultIs ==
  ASSUME NEW r, IsResult(r)
  PROVE  /\ IsSeq(r.passes) /\ IsSeq(r.tokens) /\ IsSeq(r.events)
         /\ Len(r.passes) \in Nat \ {0} /\ Len(r.tokens) \in Nat /\ Len(r.events) \in Nat
         /\ DOMAIN r.passes = 1..Len(r.passes) /\ DOMAIN r.events = 1..Len(r.events)
         /\ Len(r.tokens) <= Len(r.passes)
         /\ \A i \in 1..Len(r.passes) :
              /\ IsSeq(r.passes[i].hops) /\ Len(r.passes[i].hops) \in Nat
              /\ DOMAIN r.passes[i].hops = 1..Len(r.passes[i].hops)
              /\ \A k \in 1..Len(r.passes[i].hops) :
                   r.passes[i].hops[k].sent_bytes \in Nat /\ r.passes[i].hops[k].compute_ms \in Nat
<1>1. /\ IsSeq(r.passes) /\ IsSeq(r.tokens) /\ IsSeq(r.events)
      /\ Len(r.tokens) <= Len(r.passes) /\ r.passes # << >>
      /\ \A i \in DOMAIN r.passes :
           /\ IsSeq(r.passes[i].hops)
           /\ \A k \in DOMAIN r.passes[i].hops :
                {r.passes[i].hops[k].sent_bytes, r.passes[i].hops[k].compute_ms} \subseteq Nat
  BY DEF IsResult, IsSeq
<1>2. \A s : IsSeq(s) => Len(s) \in Nat /\ DOMAIN s = 1..Len(s) /\ (s # << >> => Len(s) # 0)
  <2> TAKE s
  <2>1. ASSUME IsSeq(s) PROVE s # << >> => Len(s) # 0
    BY <2>1, EmptySeq DEF IsSeq
  <2> QED
    BY <2>1, SeqIs
<1> QED
  BY <1>1, <1>2

\* The answer: token after token, and at the end all of it.
LEMMA PoolTells ==
  ASSUME NEW r, IsResult(r)
  PROVE  Leads(BuildTimeline(r), 0, Len(r.tokens), ToldBy(r))
<1> DEFINE toks == r.tokens
           tally == ToldBy(r)
           n == Len(r.passes)
           least(i) == IF i <= Len(toks) THEN i ELSE Len(toks)
           at == [i \in 0..n |-> least(i)]
<1>1. n \in Nat /\ Len(toks) \in Nat /\ Len(toks) <= n
  BY ResultIs
<1>2. tally.of = "answer" /\ tally.tokens = toks
  BY DEF ToldBy
<1>3. ASSUME NEW i \in 1..n
      PROVE  Leads(PassSteps(r, i), at[i - 1], at[i], tally)
  <2> DEFINE a == at[i - 1]
             e == at[i]
             hops == r.passes[i].hops
             work == [k \in 0..Len(hops) |-> a]
  <2>1. /\ IsSeq(r.events) /\ IsSeq(hops) /\ Len(hops) \in Nat
    BY ResultIs
  <2>2. /\ work[0] = a /\ work[Len(hops)] = a
        /\ \A k \in 1..Len(hops) : work[k] = a /\ work[k - 1] = a
    BY <2>1
  <2>3. a = least(i - 1) /\ e = least(i)
    BY <1>1
  <2>4. IF i <= Len(toks) THEN Moves(Token(toks[i]), a, e, tally) ELSE a = e
    BY <1>1, <1>2, <2>3 DEF Moves, Token
  <2> HIDE DEF work, a, e
  <2>5. /\ \A from, to, bytes, ms, between, failed :
             Moves(Send(from, to, bytes, ms, between, failed), a, a, tally)
        /\ \A where, ms : Moves(Compute(where, ms), a, a, tally)
        /\ \A place : Moves(Waiting(place), a, a, tally)
        /\ \A member, place : Moves(Lost(member, place), a, a, tally)
        /\ \A route : Moves(Recovered(route), e, e, tally)
    BY <1>2 DEF Moves, Send, Compute, Waiting, Lost, Recovered
  <2>5a. \A k : \A from, to, bytes, ms :
           Moves(Send(from, to, bytes, ms, k > 1, FALSE), a, a, tally)
    BY <1>2 DEF Moves, Send
  <2> HIDE DEF tally
  <2>6. \A j \in 1..Len(r.events) : Leads(AttemptSteps(r, i, r.events[j]), a, a, tally)
    BY <2>5, AttemptLeads
  <2>7. \A k \in 1..Len(hops) : Leads(HopSteps(r.passes[i], k), work[k - 1], work[k], tally)
    <3> TAKE k \in 1..Len(hops)
    <3> DEFINE pass == r.passes[i]
    <3>1. /\ \A from, to, ms :
               Moves(Send(from, to, pass.hops[k].sent_bytes, ms, k > 1, FALSE), a, a, tally)
          /\ \A where : Moves(Compute(where, pass.hops[k].compute_ms), a, a, tally)
      BY <2>5, <2>5a
    <3> HIDE DEF pass
    <3>2. Leads(HopSteps(pass, k), a, a, tally)
      BY <3>1, HopLeads
    <3> QED
      BY <2>2, <3>2 DEF pass
  <2>8. Leads(ReturnSteps(r, i), work[Len(hops)], e, tally)
    BY <2>2, <2>4, <2>5, ReturnLeads
  <2>9. Leads(PassSteps(r, i), a, e, tally)
    BY <2>1, <2>2, <2>5, <2>6, <2>7, <2>8, QuietPassLeads
  <2> QED
    BY <2>9 DEF a, e
<1>4. Leads(BuildTimeline(r), at[0], at[n], tally)
  <2>1. IsSeq(r.passes)
    BY ResultIs
  <2> HIDE DEF at, tally
  <2> QED
    BY <1>3, <2>1, PoolTimelineLeads
<1>5. at[0] = 0 /\ at[n] = Len(toks)
  BY <1>1
<1> QED
  BY <1>4, <1>5

\* What is summed is summed over the hops of all passes.
HopsIn(r) ==
  UNION {{<<i, k>> : k \in DOMAIN r.passes[i].hops} : i \in DOMAIN r.passes}

LEMMA HopsAre ==
  ASSUME NEW r, IsResult(r)
  PROVE  /\ IsFiniteSet(HopsIn(r))
         /\ \A i \in 1..Len(r.passes) : \A k \in 1..Len(r.passes[i].hops) : <<i, k>> \in HopsIn(r)
         /\ \A h \in HopsIn(r) : /\ h[1] \in 1..Len(r.passes)
                                 /\ h[2] \in 1..Len(r.passes[h[1]].hops)
                                 /\ h = <<h[1], h[2]>>
<1> DEFINE n == Len(r.passes)
           hopsOf == [i \in 1..n |-> {<<i, k>> : k \in DOMAIN r.passes[i].hops}]
<1>1. n \in Nat /\ DOMAIN r.passes = 1..n
      /\ \A i \in 1..n : /\ DOMAIN r.passes[i].hops = 1..Len(r.passes[i].hops)
                         /\ Len(r.passes[i].hops) \in Nat
  BY ResultIs
<1>2. ASSUME NEW i \in 1..n PROVE IsFiniteSet(hopsOf[i])
  <2> DEFINE m == Len(r.passes[i].hops)
             place == [k \in 1..m |-> <<i, k>>]
  <2>1. IsFiniteSet(1..m)
    <3>1. m \in Int /\ 1 \in Int
      BY <1>1
    <3> HIDE DEF m
    <3> QED
      BY <3>1, FS_Interval
  <2>2. DOMAIN place = 1..m
    OBVIOUS
  <2>3. hopsOf[i] = {place[k] : k \in 1..m}
    BY <1>1
  <2> HIDE DEF place, m, hopsOf
  <2>4. IsFiniteSet({place[k] : k \in 1..m})
    BY <2>1, <2>2, ImageIsFinite
  <2> QED
    BY <2>3, <2>4
<1>3. IsFiniteSet({hopsOf[i] : i \in 1..n})
  <2>1. IsFiniteSet(1..n)
    BY <1>1, FS_Interval
  <2>2. DOMAIN hopsOf = 1..n
    OBVIOUS
  <2> HIDE DEF hopsOf, n
  <2> QED
    BY <2>1, <2>2, ImageIsFinite
<1>4. HopsIn(r) = UNION {hopsOf[i] : i \in 1..n}
  <2>1. \A i \in 1..n : hopsOf[i] = {<<i, k>> : k \in DOMAIN r.passes[i].hops}
    OBVIOUS
  <2> HIDE DEF hopsOf
  <2>2. \A h : h \in HopsIn(r) <=> \E i \in 1..n : h \in {<<i, k>> : k \in DOMAIN r.passes[i].hops}
    BY <1>1 DEF HopsIn
  <2>3. \A h : h \in HopsIn(r) <=> \E i \in 1..n : h \in hopsOf[i]
    BY <2>1, <2>2
  <2> QED
    BY <2>3
<1>5. IsFiniteSet(HopsIn(r))
  <2> DEFINE all == {hopsOf[i] : i \in 1..n}
  <2>1. \A T \in all : IsFiniteSet(T)
    BY <1>2
  <2>2. IsFiniteSet(all) /\ HopsIn(r) = UNION all
    BY <1>3, <1>4
  <2> HIDE DEF all
  <2> QED
    BY <2>1, <2>2, FS_UNION
<1>6. ASSUME NEW i \in 1..n, NEW k \in 1..Len(r.passes[i].hops)
      PROVE  <<i, k>> \in HopsIn(r)
  BY <1>1 DEF HopsIn
<1>7. ASSUME NEW h \in HopsIn(r)
      PROVE  h[1] \in 1..n /\ h[2] \in 1..Len(r.passes[h[1]].hops) /\ h = <<h[1], h[2]>>
  <2>1. PICK i \in 1..n : \E k \in 1..Len(r.passes[i].hops) : h = <<i, k>>
    BY <1>1 DEF HopsIn
  <2>2. PICK k \in 1..Len(r.passes[i].hops) : h = <<i, k>>
    BY <2>1
  <2>3. h[1] = i /\ h[2] = k
    BY <2>2
  <2> QED
    BY <2>2, <2>3
<1> QED
  BY <1>5, <1>6, <1>7

\* The hops up to this one.
Reach(r, i, k) == {h \in HopsIn(r) : h[1] < i \/ (h[1] = i /\ h[2] <= k)}

NextHop(r, i, k) ==
  /\ <<i, k>> \in HopsIn(r)
  /\ <<i, k>> \notin Reach(r, i, k - 1)
  /\ Reach(r, i, k) = Reach(r, i, k - 1) \cup {<<i, k>>}

LEMMA ReachIs ==
  ASSUME NEW r, IsResult(r)
  PROVE  /\ Reach(r, 1, 0) = {}
         /\ Reach(r, Len(r.passes) + 1, 0) = HopsIn(r)
         /\ \A i \in 1..Len(r.passes) :
              /\ Reach(r, i, Len(r.passes[i].hops)) = Reach(r, i + 1, 0)
              /\ \A k \in 1..Len(r.passes[i].hops) : NextHop(r, i, k)
<1> DEFINE n == Len(r.passes)
           m(i) == Len(r.passes[i].hops)
<1>1. n \in Nat /\ \A i \in 1..n : m(i) \in Nat
  BY ResultIs
<1>2. /\ \A i \in 1..n : \A k \in 1..m(i) : <<i, k>> \in HopsIn(r)
      /\ \A h \in HopsIn(r) : h[1] \in 1..n /\ h[2] \in 1..m(h[1]) /\ h = <<h[1], h[2]>>
  BY HopsAre
<1> HIDE DEF n, m
<1>3. Reach(r, 1, 0) = {}
  BY <1>1, <1>2 DEF Reach
<1>4. Reach(r, n + 1, 0) = HopsIn(r)
  BY <1>1, <1>2 DEF Reach
<1>5. ASSUME NEW i \in 1..n
      PROVE  Reach(r, i, m(i)) = Reach(r, i + 1, 0)
  <2>1. ASSUME NEW h \in HopsIn(r)
        PROVE  h[1] < i \/ (h[1] = i /\ h[2] <= m(i)) <=> h[1] < i + 1 \/ (h[1] = i + 1 /\ h[2] <= 0)
    <3>1. h[1] \in Nat /\ h[2] \in 1..m(h[1]) /\ m(h[1]) \in Nat /\ i \in Nat
      BY <1>1, <1>2
    <3>2. h[1] = i => h[2] <= m(i)
      BY <3>1
    <3> QED
      BY <3>1, <3>2
  <2> QED
    BY <2>1 DEF Reach
<1>6. ASSUME NEW i \in 1..n, NEW k \in 1..m(i)
      PROVE  NextHop(r, i, k)
  <2> DEFINE here == <<i, k>>
  <2>1. here \in HopsIn(r) /\ here[1] = i /\ here[2] = k
    BY <1>2
  <2>2. i \in Nat /\ k \in Nat
    BY <1>1
  <2>3. ASSUME NEW h \in HopsIn(r)
        PROVE  h[1] \in Nat /\ h[2] \in Nat /\ (h = here <=> h[1] = i /\ h[2] = k)
    BY <1>1, <1>2
  <2> HIDE DEF here
  <2>4. here \notin Reach(r, i, k - 1)
    BY <2>1, <2>2 DEF Reach
  <2>5. \A h \in HopsIn(r) : (h[1] < i \/ (h[1] = i /\ h[2] <= k))
                             <=> (h[1] < i \/ (h[1] = i /\ h[2] <= k - 1)) \/ h = here
    BY <2>2, <2>3
  <2>6. Reach(r, i, k) = Reach(r, i, k - 1) \cup {here}
    BY <2>1, <2>5 DEF Reach
  <2> QED
    BY <2>1, <2>4, <2>6 DEF here, NextHop
<1> QED
  BY <1>3, <1>4, <1>5, <1>6 DEF n, m

\* A tally that each hop adds its own to, and nothing else does.
CountsHops(r, v, tally) ==
  \A i \in 1..Len(r.passes) : \A n \in Nat :
    /\ \A j \in 1..Len(r.events) : Leads(AttemptSteps(r, i, r.events[j]), n, n, tally)
    /\ \A k \in 1..Len(r.passes[i].hops) :
         Leads(HopSteps(r.passes[i], k), n, n + v[<<i, k>>], tally)
    /\ Leads(ReturnSteps(r, i), n, n, tally)
    /\ \A route : Moves(Recovered(route), n, n, tally)

LEMMA PoolSums ==
  ASSUME NEW r, IsResult(r), NEW v, NEW f, Sums(f, v, HopsIn(r)),
         NEW tally, CountsHops(r, v, tally)
  PROVE  Leads(BuildTimeline(r), 0, f[HopsIn(r)], tally)
<1> DEFINE n == Len(r.passes)
           at == [i \in 0..n |-> f[Reach(r, i + 1, 0)]]
<1>1. n \in Nat
  BY ResultIs
<1>2. \A i, k : Reach(r, i, k) \in SUBSET HopsIn(r) /\ f[Reach(r, i, k)] \in Nat
  <2>1. \A i, k : Reach(r, i, k) \in SUBSET HopsIn(r)
    BY DEF Reach
  <2>2. \A t \in SUBSET HopsIn(r) : f[t] \in Nat
    BY SumType
  <2> QED
    BY <2>1, <2>2
<1>2a. \A t \in SUBSET HopsIn(r) : \A x \in HopsIn(r) :
        x \notin t => f[t \cup {x}] = f[t] + v[x]
  BY SumAdds
<1>3. ASSUME NEW i \in 1..n
      PROVE  Leads(PassSteps(r, i), at[i - 1], at[i], tally)
  <2> DEFINE hops == r.passes[i].hops
             m == Len(hops)
             work == [k \in 0..m |-> f[Reach(r, i, k)]]
             a == at[i - 1]
             e == at[i]
  <2>1. /\ IsSeq(r.events) /\ IsSeq(hops) /\ m \in Nat
    BY ResultIs
  <2>2. a = f[Reach(r, i, 0)] /\ e = f[Reach(r, i + 1, 0)]
    <3>1. i - 1 \in 0..n /\ i \in 0..n /\ (i - 1) + 1 = i
      BY <1>1
    <3>2. a = f[Reach(r, (i - 1) + 1, 0)]
      BY <3>1
    <3> QED
      BY <3>1, <3>2
  <2>3. work[0] = a /\ work[m] = e
    <3>1. Reach(r, i, m) = Reach(r, i + 1, 0)
      BY ReachIs
    <3>2. 0 \in 0..m /\ m \in 0..m
      BY <2>1
    <3> QED
      BY <2>2, <3>1, <3>2
  <2>4. a \in Nat /\ e \in Nat
    BY <1>2, <2>2
  <2>4a. \A k \in 1..m : NextHop(r, i, k)
    BY ReachIs
  <2>5. ASSUME NEW k \in 1..m
        PROVE  work[k - 1] \in Nat /\ work[k] = work[k - 1] + v[<<i, k>>]
    <3>1. k \in 0..m /\ k - 1 \in 0..m
      BY <2>1
    <3>2. /\ <<i, k>> \in HopsIn(r) /\ <<i, k>> \notin Reach(r, i, k - 1)
          /\ Reach(r, i, k) = Reach(r, i, k - 1) \cup {<<i, k>>}
      BY <2>4a DEF NextHop
    <3>3. work[k - 1] = f[Reach(r, i, k - 1)] /\ work[k] = f[Reach(r, i, k)]
      BY <3>1
    <3>4. f[Reach(r, i, k - 1) \cup {<<i, k>>}] = f[Reach(r, i, k - 1)] + v[<<i, k>>]
      <4> DEFINE t == Reach(r, i, k - 1)
                 x == <<i, k>>
      <4>1. t \in SUBSET HopsIn(r) /\ x \in HopsIn(r) /\ x \notin t
        BY <1>2, <3>2
      <4> HIDE DEF t, x
      <4>2. f[t \cup {x}] = f[t] + v[x]
        BY <4>1, <1>2a
      <4> QED
        BY <4>2 DEF t, x
    <3> QED
      BY <1>2, <3>2, <3>3, <3>4
  <2> HIDE DEF work, a, e
  <2>6. /\ \A j \in 1..Len(r.events) : Leads(AttemptSteps(r, i, r.events[j]), a, a, tally)
        /\ Leads(ReturnSteps(r, i), e, e, tally)
        /\ \A route : Moves(Recovered(route), e, e, tally)
    BY <2>4 DEF CountsHops
  <2>7. \A k \in 1..m : Leads(HopSteps(r.passes[i], k), work[k - 1], work[k], tally)
    <3> TAKE k \in 1..m
    <3>1. Leads(HopSteps(r.passes[i], k), work[k - 1], work[k - 1] + v[<<i, k>>], tally)
      BY <2>5 DEF CountsHops
    <3> QED
      BY <2>5, <3>1
  <2>8. Leads(PassSteps(r, i), a, e, tally)
    <3>1. Leads(ReturnSteps(r, i), work[m], e, tally)
      BY <2>3, <2>6
    <3> QED
      BY <2>1, <2>3, <2>6, <2>7, <3>1, QuietPassLeads
  <2> QED
    BY <2>8 DEF a, e
<1>4. Leads(BuildTimeline(r), at[0], at[n], tally)
  <2>1. IsSeq(r.passes)
    BY ResultIs
  <2> HIDE DEF at
  <2> QED
    BY <1>3, <2>1, PoolTimelineLeads
<1>5. at[0] = 0
  <2>1. Reach(r, 1, 0) = {}
    BY ReachIs
  <2>2. f[{}] = 0
    <3>1. {} \in SUBSET HopsIn(r)
      OBVIOUS
    <3> QED
      BY <3>1, SumIs
  <2>3. 0 \in 0..n /\ 0 + 1 = 1
    BY <1>1
  <2>4. at[0] = f[Reach(r, 0 + 1, 0)]
    BY <2>3
  <2> QED
    BY <2>1, <2>2, <2>3, <2>4
<1>6. at[n] = f[HopsIn(r)]
  <2>1. Reach(r, n + 1, 0) = HopsIn(r)
    BY ReachIs
  <2> QED
    BY <1>1, <2>1
<1> QED
  BY <1>4, <1>5, <1>6

\* Whatever is summed over an answer's hops is summed in this way.
LEMMA ComputeSums ==
  ASSUME NEW r, IsResult(r)
  PROVE  \E v, f : /\ Sums(f, v, HopsIn(r))
                   /\ \A i \in 1..Len(r.passes) : \A k \in 1..Len(r.passes[i].hops) :
                        v[<<i, k>>] = r.passes[i].hops[k].compute_ms
                   /\ ComputedIn(r) = f[HopsIn(r)]
<1> DEFINE D == HopsIn(r)
           of(h) == r.passes[h[1]].hops[h[2]].compute_ms
           v == [h \in D |-> of(h)]
           def(f) == f = [s \in SUBSET D |-> IF s = {} THEN 0
                           ELSE of(CHOOSE x \in s : TRUE) + f[s \ {CHOOSE x \in s : TRUE}]]
           iter == CHOOSE f : def(f)
<1>1. /\ IsFiniteSet(D)
      /\ \A i \in 1..Len(r.passes) : \A k \in 1..Len(r.passes[i].hops) : <<i, k>> \in D
      /\ \A h \in D : h[1] \in 1..Len(r.passes) /\ h[2] \in 1..Len(r.passes[h[1]].hops)
  BY HopsAre
<1>2. \A h \in D : of(h) \in Nat /\ v[h] = of(h)
  BY <1>1, ResultIs
<1>3. ComputedIn(r) = iter[D]
  BY DEF ComputedIn, SumOver, MapThenSumSet, MapThenFoldSet, HopsIn
<1>4. \A i \in 1..Len(r.passes) : \A k \in 1..Len(r.passes[i].hops) :
        v[<<i, k>>] = r.passes[i].hops[k].compute_ms
  <2> TAKE i \in 1..Len(r.passes)
  <2> TAKE k \in 1..Len(r.passes[i].hops)
  <2>1. <<i, k>> \in D
    BY <1>1
  <2> QED
    BY <2>1
<1> HIDE DEF D, v
<1>5. \A f : def(f) <=> SumsOver(f, v, SUBSET D)
  <2>1. \A s \in SUBSET D : s # {} => v[Pick(s)] = of(Pick(s))
    BY <1>2, PickIn
  <2>2. \A f : [s \in SUBSET D |-> IF s = {} THEN 0 ELSE of(Pick(s)) + f[s \ {Pick(s)}]]
               = [s \in SUBSET D |-> IF s = {} THEN 0 ELSE v[Pick(s)] + f[s \ {Pick(s)}]]
    BY <2>1
  <2> QED
    BY <2>2 DEF SumsOver, Pick
<1>6. \E f : def(f)
  <2> HIDE DEF def
  <2> QED
    BY <1>1, <1>5, SumExists
<1>7. def(iter)
  <2> HIDE DEF def
  <2> QED
    BY <1>6
<1>8. Sums(iter, v, D)
  <2> HIDE DEF iter, def
  <2> QED
    BY <1>1, <1>2, <1>5, <1>7 DEF Sums
<1> HIDE DEF iter
<1> QED
  BY <1>3, <1>4, <1>8 DEF D

LEMMA ByteSums ==
  ASSUME NEW r, IsResult(r)
  PROVE  \E v, f : /\ Sums(f, v, HopsIn(r))
                   /\ \A i \in 1..Len(r.passes) : \A k \in 1..Len(r.passes[i].hops) :
                        v[<<i, k>>] = IF k > 1 THEN r.passes[i].hops[k].sent_bytes ELSE 0
                   /\ SentIn(r) = f[HopsIn(r)]
<1> DEFINE D == HopsIn(r)
           of(h) == IF h[2] > 1 THEN r.passes[h[1]].hops[h[2]].sent_bytes ELSE 0
           v == [h \in D |-> of(h)]
           def(f) == f = [s \in SUBSET D |-> IF s = {} THEN 0
                           ELSE of(CHOOSE x \in s : TRUE) + f[s \ {CHOOSE x \in s : TRUE}]]
           iter == CHOOSE f : def(f)
<1>1. /\ IsFiniteSet(D)
      /\ \A i \in 1..Len(r.passes) : \A k \in 1..Len(r.passes[i].hops) : <<i, k>> \in D
      /\ \A h \in D : h[1] \in 1..Len(r.passes) /\ h[2] \in 1..Len(r.passes[h[1]].hops)
  BY HopsAre
<1>2. \A h \in D : of(h) \in Nat /\ v[h] = of(h)
  BY <1>1, ResultIs
<1>3. SentIn(r) = iter[D]
  BY DEF SentIn, SumOver, MapThenSumSet, MapThenFoldSet, HopsIn
<1>4. \A i \in 1..Len(r.passes) : \A k \in 1..Len(r.passes[i].hops) :
        v[<<i, k>>] = IF k > 1 THEN r.passes[i].hops[k].sent_bytes ELSE 0
  <2> TAKE i \in 1..Len(r.passes)
  <2> TAKE k \in 1..Len(r.passes[i].hops)
  <2>1. <<i, k>> \in D
    BY <1>1
  <2> QED
    BY <2>1
<1> HIDE DEF D, v
<1>5. \A f : def(f) <=> SumsOver(f, v, SUBSET D)
  <2>1. \A s \in SUBSET D : s # {} => v[Pick(s)] = of(Pick(s))
    BY <1>2, PickIn
  <2>2. \A f : [s \in SUBSET D |-> IF s = {} THEN 0 ELSE of(Pick(s)) + f[s \ {Pick(s)}]]
               = [s \in SUBSET D |-> IF s = {} THEN 0 ELSE v[Pick(s)] + f[s \ {Pick(s)}]]
    BY <2>1
  <2> QED
    BY <2>2 DEF SumsOver, Pick
<1>6. \E f : def(f)
  <2> HIDE DEF def
  <2> QED
    BY <1>1, <1>5, SumExists
<1>7. def(iter)
  <2> HIDE DEF def
  <2> QED
    BY <1>6
<1>8. Sums(iter, v, D)
  <2> HIDE DEF iter, def
  <2> QED
    BY <1>1, <1>2, <1>5, <1>7 DEF Sums
<1> HIDE DEF iter
<1> QED
  BY <1>3, <1>4, <1>8 DEF D

\* The time computing: every hop's, and nothing else.
LEMMA PoolComputes ==
  ASSUME NEW r, IsResult(r)
  PROVE  Leads(BuildTimeline(r), 0, ComputedIn(r), [of |-> "compute"])
<1> DEFINE tally == [of |-> "compute"]
<1>1. PICK v, f : /\ Sums(f, v, HopsIn(r))
                  /\ \A i \in 1..Len(r.passes) : \A k \in 1..Len(r.passes[i].hops) :
                       v[<<i, k>>] = r.passes[i].hops[k].compute_ms
                  /\ ComputedIn(r) = f[HopsIn(r)]
  BY ComputeSums
<1>2. tally.of = "compute"
  OBVIOUS
<1> HIDE DEF tally
<1>3. ASSUME NEW n \in Nat
      PROVE  /\ \A from, to, bytes, ms, between, failed :
                  Moves(Send(from, to, bytes, ms, between, failed), n, n, tally)
             /\ \A where, ms : Moves(Compute(where, ms), n, n + ms, tally)
             /\ \A place : Moves(Waiting(place), n, n, tally)
             /\ \A member, place : Moves(Lost(member, place), n, n, tally)
             /\ \A route : Moves(Recovered(route), n, n, tally)
             /\ \A text : Moves(Token(text), n, n, tally)
             /\ \A k : \A from, to, bytes, ms :
                  Moves(Send(from, to, bytes, ms, k > 1, FALSE), n, n, tally)
  BY <1>2 DEF Moves, Send, Compute, Waiting, Lost, Recovered, Token
<1>4. CountsHops(r, v, tally)
  <2> SUFFICES ASSUME NEW i \in 1..Len(r.passes), NEW n \in Nat
               PROVE  /\ \A j \in 1..Len(r.events) :
                           Leads(AttemptSteps(r, i, r.events[j]), n, n, tally)
                      /\ \A k \in 1..Len(r.passes[i].hops) :
                           Leads(HopSteps(r.passes[i], k), n, n + v[<<i, k>>], tally)
                      /\ Leads(ReturnSteps(r, i), n, n, tally)
                      /\ \A route : Moves(Recovered(route), n, n, tally)
    BY DEF CountsHops
  <2>1. \A j \in 1..Len(r.events) : Leads(AttemptSteps(r, i, r.events[j]), n, n, tally)
    BY <1>3, AttemptLeads
  <2>2. ASSUME NEW k \in 1..Len(r.passes[i].hops)
        PROVE  Leads(HopSteps(r.passes[i], k), n, n + v[<<i, k>>], tally)
    <3> DEFINE pass == r.passes[i]
               after == n + v[<<i, k>>]
    <3>1. after = n + pass.hops[k].compute_ms
      BY <1>1
    <3>2. /\ \A from, to, ms :
               Moves(Send(from, to, pass.hops[k].sent_bytes, ms, k > 1, FALSE), n, n, tally)
          /\ \A where : Moves(Compute(where, pass.hops[k].compute_ms), n, after, tally)
      BY <1>3, <3>1
    <3> HIDE DEF pass, after
    <3>3. Leads(HopSteps(pass, k), n, after, tally)
      BY <3>2, HopLeads
    <3> QED
      BY <3>3 DEF pass, after
  <2>3. Leads(ReturnSteps(r, i), n, n, tally)
    BY <1>3, ReturnLeads
  <2> QED
    BY <1>3, <2>1, <2>2, <2>3
<1>5. Leads(BuildTimeline(r), 0, f[HopsIn(r)], tally)
  BY <1>1, <1>4, PoolSums
<1> QED
  BY <1>1, <1>5 DEF tally

\* The bytes: those of every hop from a device to another.
LEMMA PoolSends ==
  ASSUME NEW r, IsResult(r)
  PROVE  Leads(BuildTimeline(r), 0, SentIn(r), [of |-> "bytes"])
<1> DEFINE tally == [of |-> "bytes"]
<1>1. PICK v, f : /\ Sums(f, v, HopsIn(r))
                  /\ \A i \in 1..Len(r.passes) : \A k \in 1..Len(r.passes[i].hops) :
                       v[<<i, k>>] = IF k > 1 THEN r.passes[i].hops[k].sent_bytes ELSE 0
                  /\ SentIn(r) = f[HopsIn(r)]
  BY ByteSums
<1>2. tally.of = "bytes"
  OBVIOUS
<1> HIDE DEF tally
<1>3. \A n \in Nat :
        /\ \A from, to, bytes, ms, failed :
             Moves(Send(from, to, bytes, ms, FALSE, failed), n, n, tally)
        /\ \A where, ms : Moves(Compute(where, ms), n, n, tally)
        /\ \A place : Moves(Waiting(place), n, n, tally)
        /\ \A member, place : Moves(Lost(member, place), n, n, tally)
        /\ \A route : Moves(Recovered(route), n, n, tally)
        /\ \A text : Moves(Token(text), n, n, tally)
  BY <1>2 DEF Moves, Send, Compute, Waiting, Lost, Recovered, Token
<1>3a. ASSUME NEW n \in Nat, NEW k \in Nat, NEW from, NEW to, NEW bytes, NEW ms
      PROVE  Moves(Send(from, to, bytes, ms, k > 1, FALSE), n,
                   n + (IF k > 1 THEN bytes ELSE 0), tally)
  <2>1. CASE k > 1
    <3>1. Moves(Send(from, to, bytes, ms, TRUE, FALSE), n, n + bytes, tally)
      BY <1>2 DEF Moves, Send
    <3>2. (k > 1) = TRUE
      BY <2>1
    <3> QED
      BY <2>1, <3>1, <3>2
  <2>2. CASE ~(k > 1)
    <3>1. Moves(Send(from, to, bytes, ms, FALSE, FALSE), n, n + 0, tally)
      BY <1>2 DEF Moves, Send
    <3>2. (k > 1) = FALSE
      BY <2>2
    <3> QED
      BY <2>2, <3>1, <3>2
  <2> QED
    BY <2>1, <2>2
<1>4. CountsHops(r, v, tally)
  <2> SUFFICES ASSUME NEW i \in 1..Len(r.passes), NEW n \in Nat
               PROVE  /\ \A j \in 1..Len(r.events) :
                           Leads(AttemptSteps(r, i, r.events[j]), n, n, tally)
                      /\ \A k \in 1..Len(r.passes[i].hops) :
                           Leads(HopSteps(r.passes[i], k), n, n + v[<<i, k>>], tally)
                      /\ Leads(ReturnSteps(r, i), n, n, tally)
                      /\ \A route : Moves(Recovered(route), n, n, tally)
    BY DEF CountsHops
  <2>1. \A j \in 1..Len(r.events) : Leads(AttemptSteps(r, i, r.events[j]), n, n, tally)
    BY <1>3, AttemptLeads
  <2>2. ASSUME NEW k \in 1..Len(r.passes[i].hops)
        PROVE  Leads(HopSteps(r.passes[i], k), n, n + v[<<i, k>>], tally)
    <3> DEFINE pass == r.passes[i]
               after == n + v[<<i, k>>]
    <3>1. after = n + (IF k > 1 THEN pass.hops[k].sent_bytes ELSE 0)
      BY <1>1
    <3>1a. after \in Nat
      <4>1. pass.hops[k].sent_bytes \in Nat
        BY ResultIs
      <4> HIDE DEF pass, after
      <4> QED
        BY <3>1, <4>1
    <3>2. /\ \A from, to, ms :
               Moves(Send(from, to, pass.hops[k].sent_bytes, ms, k > 1, FALSE), n, after, tally)
          /\ \A where : Moves(Compute(where, pass.hops[k].compute_ms), after, after, tally)
      <4>1. k \in Nat
        OBVIOUS
      <4> HIDE DEF pass, after
      <4>2. \A from, to, ms :
              Moves(Send(from, to, pass.hops[k].sent_bytes, ms, k > 1, FALSE), n,
                    n + (IF k > 1 THEN pass.hops[k].sent_bytes ELSE 0), tally)
        BY <1>3a, <4>1, Zenon
      <4>3. \A where : Moves(Compute(where, pass.hops[k].compute_ms), after, after, tally)
        BY <1>3, <3>1a
      <4> QED
        BY <3>1, <4>2, <4>3, Zenon
    <3> HIDE DEF pass, after
    <3>3. Leads(HopSteps(pass, k), n, after, tally)
      BY <3>2, HopLeads
    <3> QED
      BY <3>3 DEF pass, after
  <2>3. Leads(ReturnSteps(r, i), n, n, tally)
    BY <1>3, ReturnLeads
  <2> QED
    BY <1>3, <2>1, <2>2, <2>3
<1>5. Leads(BuildTimeline(r), 0, f[HopsIn(r)], tally)
  BY <1>1, <1>4, PoolSums
<1> QED
  BY <1>1, <1>5 DEF tally

\* The devices lost: those of the events up to this one, and in the end all.
LostBy(r, i, j) ==
  {r.events[l].member :
     l \in {l \in Losses(r) : \/ r.events[l].at_pass < i - 1
                              \/ r.events[l].at_pass = i - 1 /\ l <= j}}

LEMMA LostByIs ==
  ASSUME NEW r, IsResult(r)
  PROVE  /\ LostBy(r, 1, 0) = {}
         /\ LostBy(r, Len(r.passes) + 1, 0) = LostIn(r)
         /\ \A i \in 1..Len(r.passes) :
              /\ LostBy(r, i, Len(r.events)) = LostBy(r, i + 1, 0)
              /\ \A j \in 1..Len(r.events) :
                   LostBy(r, i, j) = LostBy(r, i, j - 1) \cup
                     (IF r.events[j].kind = "failover" /\ j \in EventsAt(r, i - 1)
                        THEN {r.events[j].member} ELSE {})
<1> DEFINE n == Len(r.passes)
           m == Len(r.events)
           at(l) == r.events[l].at_pass
           by(i, j) == {l \in Losses(r) : at(l) < i - 1 \/ (at(l) = i - 1 /\ l <= j)}
<1>1. n \in Nat /\ m \in Nat /\ DOMAIN r.events = 1..m
  BY ResultIs
<1>2. \A l \in Losses(r) : l \in 1..m /\ at(l) \in 0..n - 1
  BY <1>1 DEF IsResult, Losses
<1>3. \A i, j : LostBy(r, i, j) = {r.events[l].member : l \in by(i, j)}
  BY DEF LostBy
<1> HIDE DEF n, m, at
<1>4. by(1, 0) = {}
  BY <1>1, <1>2
<1>5. by(n + 1, 0) = Losses(r)
  BY <1>1, <1>2
<1>6. \A i \in 1..n : by(i, m) = by(i + 1, 0)
  BY <1>1, <1>2
<1>7. ASSUME NEW i \in 1..n, NEW j \in 1..m
      PROVE  by(i, j) = by(i, j - 1) \cup
               (IF j \in Losses(r) /\ at(j) = i - 1 THEN {j} ELSE {})
  BY <1>1, <1>2
<1>8. ASSUME NEW i \in 1..n, NEW j \in 1..m
      PROVE  LostBy(r, i, j) = LostBy(r, i, j - 1) \cup
               (IF r.events[j].kind = "failover" /\ j \in EventsAt(r, i - 1)
                  THEN {r.events[j].member} ELSE {})
  <2>1. /\ r.events[j].kind = "failover" <=> j \in Losses(r)
        /\ j \in EventsAt(r, i - 1) <=> at(j) = i - 1
    BY <1>1 DEF Losses, EventsAt, at
  <2>2. by(i, j) = by(i, j - 1) \cup (IF j \in Losses(r) /\ at(j) = i - 1 THEN {j} ELSE {})
    BY <1>7
  <2>3. LostBy(r, i, j) = {r.events[l].member : l \in by(i, j)}
        /\ LostBy(r, i, j - 1) = {r.events[l].member : l \in by(i, j - 1)}
    BY <1>3
  <2> HIDE DEF by
  <2> QED
    BY <2>1, <2>2, <2>3
<1>9. LostBy(r, 1, 0) = {} /\ LostBy(r, n + 1, 0) = LostIn(r)
      /\ \A i \in 1..n : LostBy(r, i, m) = LostBy(r, i + 1, 0)
  <2>1. LostBy(r, 1, 0) = {r.events[l].member : l \in by(1, 0)}
        /\ LostBy(r, n + 1, 0) = {r.events[l].member : l \in by(n + 1, 0)}
        /\ \A i \in 1..n : /\ LostBy(r, i, m) = {r.events[l].member : l \in by(i, m)}
                           /\ LostBy(r, i + 1, 0) = {r.events[l].member : l \in by(i + 1, 0)}
    BY <1>3
  <2> HIDE DEF by
  <2> QED
    BY <1>4, <1>5, <1>6, <2>1 DEF LostIn
<1> QED
  BY <1>8, <1>9 DEF n, m

LEMMA PoolLoses ==
  ASSUME NEW r, IsResult(r)
  PROVE  Leads(BuildTimeline(r), {}, LostIn(r), [of |-> "lost"])
<1> DEFINE tally == [of |-> "lost"]
           n == Len(r.passes)
           at == [i \in 0..n |-> LostBy(r, i + 1, 0)]
<1>1. n \in Nat
  BY ResultIs
<1>2. tally.of = "lost"
  OBVIOUS
<1> HIDE DEF tally
<1>3. \A a : /\ \A from, to, bytes, ms, between, failed :
                  Moves(Send(from, to, bytes, ms, between, failed), a, a, tally)
             /\ \A where, ms : Moves(Compute(where, ms), a, a, tally)
             /\ \A place : Moves(Waiting(place), a, a, tally)
             /\ \A route : Moves(Recovered(route), a, a, tally)
             /\ \A text : Moves(Token(text), a, a, tally)
             /\ \A member, place : Moves(Lost(member, place), a, a \cup {member}, tally)
  BY <1>2 DEF Moves, Send, Compute, Waiting, Lost, Recovered, Token
<1>4. \A a, k : \A from, to, bytes, ms : Moves(Send(from, to, bytes, ms, k > 1, FALSE), a, a, tally)
  BY <1>2 DEF Moves, Send
<1>5. ASSUME NEW i \in 1..n
      PROVE  Leads(PassSteps(r, i), at[i - 1], at[i], tally)
  <2> DEFINE hops == r.passes[i].hops
             m == Len(r.events)
             lose == [j \in 0..m |-> LostBy(r, i, j)]
             e == at[i]
             work == [k \in 0..Len(hops) |-> e]
  <2>1. /\ IsSeq(r.events) /\ IsSeq(hops) /\ Len(hops) \in Nat /\ m \in Nat
    BY ResultIs
  <2>2. at[i - 1] = LostBy(r, i, 0) /\ e = LostBy(r, i + 1, 0)
    <3>1. i - 1 \in 0..n /\ i \in 0..n /\ (i - 1) + 1 = i
      BY <1>1
    <3>2. at[i - 1] = LostBy(r, (i - 1) + 1, 0)
      BY <3>1
    <3> QED
      BY <3>1, <3>2
  <2>3. lose[0] = at[i - 1] /\ lose[m] = e
    <3>1. LostBy(r, i, m) = LostBy(r, i + 1, 0)
      BY LostByIs
    <3>2. 0 \in 0..m /\ m \in 0..m
      BY <2>1
    <3> QED
      BY <2>2, <3>1, <3>2
  <2>4. ASSUME NEW j \in 1..m
        PROVE  IF j \in EventsAt(r, i - 1)
                 THEN Leads(AttemptSteps(r, i, r.events[j]), lose[j - 1], lose[j], tally)
                 ELSE lose[j - 1] = lose[j]
    <3>1. lose[j] = lose[j - 1] \cup
            (IF r.events[j].kind = "failover" /\ j \in EventsAt(r, i - 1)
               THEN {r.events[j].member} ELSE {})
      <4>1. j \in 0..m /\ j - 1 \in 0..m
        BY <2>1
      <4>2. LostBy(r, i, j) = LostBy(r, i, j - 1) \cup
              (IF r.events[j].kind = "failover" /\ j \in EventsAt(r, i - 1)
                 THEN {r.events[j].member} ELSE {})
        BY LostByIs
      <4> QED
        BY <4>1, <4>2
    <3> DEFINE a == lose[j - 1]
               b == lose[j]
    <3>2. CASE j \in EventsAt(r, i - 1)
      <4> DEFINE event == r.events[j]
      <4>1. /\ event.kind # "failover" => a = b
            /\ event.kind = "failover" => b = a \cup {event.member}
        BY <3>1, <3>2
      <4> HIDE DEF a, b, lose, event
      <4>2a. /\ \A place : Moves(Waiting(place), a, a, tally)
             /\ \A from, to : Moves(Send(from, to, 0, 0, FALSE, TRUE), a, a, tally)
        BY <1>3, Zenon
      <4>2b. ASSUME event.kind = "failover", NEW place
             PROVE  Moves(Lost(event.member, place), a, b, tally)
        <5>1. Moves(Lost(event.member, place), a, a \cup {event.member}, tally)
          BY <1>3
        <5> QED
          BY <4>1, <4>2b, <5>1
      <4>2. /\ \A place : Moves(Waiting(place), a, a, tally)
            /\ \A from, to : Moves(Send(from, to, 0, 0, FALSE, TRUE), a, a, tally)
            /\ event.kind = "failover" => \A place : Moves(Lost(event.member, place), a, b, tally)
        BY <4>2a, <4>2b
      <4>3. Leads(AttemptSteps(r, i, event), a, b, tally)
        BY <4>1, <4>2, AttemptLeads
      <4> QED
        BY <3>2, <4>3 DEF a, b, event
    <3>3. CASE j \notin EventsAt(r, i - 1)
      BY <3>1, <3>3
    <3> QED
      BY <3>2, <3>3
  <2>5. /\ work[0] = e /\ work[Len(hops)] = e
        /\ \A k \in 1..Len(hops) : work[k] = e /\ work[k - 1] = e
    BY <2>1
  <2> HIDE DEF lose, work, e
  <2>6. \A k \in 1..Len(hops) : Leads(HopSteps(r.passes[i], k), work[k - 1], work[k], tally)
    <3> TAKE k \in 1..Len(hops)
    <3> DEFINE pass == r.passes[i]
    <3>1. /\ \A from, to, ms :
               Moves(Send(from, to, pass.hops[k].sent_bytes, ms, k > 1, FALSE), e, e, tally)
          /\ \A where : Moves(Compute(where, pass.hops[k].compute_ms), e, e, tally)
      BY <1>3, <1>4
    <3> HIDE DEF pass
    <3>2. Leads(HopSteps(pass, k), e, e, tally)
      BY <3>1, HopLeads
    <3> QED
      BY <2>5, <3>2 DEF pass
  <2>7. Leads(ReturnSteps(r, i), e, e, tally)
    BY <1>3, ReturnLeads
  <2>8. /\ work[0] = lose[Len(r.events)]
        /\ Leads(ReturnSteps(r, i), work[Len(hops)], e, tally)
        /\ \A route : Moves(Recovered(route), e, e, tally)
    BY <1>3, <2>3, <2>5, <2>7
  <2>9. Leads(PassSteps(r, i), lose[0], e, tally)
    BY <2>1, <2>4, <2>6, <2>8, PoolPassLeads
  <2> QED
    BY <2>3, <2>9 DEF e
<1>6. Leads(BuildTimeline(r), at[0], at[n], tally)
  <2>1. IsSeq(r.passes)
    BY ResultIs
  <2> HIDE DEF at
  <2> QED
    BY <1>5, <2>1, PoolTimelineLeads
<1>7. at[0] = {} /\ at[n] = LostIn(r)
  <2>1. LostBy(r, 1, 0) = {} /\ LostBy(r, n + 1, 0) = LostIn(r)
    BY LostByIs
  <2>2. at[0] = LostBy(r, 0 + 1, 0) /\ 0 + 1 = 1 /\ at[n] = LostBy(r, n + 1, 0)
    BY <1>1
  <2> QED
    BY <2>1, <2>2
<1> QED
  BY <1>6, <1>7 DEF tally

-----------------------------------------------------------------------------
(* The page of the pool: what a replay shows. *)

\* The number of the run after this one.
After(id) == IF id = MaxRun THEN 0 ELSE id + 1

\* At most one replay is in charge, and while none is shown none is: what a
\* question finds still asleep is of the run just before it.  A question is out
\* only while its run is on.
PoolOne ==
  /\ \A i, j \in Plays : InCharge(i) /\ InCharge(j) => i = j
  /\ phase # "playing" => \A i \in Plays : ~InCharge(i)
  /\ phase = "running" =>
       \A i \in Plays : play[i].id = MaxRun + 1 \/ After(play[i].id) = runId
  /\ \A i \in Plays : play[i].id \in 0..MaxRun + 1
  /\ asking # NotAsking => phase = "running"

Totals ==
  totals = [bytes |-> totals.bytes, networkMs |-> totals.networkMs,
            computeMs |-> totals.computeMs, tokens |-> totals.tokens, lost |-> totals.lost]

\* What is on the stage is the beginning of what r comes to, and the steps that
\* replay i has left come to the rest.
Showing(i, r) ==
  /\ totals.tokens = Len(tokens)
  /\ totals.lost = Cardinality(play[i].seen)
  /\ Leads(play[i].steps, Len(tokens), Len(r.tokens), ToldBy(r))
  /\ Leads(play[i].steps, totals.computeMs, ComputedIn(r), [of |-> "compute"])
  /\ Leads(play[i].steps, totals.bytes, SentIn(r), [of |-> "bytes"])
  /\ Leads(play[i].steps, play[i].seen, LostIn(r), [of |-> "lost"])

PoolTelling ==
  /\ Totals
  /\ phase = "running" => tokens = <<>>
  /\ phase \in {"playing", "done"} => result \in Results /\ Told(tokens, result.tokens)
  /\ phase = "playing" => \A i \in Plays : InCharge(i) => Showing(i, result)

PoolInv == PageInv /\ PoolOne /\ PoolTelling /\ DoneShowsItAll

LEMMA AfterIsAnother ==
  ASSUME runId \in 0..MaxRun
  PROVE  /\ NextRun = After(runId)
         /\ NextRun \in 0..MaxRun /\ NextRun # runId /\ NextRun # MaxRun + 1
         /\ \A id \in 0..MaxRun : After(id) = runId => id # NextRun
BY PageAssumption DEF NextRun, After

LEMMA AskTells ==
  ASSUME PoolInv, NEW crash \in BOOLEAN, Ask(crash)
  PROVE  PoolInv'
<1>1. PageInv'
  BY AskKeeps DEF PoolInv
<1>2. /\ runId' = NextRun /\ phase' = "running" /\ tokens' = <<>>
      /\ UNCHANGED <<totals, play>>
      /\ \A i \in Plays : Idle(i) \/ InCharge(i)
  BY DEF Ask
<1>3. runId \in 0..MaxRun
  BY DEF PoolInv, PageInv, Shapes
<1>4. \A i \in Plays : play[i].id = MaxRun + 1 \/ play[i].id = runId
  BY <1>2 DEF Idle, NoPlay, InCharge
<1>5. \A i \in Plays : ~InCharge(i)'
  BY <1>2, <1>3, <1>4, AfterIsAnother DEF InCharge
<1>6. PoolOne'
  BY <1>2, <1>3, <1>4, <1>5, AfterIsAnother DEF PoolInv, PoolOne
<1>7. PoolTelling' /\ DoneShowsItAll'
  BY <1>2 DEF PoolInv, PoolTelling, Totals, DoneShowsItAll
<1> QED
  BY <1>1, <1>6, <1>7 DEF PoolInv

LEMMA NothingYet ==
  ASSUME NEW r \in Results
  PROVE  /\ Leads(BuildTimeline(r), 0, Len(r.tokens), ToldBy(r))
         /\ Leads(BuildTimeline(r), 0, ComputedIn(r), [of |-> "compute"])
         /\ Leads(BuildTimeline(r), 0, SentIn(r), [of |-> "bytes"])
         /\ Leads(BuildTimeline(r), {}, LostIn(r), [of |-> "lost"])
         /\ Told(<< >>, r.tokens) /\ Len(<< >>) = 0
<1>1. IsResult(r)
  BY PageAssumption
<1>2. Len(r.tokens) \in Nat
  BY <1>1, ResultIs
<1>3. Leads(BuildTimeline(r), 0, ComputedIn(r), [of |-> "compute"])
  BY <1>1, PoolComputes
<1>4. Leads(BuildTimeline(r), 0, SentIn(r), [of |-> "bytes"])
  BY <1>1, PoolSends
<1> QED
  BY <1>1, <1>2, <1>3, <1>4, PoolTells, PoolLoses, ToldNothing

LEMMA AnsweredTells ==
  ASSUME PoolInv, Answered
  PROVE  PoolInv'
<1>1. PageInv'
  BY RestKeeps DEF PoolInv
<1>2. PICK free \in Plays, r \in Results :
        /\ result' = r
        /\ play' = [play EXCEPT ![free] =
             [id |-> NextRun, steps |-> BuildTimeline(r), seen |-> {}]]
  BY DEF Answered
<1>3. /\ runId' = NextRun /\ phase' = "playing" /\ tokens' = <<>> /\ totals' = Zero
      /\ asking' = NotAsking
  BY DEF Answered
<1>4. phase = "running" /\ runId \in 0..MaxRun
  BY DEF Answered, NotAsking, PoolInv, PoolOne, PageInv, Shapes
<1>5. /\ play'[free] = [id |-> NextRun, steps |-> BuildTimeline(r), seen |-> {}]
      /\ \A i \in Plays \ {free} : play'[i] = play[i]
  BY <1>2 DEF PoolInv, PageInv, Shapes
<1>6. \A i \in Plays : play[i].id # NextRun
  <2> TAKE i \in Plays
  <2>1. play[i].id = MaxRun + 1 \/ (play[i].id \in 0..MaxRun + 1 /\ After(play[i].id) = runId)
    BY <1>4 DEF PoolInv, PoolOne
  <2>2. CASE play[i].id = MaxRun + 1
    BY <1>4, <2>2, AfterIsAnother
  <2>3. CASE play[i].id # MaxRun + 1
    <3>1. play[i].id \in 0..MaxRun /\ After(play[i].id) = runId
      BY <2>1, <2>3, PageAssumption
    <3> QED
      BY <1>4, <3>1, AfterIsAnother
  <2> QED
    BY <2>2, <2>3
<1>7. \A i \in Plays : InCharge(i)' <=> i = free
  BY <1>3, <1>5, <1>6 DEF InCharge
<1>8. PoolOne'
  <2>1. play'[free].id = NextRun
    BY <1>5
  <2>2. NextRun \in 0..MaxRun + 1
    BY <1>4, AfterIsAnother, PageAssumption
  <2>3. \A i \in Plays : play'[i].id \in 0..MaxRun + 1
    BY <1>5, <2>1, <2>2 DEF PoolInv, PoolOne
  <2> QED
    BY <1>3, <1>7, <2>3 DEF PoolOne
<1>9. PoolTelling'
  <2>1. /\ totals'.tokens = 0 /\ totals'.lost = 0 /\ totals'.computeMs = 0 /\ totals'.bytes = 0
        /\ Totals'
    BY <1>3 DEF Zero, Totals
  <2>2. play'[free].steps = BuildTimeline(r) /\ play'[free].seen = {}
    BY <1>5
  <2>3. Cardinality({}) = 0
    BY FS_EmptySet
  <2>4. Told(tokens', r.tokens) /\ Len(tokens') = 0
    BY <1>3, NothingYet
  <2>5. Showing(free, r)'
    BY <2>1, <2>2, <2>3, <2>4, NothingYet DEF Showing
  <2> QED
    BY <1>2, <1>3, <1>7, <2>1, <2>4, <2>5 DEF PoolTelling, Showing
<1>10. DoneShowsItAll'
  BY <1>3 DEF DoneShowsItAll
<1> QED
  BY <1>1, <1>8, <1>9, <1>10 DEF PoolInv

LEMMA ShowTells ==
  ASSUME PoolInv, NEW i \in Plays, ShowStep(i)
  PROVE  PoolInv'
<1> DEFINE steps == play[i].steps
           step == Head(steps)
           seen == play[i].seen
           seenNow == IF step.kind = "lost" THEN seen \cup {step.member} ELSE seen
<1>1. PageInv'
  BY RestKeeps DEF PoolInv, PlayStep
<1>2. /\ InCharge(i) /\ steps # << >>
      /\ play' = [play EXCEPT ![i] = [id |-> @.id, steps |-> Tail(steps), seen |-> seenNow]]
      /\ UNCHANGED <<phase, result, runId, asking>>
  BY DEF ShowStep, Seen
<1>3. /\ play'[i] = [id |-> play[i].id, steps |-> Tail(steps), seen |-> seenNow]
      /\ \A j \in Plays \ {i} : play'[j] = play[j]
  BY <1>2 DEF PoolInv, PageInv, Shapes
<1>4. phase = "playing" /\ \A j \in Plays : InCharge(j) => j = i
  BY <1>2 DEF PoolInv, PoolOne
<1>5. \A j \in Plays : play'[j].id = play[j].id
  BY <1>3
<1>6. PoolOne'
  BY <1>2, <1>4, <1>5 DEF PoolInv, PoolOne, InCharge
<1>7. PICK r : r = result
  OBVIOUS
<1>8. Told(tokens, r.tokens) /\ Showing(i, r) /\ result \in Results
  BY <1>2, <1>4, <1>7 DEF PoolInv, PoolTelling
<1> HIDE DEF steps
<1>9. PICK told : Moves(step, Len(tokens), told, ToldBy(r))
                    /\ Leads(Tail(steps), told, Len(r.tokens), ToldBy(r))
  BY <1>2, <1>8, LeadsTail DEF Showing, steps
<1>10. PICK ms : Moves(step, totals.computeMs, ms, [of |-> "compute"])
                   /\ Leads(Tail(steps), ms, ComputedIn(r), [of |-> "compute"])
  BY <1>2, <1>8, LeadsTail DEF Showing, steps
<1>11. PICK bytes : Moves(step, totals.bytes, bytes, [of |-> "bytes"])
                      /\ Leads(Tail(steps), bytes, SentIn(r), [of |-> "bytes"])
  BY <1>2, <1>8, LeadsTail DEF Showing, steps
<1>12. PICK ds : Moves(step, seen, ds, [of |-> "lost"])
                   /\ Leads(Tail(steps), ds, LostIn(r), [of |-> "lost"])
  BY <1>2, <1>8, LeadsTail DEF Showing, steps
<1>13. PICK b, n, c, t, l :
         totals = [bytes |-> b, networkMs |-> n, computeMs |-> c, tokens |-> t, lost |-> l]
  BY DEF PoolInv, PoolTelling, Totals
<1>14. \/ step.kind = "send" /\ ShowSend(step)
       \/ step.kind = "compute" /\ ShowCompute(step)
       \/ step.kind = "token" /\ ShowToken(step)
       \/ step.kind = "lost" /\ ShowLost(i, step)
       \/ step.kind \in {"waiting", "recovered"} /\ ShowNote(step)
  BY DEF ShowStep, steps
<1> HIDE DEF step, seen
<1>15. ds = seenNow
  <2>1. \A a, e : Moves(step, a, e, [of |-> "lost"])
                    => e = IF step.kind = "lost" THEN a \cup {step.member} ELSE a
    BY DEF Moves
  <2> QED
    BY <1>12, <2>1
<1>16. /\ step.kind = "token" => /\ told = Len(tokens) + 1
                                 /\ told <= Len(r.tokens)
                                 /\ step.text = r.tokens[told]
       /\ step.kind # "token" => told = Len(tokens)
  <2>1. ToldBy(r).of = "answer" /\ ToldBy(r).tokens = r.tokens
    BY DEF ToldBy
  <2> QED
    BY <1>9, <2>1 DEF Moves
<1>17. ms = IF step.kind = "compute" THEN c + step.computeMs ELSE c
  <2>1. \A a, e : Moves(step, a, e, [of |-> "compute"])
                    => e = IF step.kind = "compute" THEN a + step.computeMs ELSE a
    BY DEF Moves
  <2> QED
    BY <1>10, <1>13, <2>1
<1>18. bytes = IF step.kind = "send"
               THEN b + IF step.betweenDevices THEN step.bytes ELSE 0
               ELSE b
  <2>1. \A a, e : Moves(step, a, e, [of |-> "bytes"])
          => e = IF step.kind = "send"
                 THEN a + IF step.betweenDevices THEN step.bytes ELSE 0
                 ELSE a
    BY DEF Moves
  <2> QED
    BY <1>11, <1>13, <2>1
<1>19. Told(tokens', r.tokens) /\ Len(tokens') = told
  <2>1. CASE step.kind = "token"
    <3>1. tokens' = Append(tokens, step.text)
      BY <1>14, <2>1 DEF ShowToken
    <3> QED
      BY <1>8, <1>16, <2>1, <3>1, ToldOneMore
  <2>2. CASE step.kind # "token"
    <3>1. tokens' = tokens
      BY <1>14, <2>2 DEF ShowSend, ShowCompute, ShowLost, ShowNote
    <3> QED
      BY <1>8, <1>16, <2>2, <3>1
  <2> QED
    BY <2>1, <2>2
<1>20. t = Len(tokens) /\ l = Cardinality(seen)
  BY <1>8, <1>13 DEF Showing, seen
<1>21. \E n2 : totals' = [bytes |-> bytes, networkMs |-> n2, computeMs |-> ms,
                        tokens |-> told, lost |-> Cardinality(seenNow)]
  <2>1a. \A x : [totals EXCEPT !.computeMs = @ + x]
                  = [bytes |-> b, networkMs |-> n, computeMs |-> c + x, tokens |-> t, lost |-> l]
    BY <1>13
  <2>1b. [totals EXCEPT !.tokens = @ + 1]
           = [bytes |-> b, networkMs |-> n, computeMs |-> c, tokens |-> t + 1, lost |-> l]
    BY <1>13
  <2>1c. \A x : [totals EXCEPT !.lost = x]
                  = [bytes |-> b, networkMs |-> n, computeMs |-> c, tokens |-> t, lost |-> x]
    BY <1>13
  <2>1. CASE step.kind = "send"
    <3> DEFINE sent == IF step.betweenDevices THEN step.bytes ELSE 0
    <3>1. totals' = [totals EXCEPT !.networkMs = totals.networkMs + step.networkMs,
                                   !.bytes = totals.bytes + sent]
      BY <1>14, <2>1 DEF ShowSend
    <3>2. bytes = b + sent /\ ms = c /\ told = t /\ seenNow = seen
      BY <1>16, <1>17, <1>18, <1>20, <2>1
    <3> HIDE DEF sent
    <3>3. totals' = [bytes |-> b + sent, networkMs |-> n + step.networkMs, computeMs |-> c,
                     tokens |-> t, lost |-> l]
      <4>1. totals.networkMs = n /\ totals.bytes = b
        BY <1>13
      <4>2. totals' = [totals EXCEPT !.networkMs = n + step.networkMs, !.bytes = b + sent]
        BY <3>1, <4>1
      <4>3. totals' = [field \in {"bytes", "networkMs", "computeMs", "tokens", "lost"}
                         |-> totals'[field]]
        BY <1>13, <4>2
      <4>4. totals'.bytes = b + sent /\ totals'.networkMs = n + step.networkMs
        BY <1>13, <4>2
      <4>5. totals'.computeMs = c /\ totals'.tokens = t /\ totals'.lost = l
        BY <1>13, <4>2
      <4> QED
        BY <4>3, <4>4, <4>5
    <3> HIDE DEF seenNow
    <3> QED
      BY <1>20, <3>2, <3>3
  <2>2. CASE step.kind = "compute"
    <3>1. totals' = [totals EXCEPT !.computeMs = @ + step.computeMs]
      BY <1>14, <2>2 DEF ShowCompute
    <3>2. bytes = b /\ ms = c + step.computeMs /\ told = t /\ seenNow = seen
      BY <1>16, <1>17, <1>18, <1>20, <2>2
    <3>3. totals' = [bytes |-> b, networkMs |-> n, computeMs |-> c + step.computeMs,
                     tokens |-> t, lost |-> l]
      BY <1>13, <2>1a, <3>1
    <3> HIDE DEF seenNow
    <3> QED
      BY <1>20, <3>2, <3>3
  <2>3. CASE step.kind = "token"
    <3>1. totals' = [totals EXCEPT !.tokens = @ + 1]
      BY <1>14, <2>3 DEF ShowToken
    <3>2. bytes = b /\ ms = c /\ told = t + 1 /\ seenNow = seen
      BY <1>16, <1>17, <1>18, <1>20, <2>3
    <3>3. totals' = [bytes |-> b, networkMs |-> n, computeMs |-> c, tokens |-> t + 1, lost |-> l]
      BY <1>13, <2>1b, <3>1
    <3> HIDE DEF seenNow
    <3> QED
      BY <1>20, <3>2, <3>3
  <2>4. CASE step.kind = "lost"
    <3>1. bytes = b /\ ms = c /\ told = t /\ seenNow = seen \cup {step.member}
      BY <1>16, <1>17, <1>18, <1>20, <2>4
    <3>2. totals' = IF step.member \in seen THEN totals
                    ELSE [totals EXCEPT !.lost = Cardinality(seen \cup {step.member})]
      BY <1>14, <2>4 DEF ShowLost, Seen, seen
    <3>3. totals' = [bytes |-> b, networkMs |-> n, computeMs |-> c, tokens |-> t,
                     lost |-> Cardinality(seen \cup {step.member})]
      <4>1. CASE step.member \in seen
        <5>1. seen \cup {step.member} = seen
          BY <4>1
        <5> QED
          BY <1>13, <1>20, <3>2, <4>1, <5>1
      <4>2. CASE step.member \notin seen
        BY <1>13, <2>1c, <3>2, <4>2
      <4> QED
        BY <4>1, <4>2
    <3> HIDE DEF seenNow
    <3> QED
      BY <3>1, <3>3
  <2>5. CASE step.kind \in {"waiting", "recovered"}
    <3>1. totals' = totals
      BY <1>14, <2>5 DEF ShowNote
    <3>2. bytes = b /\ ms = c /\ told = t /\ seenNow = seen
      BY <1>16, <1>17, <1>18, <1>20, <2>5
    <3> HIDE DEF seenNow
    <3> QED
      BY <1>13, <1>20, <3>1, <3>2
  <2> QED
    BY <1>14, <2>1, <2>2, <2>3, <2>4, <2>5
<1>22. Totals'
  BY <1>21 DEF Totals
<1>23. Showing(i, r)'
  <2>1. play'[i].steps = Tail(steps) /\ play'[i].seen = seenNow
    BY <1>3
  <2>2. /\ totals'.bytes = bytes /\ totals'.computeMs = ms /\ totals'.tokens = told
        /\ totals'.lost = Cardinality(seenNow)
    BY <1>21
  <2> QED
    BY <1>9, <1>10, <1>11, <1>12, <1>15, <1>19, <2>1, <2>2 DEF Showing
<1>24. PoolTelling'
  <2>1. \A j \in Plays : InCharge(j)' => j = i
    BY <1>2, <1>4, <1>5 DEF InCharge
  <2>2. r' = r /\ result' = r
    BY <1>2, <1>7
  <2> QED
    BY <1>2, <1>4, <1>7, <1>8, <1>19, <1>22, <1>23, <2>1, <2>2 DEF PoolTelling
<1>25. DoneShowsItAll'
  BY <1>2, <1>4 DEF DoneShowsItAll
<1> QED
  BY <1>1, <1>6, <1>24, <1>25 DEF PoolInv

\* The last step was shown: all of it is there.
LEMMA EndsTell ==
  ASSUME PoolInv, NEW i \in Plays, PlayEnds(i)
  PROVE  PoolInv'
<1>1. PageInv'
  BY RestKeeps DEF PoolInv, PlayStep
<1>2. /\ InCharge(i) /\ play[i].steps = << >>
      /\ phase' = "done" /\ frozen' = None /\ lost' = {}
      /\ play' = [play EXCEPT ![i] = NoPlay]
      /\ UNCHANGED <<result, runId, tokens, totals, asking>>
  BY DEF PlayEnds
<1>3. /\ play'[i].id = MaxRun + 1
      /\ \A j \in Plays \ {i} : play'[j] = play[j]
  BY <1>2 DEF PoolInv, PageInv, Shapes, NoPlay
<1>4. phase = "playing" /\ \A j \in Plays : InCharge(j) => j = i
  BY <1>2 DEF PoolInv, PoolOne
<1>5. runId \in 0..MaxRun /\ MaxRun + 1 \in 0..MaxRun + 1 /\ runId # MaxRun + 1
  BY PageAssumption DEF PoolInv, PageInv, Shapes
<1>6. \A j \in Plays : ~InCharge(j)'
  BY <1>2, <1>3, <1>4, <1>5 DEF InCharge
<1>7. asking = NotAsking
  BY <1>4 DEF PoolInv, PoolOne
<1>8. PoolOne'
  <2>1. \A j \in Plays : play'[j].id \in 0..MaxRun + 1
    BY <1>3, <1>5 DEF PoolInv, PoolOne
  <2>2. asking' = NotAsking'
    BY <1>2, <1>7 DEF NotAsking
  <2> QED
    BY <1>2, <1>6, <2>1, <2>2 DEF PoolOne
<1>9. result \in Results /\ Told(tokens, result.tokens) /\ Showing(i, result)
  BY <1>2, <1>4 DEF PoolInv, PoolTelling
<1>10. PoolTelling'
  BY <1>2, <1>9 DEF PoolInv, PoolTelling, Totals
<1>11. /\ Len(tokens) = Len(result.tokens)
       /\ totals.computeMs = ComputedIn(result)
       /\ totals.bytes = SentIn(result)
       /\ play[i].seen = LostIn(result)
  BY <1>2, <1>9, LeadsEnd DEF Showing
<1>12. tokens = result.tokens
  <2>1. IsSeq(result.tokens)
    BY <1>9, PageAssumption, ResultIs
  <2> QED
    BY <1>9, <1>11, <2>1, SameSeq DEF Told
<1>13. DoneShowsItAll'
  BY <1>2, <1>9, <1>11, <1>12 DEF DoneShowsItAll, Showing
<1> QED
  BY <1>1, <1>8, <1>10, <1>13 DEF PoolInv

\* What neither shows a step nor begins or ends a replay leaves the stage as it
\* is.
LEMMA OthersTell ==
  ASSUME PoolInv,
         \/ PictureArrives \/ DeviceSilent \/ Failed \/ CrashTimer
         \/ \E i \in Plays : Cancelled(i)
  PROVE  PoolInv'
<1>1. PageInv'
  BY RestKeeps, TimerKeeps DEF PoolInv, PlayStep
<1>2. CASE PictureArrives \/ CrashTimer
  <2>1. UNCHANGED <<phase, frozen, lost, result, runId, tokens, totals, play, asking>>
    BY <1>2 DEF PictureArrives, CrashTimer, stage
  <2> QED
    BY <1>1, <2>1 DEF PoolInv, PoolOne, PoolTelling, Totals, Showing, DoneShowsItAll, InCharge,
                      NotAsking
<1>3. CASE DeviceSilent
  <2>1. UNCHANGED <<phase, frozen, lost, result, runId, tokens, totals, play>>
        /\ asking # NotAsking
    <3>1. asking.at # None /\ NotAsking.at = None
      BY <1>3 DEF DeviceSilent, NotAsking
    <3> QED
      BY <1>3, <3>1 DEF DeviceSilent, stage
  <2>2. phase = "running"
    BY <2>1 DEF PoolInv, PoolOne
  <2>3. PoolOne'
    BY <2>1, <2>2 DEF PoolInv, PoolOne, InCharge
  <2>4. PoolTelling'
    BY <2>1, <2>2 DEF PoolInv, PoolTelling, Totals
  <2>5. DoneShowsItAll'
    BY <2>1, <2>2 DEF DoneShowsItAll
  <2> QED
    BY <1>1, <2>3, <2>4, <2>5 DEF PoolInv
<1>4. CASE Failed
  <2>1. /\ phase = "running" /\ phase' = "idle" /\ asking' = NotAsking
        /\ UNCHANGED <<runId, tokens, totals, play>>
    BY <1>4 DEF Failed, stage, Running
  <2> QED
    BY <1>1, <2>1 DEF PoolInv, PoolOne, PoolTelling, Totals, DoneShowsItAll, InCharge, NotAsking
<1>5. ASSUME NEW i \in Plays, Cancelled(i) PROVE PoolInv'
  <2>1. /\ ~InCharge(i)
        /\ play' = [play EXCEPT ![i] = NoPlay]
        /\ UNCHANGED <<phase, frozen, lost, result, runId, tokens, totals, asking>>
    BY <1>5 DEF Cancelled, stage
  <2>2. /\ play'[i].id = MaxRun + 1
        /\ \A j \in Plays \ {i} : play'[j] = play[j]
    BY <2>1 DEF PoolInv, PageInv, Shapes, NoPlay
  <2>3. runId \in 0..MaxRun /\ MaxRun + 1 \in 0..MaxRun + 1 /\ runId # MaxRun + 1
    BY PageAssumption DEF PoolInv, PageInv, Shapes
  <2>4. \A j \in Plays : InCharge(j)' => InCharge(j) /\ play'[j] = play[j]
    BY <2>1, <2>2, <2>3 DEF InCharge
  <2>5. PoolOne'
    BY <2>1, <2>2, <2>3, <2>4 DEF PoolInv, PoolOne, NotAsking
  <2>6. PoolTelling'
    BY <2>1, <2>4 DEF PoolInv, PoolTelling, Totals, Showing
  <2>7. DoneShowsItAll'
    BY <2>1 DEF PoolInv, DoneShowsItAll
  <2> QED
    BY <1>1, <2>5, <2>6, <2>7 DEF PoolInv
<1> QED
  BY <1>2, <1>3, <1>4, <1>5

LEMMA PoolStarts == Init => PoolInv
<1> SUFFICES ASSUME Init PROVE PoolInv
  OBVIOUS
<1>1. /\ phase = "idle" /\ runId = 0 /\ totals = Zero /\ asking = NotAsking /\ timer = NoTimer
      /\ play = [i \in Plays |-> NoPlay]
  BY DEF Init
<1>2. PageInv
  BY <1>1, PageAssumption DEF PageInv, Shapes, NoneInCharge, TimerIsOurs, NoTimer, NotAsking, NoPlay
<1>3. \A i \in Plays : play[i].id = MaxRun + 1
  BY <1>1 DEF NoPlay
<1>4. 0 # MaxRun + 1 /\ MaxRun + 1 \in 0..MaxRun + 1
  BY PageAssumption
<1>5. PoolOne
  BY <1>1, <1>3, <1>4 DEF PoolOne, InCharge
<1>6. PoolTelling /\ DoneShowsItAll
  BY <1>1 DEF PoolTelling, Totals, Zero, DoneShowsItAll
<1> QED
  BY <1>2, <1>5, <1>6 DEF PoolInv

LEMMA PoolKeeps == SiteSpec => []PoolInv
<1>1. SiteInit => PoolInv
  BY PoolStarts DEF SiteInit
<1>2. PoolInv /\ [SiteNext]_siteVars => PoolInv'
  <2> SUFFICES ASSUME PoolInv, [SiteNext]_siteVars PROVE PoolInv'
    OBVIOUS
  <2>1. CASE OnTwoDevices \/ OnDetails \/ UNCHANGED siteVars
    <3>1. UNCHANGED <<phase, frozen, lost, result, runId, tokens, totals, play, asking, timer>>
      BY <2>1 DEF OnTwoDevices, OnDetails, TwoDevicesOpen, DetailsOpen, siteVars, vars, stage
    <3>2. PageInv'
      BY <3>1 DEF PoolInv, PageInv, Shapes, NoneInCharge, TimerIsOurs, HadChoice, Alive, Members
    <3> QED
      BY <3>1, <3>2 DEF PoolInv, PoolOne, PoolTelling, Totals, Showing, DoneShowsItAll, InCharge,
                        NotAsking
  <2>2. ASSUME NEW crash \in BOOLEAN, Ask(crash) PROVE PoolInv'
    BY <2>2, AskTells
  <2>3. CASE Answered
    BY <2>3, AnsweredTells
  <2>4. ASSUME NEW i \in Plays, ShowStep(i) PROVE PoolInv'
    BY <2>4, ShowTells
  <2>5. ASSUME NEW i \in Plays, PlayEnds(i) PROVE PoolInv'
    BY <2>5, EndsTell
  <2>6. CASE \/ PictureArrives \/ DeviceSilent \/ Failed \/ CrashTimer
             \/ \E i \in Plays : Cancelled(i)
    BY <2>6, OthersTell
  <2>7. ASSUME NEW to \in {"/", "/two-devices", "/details"}, Follow(to)
        PROVE  PoolInv'
    <3>1. PoolMounts
      BY <2>7 DEF Follow
    <3>2. /\ phase' = "idle" /\ runId' = 0 /\ totals' = Zero /\ asking' = NotAsking
          /\ timer' = NoTimer /\ play' = [i \in Plays |-> NoPlay]
      BY <3>1 DEF PoolMounts
    <3>3. PageInv'
      BY <3>2, PageAssumption DEF PageInv, Shapes, NoneInCharge, TimerIsOurs, NoTimer, NotAsking, NoPlay
    <3>4. \A i \in Plays : play'[i].id = MaxRun + 1
      BY <3>2 DEF NoPlay
    <3>5. 0 # MaxRun + 1 /\ MaxRun + 1 \in 0..MaxRun + 1
      BY PageAssumption
    <3>6. PoolOne'
      BY <3>2, <3>4, <3>5 DEF PoolOne, InCharge, NotAsking
    <3>7. PoolTelling' /\ DoneShowsItAll'
      BY <3>2 DEF PoolTelling, Totals, Zero, DoneShowsItAll
    <3> QED
      BY <3>3, <3>6, <3>7 DEF PoolInv
  <2> QED
    BY <2>1, <2>2, <2>3, <2>4, <2>5, <2>6, <2>7 DEF SiteNext, OnPoolPage, PlayStep
<1> QED
  BY <1>1, <1>2, PTL DEF SiteSpec

\* On the page of the pool nothing of an older answer is shown as part of the
\* one that was asked for, for any results, however often the user asked, had a
\* device crash, replayed or left the page while replays were still asleep
\* (page.tsx, run and play).
THEOREM AnswersOfThisRun == SiteSpec => []AnswerIsOfThisRun
<1>1. PoolInv => AnswerIsOfThisRun
  <2> SUFFICES ASSUME PoolInv PROVE AnswerIsOfThisRun
    OBVIOUS
  <2>1. Running => tokens = <<>>
    BY DEF PoolInv, PoolTelling, Running
  <2>2. ASSUME phase \in {"playing", "done"}
        PROVE  result # None /\ IsPrefix(tokens, result.tokens)
    <3>1. result \in Results /\ Told(tokens, result.tokens)
      BY <2>2 DEF PoolInv, PoolTelling
    <3> QED
      BY <3>1, ToldIsPrefix, PageAssumption
  <2> QED
    BY <2>1, <2>2 DEF AnswerIsOfThisRun
<1> QED
  BY <1>1, PoolKeeps, PTL

\* And a finished replay has shown the whole of it: every token, the time every
\* hop computed, the bytes of every hop between devices and every device lost,
\* each once, whatever the result; and the stage is live again.
THEOREM DoneHasShownItAll == SiteSpec => []DoneShowsItAll
<1>1. PoolInv => DoneShowsItAll
  BY DEF PoolInv
<1> QED
  BY <1>1, PoolKeeps, PTL

-----------------------------------------------------------------------------
(* What a whole generation of the chain adds up to. *)

\* What pass i says of device k.
ChainHop(r, n, i, k) == r.hops[(i - 1) * n + k]

\* A pass leads the tally from here to there, by way of mid[k] after device k;
\* mid[0] is when the first is reached.
PassMoves(r, n, i, from, mid, to, tally) ==
  /\ \A bytes : Moves(ChainSend(0, bytes, FALSE, Half(ChainHop(r, n, i, 1))), from, mid[0], tally)
  /\ \A k \in 1..n :
       \E b : /\ IF k = 1 THEN mid[k - 1] = b
                 ELSE \A bytes :
                        Moves(ChainSend(k - 1, bytes, TRUE,
                                        Half(ChainHop(r, n, i, k - 1)) + Half(ChainHop(r, n, i, k))),
                              mid[k - 1], b, tally)
              /\ Moves(ChainCompute(k - 1, ChainHop(r, n, i, k).compute_ms), b, mid[k], tally)
  /\ \A bytes : Moves(ChainSend(n, bytes, FALSE, Half(ChainHop(r, n, i, n))), mid[n], to, tally)
  /\ \A text : Moves(ChainToken(text), to, to, tally)

LEMMA GenerationLeads ==
  ASSUME NEW r, NEW n \in Nat \ {0}, NEW p \in Nat, IsSeq(r.hops), Len(r.hops) = p * n,
         NEW tally, NEW at, NEW mid,
         \A i \in 1..p : PassMoves(r, n, i, at[i - 1], mid[i], at[i], tally)
  PROVE  Leads(ChainTimeline(r, n), at[0], at[p], tally)
<1> DEFINE passes == Passes(r.hops, n)
<1>1. /\ Len(passes) = p
      /\ \A i \in 1..p :
           /\ Len(passes[i]) = n
           /\ \A k \in 1..n : passes[i][k] = ChainHop(r, n, i, k)
  <2> DEFINE hops == r.hops
  <2>1. IsSeq(hops) /\ Len(hops) = p * n
    OBVIOUS
  <2> HIDE DEF hops
  <2>2. AreWhole(hops, n, p)
    BY <2>1, WholePass
  <2> QED
    BY <2>2 DEF hops, ChainHop, AreWhole
<1>2. \A i \in 1..p : IsSeq(passes[i])
  <2> DEFINE hops == r.hops
  <2>1. IsSeq(hops)
    OBVIOUS
  <2>2. \A i \in 1..p : i \in 1..Len(Passes(hops, n))
    BY <1>1
  <2> HIDE DEF hops
  <2>3. \A i \in 1..p : IsSeq(Passes(hops, n)[i])
    BY <2>1, <2>2, PassIs
  <2> QED
    BY <2>3 DEF hops
<1> HIDE DEF passes
<1>3. ASSUME NEW i \in 1..p
      PROVE  Leads(ChainPassSteps(passes[i], r.tokens, i), at[i - 1], at[i], tally)
  <2> DEFINE pass == passes[i]
             m == mid[i]
             a == at[i - 1]
             e == at[i]
             toks == r.tokens
  <2>1. IsSeq(pass) /\ Len(pass) = n /\ \A k \in 1..n : pass[k] = ChainHop(r, n, i, k)
    BY <1>1, <1>2
  <2>2. PassMoves(r, n, i, a, m, e, tally)
    OBVIOUS
  <2>3. 1 \in 1..n /\ n \in 1..n
    OBVIOUS
  <2>4. pass[1] = ChainHop(r, n, i, 1) /\ Last(pass) = ChainHop(r, n, i, n)
    BY <2>1, <2>3 DEF Last
  <2> HIDE DEF pass, m, a, e, toks
  <2>5. Moves(ChainSend(0, pass[1].sent_bytes, FALSE, Half(pass[1])), a, m[0], tally)
    BY <2>2, <2>4 DEF PassMoves
  <2>6. Moves(ChainSend(Len(pass), Last(pass).received_bytes, FALSE, Half(Last(pass))), m[n], e, tally)
    BY <2>1, <2>2, <2>4 DEF PassMoves
  <2>7. \A k \in 1..n : Leads(DeviceSteps(pass, k), m[k - 1], m[k], tally)
    <3> TAKE k \in 1..n
    <3>1. PICK b :
            /\ IF k = 1 THEN m[k - 1] = b
               ELSE \A bytes : Moves(ChainSend(k - 1, bytes, TRUE,
                                       Half(ChainHop(r, n, i, k - 1)) + Half(ChainHop(r, n, i, k))),
                                     m[k - 1], b, tally)
            /\ Moves(ChainCompute(k - 1, ChainHop(r, n, i, k).compute_ms), b, m[k], tally)
      BY <2>2 DEF PassMoves
    <3>2. pass[k] = ChainHop(r, n, i, k)
      BY <2>1
    <3>3. k # 1 => pass[k - 1] = ChainHop(r, n, i, k - 1)
      <4>1. k # 1 => k - 1 \in 1..n
        OBVIOUS
      <4> QED
        BY <2>1, <4>1
    <3>4. IF k = 1 THEN m[k - 1] = b
          ELSE Moves(ChainSend(k - 1, pass[k].sent_bytes, TRUE, Half(pass[k - 1]) + Half(pass[k])),
                     m[k - 1], b, tally)
      BY <3>1, <3>2, <3>3
    <3>5. Moves(ChainCompute(k - 1, pass[k].compute_ms), b, m[k], tally)
      BY <3>1, <3>2
    <3> QED
      BY <3>4, <3>5, DeviceLeads
  <2>8. IF i <= Len(toks) THEN Moves(ChainToken(toks[i]), e, e, tally) ELSE e = e
    BY <2>2 DEF PassMoves
  <2>9. Leads(ChainPassSteps(pass, toks, i), a, e, tally)
    BY <2>1, <2>5, <2>6, <2>7, <2>8, PassLeads
  <2> QED
    BY <2>9 DEF pass, a, e, toks
<1>4. Leads(ChainTimeline(r, n), at[0], at[Len(passes)], tally)
  BY <1>1, <1>3, TimelineLeads DEF passes
<1> QED
  BY <1>1, <1>4

\* s[j] is what the first j of m numbers come to.
RunsUp(s, v, m) ==
  /\ s[0] = 0
  /\ \A j \in 0..m : s[j] \in Nat
  /\ \A j \in 1..m : v[j] \in Nat /\ s[j] = s[j - 1] + v[j]

LEMMA SumRunsUp ==
  ASSUME NEW m \in Nat, NEW v, NEW f, Sums(f, v, 1..m)
  PROVE  \E s : RunsUp(s, v, m) /\ s[m] = f[1..m]
<1> DEFINE s == [j \in 0..m |-> f[1..j]]
<1>1. \A j \in 0..m : 1..j \in SUBSET (1..m) /\ s[j] = f[1..j]
  OBVIOUS
<1>2. \A j \in 0..m : s[j] \in Nat
  BY <1>1, SumType
<1>3. s[0] = 0
  <2>1. 1..0 = {} /\ {} \in SUBSET (1..m)
    OBVIOUS
  <2>2. f[{}] = 0
    BY <2>1, SumIs
  <2> QED
    BY <1>1, <2>1, <2>2
<1>4. ASSUME NEW j \in 1..m
      PROVE  v[j] \in Nat /\ s[j] = s[j - 1] + v[j]
  <2> DEFINE t == 1..j - 1
  <2>1. /\ t \in SUBSET (1..m) /\ j \notin t /\ t \cup {j} = 1..j
        /\ j \in 0..m /\ j - 1 \in 0..m
    OBVIOUS
  <2>2. s[j] = f[1..j] /\ s[j - 1] = f[t]
    BY <1>1, <2>1
  <2> HIDE DEF t, s
  <2>3. f[t \cup {j}] = f[t] + v[j]
    BY <2>1, SumAdds
  <2> QED
    BY <2>1, <2>2, <2>3 DEF Sums
<1>5. s[m] = f[1..m]
  BY <1>1
<1> HIDE DEF s
<1> QED
  BY <1>2, <1>3, <1>4, <1>5 DEF RunsUp

LEMMA TransportRunsUp ==
  ASSUME NEW hops, IsSeq(hops), \A j \in DOMAIN hops : hops[j].transport_ms \in Nat
  PROVE  \E v, s : /\ RunsUp(s, v, Len(hops)) /\ s[Len(hops)] = TransportOf(hops)
                   /\ \A j \in 1..Len(hops) : v[j] = hops[j].transport_ms
<1> DEFINE D == DOMAIN hops
           of(j) == hops[j].transport_ms
           v == [j \in D |-> of(j)]
           def(f) == f = [t \in SUBSET D |-> IF t = {} THEN 0
                           ELSE of(CHOOSE x \in t : TRUE) + f[t \ {CHOOSE x \in t : TRUE}]]
           iter == CHOOSE f : def(f)
<1>1. D = 1..Len(hops) /\ Len(hops) \in Nat /\ IsFiniteSet(D)
  BY SeqIs, FS_Interval
<1>2. \A j \in D : v[j] = hops[j].transport_ms /\ v[j] \in Nat
  OBVIOUS
<1>3. TransportOf(hops) = iter[D]
  BY DEF TransportOf, SumOfHops, MapThenSumSet, MapThenFoldSet
<1>4. \A f : def(f) <=> SumsOver(f, v, SUBSET D)
  <2>1. \A t \in SUBSET D : t # {} => v[Pick(t)] = of(Pick(t))
    <3>1. \A t \in SUBSET D : t # {} => Pick(t) \in D
      BY PickIn
    <3> QED
      BY <1>2, <3>1
  <2> HIDE DEF D, v
  <2>2. \A f : [t \in SUBSET D |-> IF t = {} THEN 0 ELSE of(Pick(t)) + f[t \ {Pick(t)}]]
               = [t \in SUBSET D |-> IF t = {} THEN 0 ELSE v[Pick(t)] + f[t \ {Pick(t)}]]
    BY <2>1
  <2> QED
    BY <2>2 DEF SumsOver, Pick
<1> HIDE DEF D, v
<1>5. \E f : def(f)
  <2> HIDE DEF def
  <2> QED
    BY <1>1, <1>4, SumExists
<1>6. def(iter)
  <2> HIDE DEF def
  <2> QED
    BY <1>5
<1>7. Sums(iter, v, D)
  <2> HIDE DEF iter, def
  <2> QED
    BY <1>1, <1>2, <1>4, <1>6 DEF Sums
<1> HIDE DEF iter
<1>8. PICK s : RunsUp(s, v, Len(hops)) /\ s[Len(hops)] = iter[D]
  BY <1>1, <1>7, SumRunsUp
<1> QED
  BY <1>1, <1>2, <1>3, <1>8

LEMMA ComputeRunsUp ==
  ASSUME NEW hops, IsSeq(hops), \A j \in DOMAIN hops : hops[j].compute_ms \in Nat
  PROVE  \E v, s : /\ RunsUp(s, v, Len(hops)) /\ s[Len(hops)] = ComputeOf(hops)
                   /\ \A j \in 1..Len(hops) : v[j] = hops[j].compute_ms
<1> DEFINE D == DOMAIN hops
           of(j) == hops[j].compute_ms
           v == [j \in D |-> of(j)]
           def(f) == f = [t \in SUBSET D |-> IF t = {} THEN 0
                           ELSE of(CHOOSE x \in t : TRUE) + f[t \ {CHOOSE x \in t : TRUE}]]
           iter == CHOOSE f : def(f)
<1>1. D = 1..Len(hops) /\ Len(hops) \in Nat /\ IsFiniteSet(D)
  BY SeqIs, FS_Interval
<1>2. \A j \in D : v[j] = hops[j].compute_ms /\ v[j] \in Nat
  OBVIOUS
<1>3. ComputeOf(hops) = iter[D]
  BY DEF ComputeOf, SumOfHops, MapThenSumSet, MapThenFoldSet
<1>4. \A f : def(f) <=> SumsOver(f, v, SUBSET D)
  <2>1. \A t \in SUBSET D : t # {} => v[Pick(t)] = of(Pick(t))
    <3>1. \A t \in SUBSET D : t # {} => Pick(t) \in D
      BY PickIn
    <3> QED
      BY <1>2, <3>1
  <2> HIDE DEF D, v
  <2>2. \A f : [t \in SUBSET D |-> IF t = {} THEN 0 ELSE of(Pick(t)) + f[t \ {Pick(t)}]]
               = [t \in SUBSET D |-> IF t = {} THEN 0 ELSE v[Pick(t)] + f[t \ {Pick(t)}]]
    BY <2>1
  <2> QED
    BY <2>2 DEF SumsOver, Pick
<1> HIDE DEF D, v
<1>5. \E f : def(f)
  <2> HIDE DEF def
  <2> QED
    BY <1>1, <1>4, SumExists
<1>6. def(iter)
  <2> HIDE DEF def
  <2> QED
    BY <1>5
<1>7. Sums(iter, v, D)
  <2> HIDE DEF iter, def
  <2> QED
    BY <1>1, <1>2, <1>4, <1>6 DEF Sums
<1> HIDE DEF iter
<1>8. PICK s : RunsUp(s, v, Len(hops)) /\ s[Len(hops)] = iter[D]
  BY <1>1, <1>7, SumRunsUp
<1> QED
  BY <1>1, <1>2, <1>3, <1>8

\* Pass i of the chain, where s runs up what is measured and z hops were before:
\* the time on the network, half of it before a device computes and half after,
LEMMA NetworkPass ==
  ASSUME NEW r, NEW n \in Nat \ {0}, NEW i, NEW m \in Nat, NEW v, NEW s, RunsUp(s, v, m),
         NEW z \in Nat, z + n <= m,
         \A k \in 1..n : /\ Half(ChainHop(r, n, i, k)) \in Nat
                         /\ v[z + k] = 2 * Half(ChainHop(r, n, i, k))
  PROVE  \E mid : PassMoves(r, n, i, s[z], mid, s[z + n], [of |-> "network"])
<1> DEFINE tally == [of |-> "network"]
           half == [k \in 1..n |-> Half(ChainHop(r, n, i, k))]
           mid == [k \in 0..n |-> IF k = 0 THEN s[z] + half[1] ELSE s[z + k - 1] + half[k]]
<1>1. \A k \in 1..n : /\ half[k] = Half(ChainHop(r, n, i, k)) /\ half[k] \in Nat
                      /\ v[z + k] = 2 * half[k]
  OBVIOUS
<1>2. /\ \A j \in 0..n : s[z + j] \in Nat
      /\ \A k \in 1..n : s[z + k] = s[z + k - 1] + v[z + k]
  <2>1. \A j \in 0..n : z + j \in 0..m
    OBVIOUS
  <2>2. \A k \in 1..n : z + k \in 1..m
    OBVIOUS
  <2> QED
    BY <2>1, <2>2 DEF RunsUp
<1>3. 1 \in 1..n /\ n \in 1..n
  OBVIOUS
<1>4. mid[0] = s[z] + half[1] /\ \A k \in 1..n : mid[k] = s[z + k - 1] + half[k]
  OBVIOUS
<1>5. tally.of = "network"
  OBVIOUS
<1> HIDE DEF mid, half, tally
<1>6. \A bytes : Moves(ChainSend(0, bytes, FALSE, half[1]), s[z], mid[0], tally)
  BY <1>4, <1>5 DEF Moves, ChainSend
<1>7. ASSUME NEW k \in 1..n
      PROVE  \E b : /\ IF k = 1 THEN mid[k - 1] = b
                       ELSE \A bytes : Moves(ChainSend(k - 1, bytes, TRUE, half[k - 1] + half[k]),
                                             mid[k - 1], b, tally)
                    /\ Moves(ChainCompute(k - 1, ChainHop(r, n, i, k).compute_ms), b, mid[k], tally)
  <2>1. \A ms : Moves(ChainCompute(k - 1, ms), mid[k], mid[k], tally)
    BY <1>5 DEF Moves, ChainCompute
  <2>2. CASE k = 1
    <3>1. mid[k - 1] = mid[k]
      BY <1>3, <1>4, <2>2
    <3> QED
      BY <2>1, <2>2, <3>1
  <2>3. CASE k # 1
    <3>1. mid[k] = mid[k - 1] + (half[k - 1] + half[k])
      <4>1. k - 1 \in 1..n /\ z + (k - 1) = z + k - 1 /\ z + (k - 1) - 1 \in Nat
        BY <2>3
      <4>2. mid[k - 1] = s[z + (k - 1) - 1] + half[k - 1] /\ mid[k] = s[z + k - 1] + half[k]
        BY <1>4, <4>1
      <4>3. /\ s[z + (k - 1)] = s[z + (k - 1) - 1] + v[z + (k - 1)]
            /\ v[z + (k - 1)] = 2 * half[k - 1]
            /\ half[k - 1] \in Nat /\ half[k] \in Nat
        BY <1>1, <1>2, <4>1
      <4>4. s[z + (k - 1) - 1] \in Nat
        <5>1. k - 2 \in 0..n /\ z + (k - 2) = z + (k - 1) - 1
          BY <2>3
        <5> QED
          BY <1>2, <5>1
      <4> QED
        BY <4>1, <4>2, <4>3, <4>4
    <3>2. \A bytes : Moves(ChainSend(k - 1, bytes, TRUE, half[k - 1] + half[k]),
                           mid[k - 1], mid[k], tally)
      BY <1>5, <3>1 DEF Moves, ChainSend
    <3> QED
      BY <2>1, <2>3, <3>2
  <2> QED
    BY <2>2, <2>3
<1>8. \A bytes : Moves(ChainSend(n, bytes, FALSE, half[n]), mid[n], s[z + n], tally)
  <2>1. s[z + n] = mid[n] + half[n]
    <3>1. /\ mid[n] = s[z + n - 1] + half[n]
          /\ s[z + n] = s[z + n - 1] + v[z + n] /\ v[z + n] = 2 * half[n] /\ half[n] \in Nat
      BY <1>1, <1>2, <1>3, <1>4
    <3>2. s[z + n - 1] \in Nat
      <4>1. n - 1 \in 0..n /\ z + (n - 1) = z + n - 1
        OBVIOUS
      <4> QED
        BY <1>2, <4>1
    <3> QED
      BY <3>1, <3>2
  <2> QED
    BY <1>5, <2>1 DEF Moves, ChainSend
<1>9. \A text : Moves(ChainToken(text), s[z + n], s[z + n], tally)
  BY <1>5 DEF Moves, ChainToken
<1>10. PassMoves(r, n, i, s[z], mid, s[z + n], tally)
  <2>1. half[1] = Half(ChainHop(r, n, i, 1)) /\ half[n] = Half(ChainHop(r, n, i, n))
    BY <1>1, <1>3
  <2>2. \A k \in 1..n : k # 1 => half[k - 1] = Half(ChainHop(r, n, i, k - 1))
    <3>1. \A k \in 1..n : k # 1 => k - 1 \in 1..n
      OBVIOUS
    <3> QED
      BY <1>1, <3>1
  <2>3. ASSUME NEW k \in 1..n
        PROVE  \E b : /\ IF k = 1 THEN mid[k - 1] = b
                         ELSE \A bytes :
                                Moves(ChainSend(k - 1, bytes, TRUE,
                                  Half(ChainHop(r, n, i, k - 1)) + Half(ChainHop(r, n, i, k))),
                                      mid[k - 1], b, tally)
                      /\ Moves(ChainCompute(k - 1, ChainHop(r, n, i, k).compute_ms), b, mid[k], tally)
    <3>1. half[k] = Half(ChainHop(r, n, i, k))
      BY <1>1
    <3> QED
      BY <1>7, <2>2, <3>1
  <2> QED
    BY <1>6, <1>8, <1>9, <2>1, <2>3 DEF PassMoves
<1> QED
  BY <1>10 DEF tally

\* the time computing,
LEMMA ComputePass ==
  ASSUME NEW r, NEW n \in Nat \ {0}, NEW i, NEW m \in Nat, NEW v, NEW s, RunsUp(s, v, m),
         NEW z \in Nat, z + n <= m,
         \A k \in 1..n : v[z + k] = ChainHop(r, n, i, k).compute_ms
  PROVE  \E mid : PassMoves(r, n, i, s[z], mid, s[z + n], [of |-> "compute"])
<1> DEFINE tally == [of |-> "compute"]
           mid == [k \in 0..n |-> s[z + k]]
<1>1. \A k \in 1..n : s[z + k] = s[z + (k - 1)] + v[z + k]
  <2>1. \A k \in 1..n : z + k \in 1..m /\ z + k - 1 = z + (k - 1)
    OBVIOUS
  <2> QED
    BY <2>1 DEF RunsUp
<1>2. /\ mid[0] = s[z] /\ mid[n] = s[z + n]
      /\ \A k \in 1..n : mid[k - 1] = s[z + (k - 1)] /\ mid[k] = s[z + k]
  OBVIOUS
<1>3. tally.of = "compute"
  OBVIOUS
<1> HIDE DEF mid, tally
<1>4. \A x : /\ \A l, bytes, between, ms : Moves(ChainSend(l, bytes, between, ms), x, x, tally)
             /\ \A text : Moves(ChainToken(text), x, x, tally)
  BY <1>3 DEF Moves, ChainSend, ChainToken
<1>5. ASSUME NEW k \in 1..n
      PROVE  Moves(ChainCompute(k - 1, ChainHop(r, n, i, k).compute_ms), mid[k - 1], mid[k], tally)
  <2>1. mid[k] = mid[k - 1] + ChainHop(r, n, i, k).compute_ms
    BY <1>1, <1>2
  <2> QED
    BY <1>3, <2>1 DEF Moves, ChainCompute
<1>6. PassMoves(r, n, i, s[z], mid, s[z + n], tally)
  BY <1>2, <1>4, <1>5 DEF PassMoves
<1> QED
  BY <1>6 DEF tally

\* and each link, once.
LEMMA LinkPass ==
  ASSUME NEW r, NEW n \in Nat \ {0}, NEW i \in Nat \ {0}, NEW link \in 0..n
  PROVE  \E mid : PassMoves(r, n, i, i - 1, mid, i, [of |-> "link", link |-> link])
<1> DEFINE tally == [of |-> "link", link |-> link]
           mid == [k \in 0..n |-> i - 1 + IF link = 0 \/ link <= k - 1 THEN 1 ELSE 0]
<1>1. tally.of = "link" /\ tally.link = link
  OBVIOUS
<1>2. /\ mid[0] = i - 1 + IF link = 0 THEN 1 ELSE 0
      /\ mid[n] = i - 1 + IF link # n THEN 1 ELSE 0
  OBVIOUS
<1>3. \A k \in 1..n : IF k = 1 THEN mid[k] = mid[k - 1]
                      ELSE mid[k] = mid[k - 1] + IF link = k - 1 THEN 1 ELSE 0
  OBVIOUS
<1>4. \A k \in 0..n : mid[k] \in Nat
  OBVIOUS
<1> HIDE DEF mid, tally
<1>5. \A x : /\ \A l, ms : Moves(ChainCompute(l, ms), x, x, tally)
             /\ \A text : Moves(ChainToken(text), x, x, tally)
  BY <1>1 DEF Moves, ChainCompute, ChainToken
<1>6. \A l, bytes, between, ms : \A x \in Nat :
        Moves(ChainSend(l, bytes, between, ms), x, x + (IF link = l THEN 1 ELSE 0), tally)
  <2> TAKE l, bytes, between, ms
  <2>1. CASE l = link
    BY <1>1, <2>1 DEF Moves, ChainSend
  <2>2. CASE l # link
    <3>1. \A x \in Nat : x + 0 = x
      OBVIOUS
    <3> QED
      BY <1>1, <2>2, <3>1 DEF Moves, ChainSend
  <2> QED
    BY <2>1, <2>2
<1>7. \A bytes : Moves(ChainSend(0, bytes, FALSE, Half(ChainHop(r, n, i, 1))), i - 1, mid[0], tally)
  <2>1. i - 1 \in Nat /\ (link = 0 <=> link = 0)
    OBVIOUS
  <2> QED
    BY <1>2, <1>6, <2>1
<1>8. ASSUME NEW k \in 1..n
      PROVE  \E b : /\ IF k = 1 THEN mid[k - 1] = b
                       ELSE \A bytes :
                              Moves(ChainSend(k - 1, bytes, TRUE,
                                Half(ChainHop(r, n, i, k - 1)) + Half(ChainHop(r, n, i, k))),
                                    mid[k - 1], b, tally)
                    /\ Moves(ChainCompute(k - 1, ChainHop(r, n, i, k).compute_ms), b, mid[k], tally)
  <2>1. CASE k = 1
    BY <1>3, <1>5, <2>1
  <2>2. CASE k # 1
    <3>1. mid[k] = mid[k - 1] + IF link = k - 1 THEN 1 ELSE 0
      BY <1>3, <2>2
    <3>2. mid[k - 1] \in Nat
      BY <1>4
    <3>3. \A bytes, ms : Moves(ChainSend(k - 1, bytes, TRUE, ms), mid[k - 1], mid[k], tally)
      BY <1>6, <3>1, <3>2
    <3> QED
      BY <1>5, <2>2, <3>3
  <2> QED
    BY <2>1, <2>2
<1>9. \A bytes : Moves(ChainSend(n, bytes, FALSE, Half(ChainHop(r, n, i, n))), mid[n], i, tally)
  <2>1. mid[n] \in Nat /\ i = mid[n] + IF link = n THEN 1 ELSE 0
    BY <1>2
  <2> QED
    BY <1>6, <2>1
<1>10. PassMoves(r, n, i, i - 1, mid, i, tally)
  BY <1>5, <1>7, <1>8, <1>9 DEF PassMoves
<1> QED
  BY <1>10 DEF tally

\* What the API returned is so many whole passes.
LEMMA GenerationIs ==
  ASSUME NEW r, NEW n \in Nat \ {0}, IsGeneration(r, n)
  PROVE  /\ IsSeq(r.hops) /\ IsSeq(r.tokens) /\ Len(r.hops) \in Nat /\ Len(r.tokens) \in Nat
         /\ DOMAIN r.hops = 1..Len(r.hops)
         /\ \A j \in DOMAIN r.hops :
              /\ r.hops[j].compute_ms \in Nat
              /\ r.hops[j].transport_ms \in Nat
              /\ Half(r.hops[j]) \in Nat
              /\ r.hops[j].transport_ms = 2 * Half(r.hops[j])
         /\ \E p \in Nat : p > 0 /\ Len(r.hops) = p * n
<1>1. /\ IsSeq(r.hops) /\ IsSeq(r.tokens)
      /\ \A j \in DOMAIN r.hops :
           /\ {r.hops[j].sent_bytes, r.hops[j].compute_ms, r.hops[j].transport_ms} \subseteq Nat
           /\ r.hops[j].transport_ms = 2 * Half(r.hops[j])
      /\ \E p \in Len(r.tokens)..Len(r.hops) : p > 0 /\ Len(r.hops) = p * n
  BY DEF IsGeneration, IsSeq
<1>2. /\ Len(r.hops) \in Nat /\ Len(r.tokens) \in Nat /\ DOMAIN r.hops = 1..Len(r.hops)
  BY <1>1, SeqIs
<1>3. \A j \in DOMAIN r.hops : r.hops[j].compute_ms \in Nat /\ r.hops[j].transport_ms \in Nat
  BY <1>1
<1>4. \A j \in DOMAIN r.hops : Half(r.hops[j]) \in Nat
  BY <1>3 DEF Half
<1>5. \E p \in Nat : p > 0 /\ Len(r.hops) = p * n
  <2>1. PICK p \in Len(r.tokens)..Len(r.hops) : p > 0 /\ Len(r.hops) = p * n
    BY <1>1
  <2>2. p \in Nat
    BY <1>2
  <2> QED
    BY <2>1, <2>2
<1> QED
  BY <1>1, <1>2, <1>3, <1>4, <1>5

\* The hops before a pass and those of it.
LEMMA HopsOfPass ==
  ASSUME NEW n \in Nat \ {0}, NEW p \in Nat, NEW i \in 1..p
  PROVE  \E z \in Nat : /\ z = (i - 1) * n /\ z + n = i * n /\ z + n <= p * n
                        /\ \A k \in 1..n : z + k \in 1..p * n
<1>1. (i - 1) * n >= 0 /\ (p - i) * n >= 0
  OBVIOUS
<1>2. i * n = (i - 1) * n + n /\ p * n = i * n + (p - i) * n
  OBVIOUS
<1>3. i * n \in Int /\ p * n \in Int /\ (p - i) * n \in Int /\ (i - 1) * n \in Int
  OBVIOUS
<1> DEFINE z == (i - 1) * n
<1>4. z \in Nat /\ z + n = i * n /\ z + n <= p * n
  BY <1>1, <1>2, <1>3
<1> HIDE DEF z
<1>5. \A k \in 1..n : z + k \in 1..p * n
  BY <1>3, <1>4
<1> QED
  BY <1>4, <1>5 DEF z

\* The whole of it: all the time on the network,
LEMMA ChainNetwork ==
  ASSUME NEW r, NEW n \in Nat \ {0}, IsGeneration(r, n)
  PROVE  Leads(ChainTimeline(r, n), 0, TransportOf(r.hops), [of |-> "network"])
<1> DEFINE tally == [of |-> "network"]
           m == Len(r.hops)
<1>1. /\ IsSeq(r.hops) /\ m \in Nat /\ DOMAIN r.hops = 1..m
      /\ \A j \in DOMAIN r.hops : r.hops[j].transport_ms \in Nat
  BY GenerationIs
<1>2. PICK p \in Nat : p > 0 /\ m = p * n
  BY GenerationIs
<1>3. PICK v, s : /\ RunsUp(s, v, m) /\ s[m] = TransportOf(r.hops)
                  /\ \A j \in 1..m : v[j] = r.hops[j].transport_ms
  <2> DEFINE hops == r.hops
  <2>1. IsSeq(hops) /\ \A j \in DOMAIN hops : hops[j].transport_ms \in Nat
    BY <1>1
  <2> HIDE DEF hops
  <2>2. \E v, s : /\ RunsUp(s, v, Len(hops)) /\ s[Len(hops)] = TransportOf(hops)
                  /\ \A j \in 1..Len(hops) : v[j] = hops[j].transport_ms
    BY <2>1, TransportRunsUp
  <2> QED
    BY <2>2 DEF hops
<1> HIDE DEF tally, m
<1>4. ASSUME NEW i \in 1..p
      PROVE  \E mid : PassMoves(r, n, i, s[(i - 1) * n], mid, s[i * n], tally)
  <2>1. PICK z \in Nat : /\ z = (i - 1) * n /\ z + n = i * n /\ z + n <= m
                         /\ \A k \in 1..n : z + k \in 1..m
    BY <1>2, HopsOfPass
  <2>2. \A k \in 1..n : /\ z + k \in 1..m /\ z + k \in DOMAIN r.hops
                        /\ ChainHop(r, n, i, k) = r.hops[z + k]
    BY <1>1, <2>1 DEF ChainHop
  <2>3. \A k \in 1..n : /\ Half(ChainHop(r, n, i, k)) \in Nat
                        /\ v[z + k] = 2 * Half(ChainHop(r, n, i, k))
    BY <1>3, <2>2, GenerationIs
  <2>4. \E mid : PassMoves(r, n, i, s[z], mid, s[z + n], tally)
    BY <1>1, <1>3, <2>1, <2>3, NetworkPass DEF tally
  <2> QED
    BY <2>1, <2>4
<1> DEFINE at == [i \in 0..p |-> s[i * n]]
           mids == [i \in 1..p |-> CHOOSE mid :
                      PassMoves(r, n, i, s[(i - 1) * n], mid, s[i * n], tally)]
<1>5. ASSUME NEW i \in 1..p
      PROVE  PassMoves(r, n, i, at[i - 1], mids[i], at[i], tally)
  <2>1. i - 1 \in 0..p /\ i \in 0..p
    BY <1>2
  <2>2. at[i - 1] = s[(i - 1) * n] /\ at[i] = s[i * n]
    BY <2>1
  <2>3. PassMoves(r, n, i, s[(i - 1) * n], mids[i], s[i * n], tally)
    BY <1>4
  <2> QED
    BY <2>2, <2>3
<1>6. at[0] = 0 /\ at[p] = TransportOf(r.hops)
  <2>1. 0 \in 0..p /\ p \in 0..p /\ 0 * n = 0
    BY <1>2
  <2> QED
    BY <1>2, <1>3, <2>1 DEF RunsUp
<1> HIDE DEF at, mids
<1>7. Leads(ChainTimeline(r, n), at[0], at[p], tally)
  BY <1>1, <1>2, <1>5, GenerationLeads DEF m
<1> QED
  BY <1>6, <1>7 DEF tally

\* all the time computing,
LEMMA ChainComputes ==
  ASSUME NEW r, NEW n \in Nat \ {0}, IsGeneration(r, n)
  PROVE  Leads(ChainTimeline(r, n), 0, ComputeOf(r.hops), [of |-> "compute"])
<1> DEFINE tally == [of |-> "compute"]
           m == Len(r.hops)
<1>1. /\ IsSeq(r.hops) /\ m \in Nat /\ DOMAIN r.hops = 1..m
      /\ \A j \in DOMAIN r.hops : r.hops[j].compute_ms \in Nat
  BY GenerationIs
<1>2. PICK p \in Nat : p > 0 /\ m = p * n
  BY GenerationIs
<1>3. PICK v, s : /\ RunsUp(s, v, m) /\ s[m] = ComputeOf(r.hops)
                  /\ \A j \in 1..m : v[j] = r.hops[j].compute_ms
  <2> DEFINE hops == r.hops
  <2>1. IsSeq(hops) /\ \A j \in DOMAIN hops : hops[j].compute_ms \in Nat
    BY <1>1
  <2> HIDE DEF hops
  <2>2. \E v, s : /\ RunsUp(s, v, Len(hops)) /\ s[Len(hops)] = ComputeOf(hops)
                  /\ \A j \in 1..Len(hops) : v[j] = hops[j].compute_ms
    BY <2>1, ComputeRunsUp
  <2> QED
    BY <2>2 DEF hops
<1> HIDE DEF tally, m
<1>4. ASSUME NEW i \in 1..p
      PROVE  \E mid : PassMoves(r, n, i, s[(i - 1) * n], mid, s[i * n], tally)
  <2>1. PICK z \in Nat : /\ z = (i - 1) * n /\ z + n = i * n /\ z + n <= m
                         /\ \A k \in 1..n : z + k \in 1..m
    BY <1>2, HopsOfPass
  <2>2. \A k \in 1..n : /\ z + k \in 1..m /\ z + k \in DOMAIN r.hops
                        /\ ChainHop(r, n, i, k) = r.hops[z + k]
    BY <1>1, <2>1 DEF ChainHop
  <2>3. \A k \in 1..n : v[z + k] = ChainHop(r, n, i, k).compute_ms
    BY <1>3, <2>2
  <2>4. \E mid : PassMoves(r, n, i, s[z], mid, s[z + n], tally)
    BY <1>1, <1>3, <2>1, <2>3, ComputePass DEF tally
  <2> QED
    BY <2>1, <2>4
<1> DEFINE at == [i \in 0..p |-> s[i * n]]
           mids == [i \in 1..p |-> CHOOSE mid :
                      PassMoves(r, n, i, s[(i - 1) * n], mid, s[i * n], tally)]
<1>5. ASSUME NEW i \in 1..p
      PROVE  PassMoves(r, n, i, at[i - 1], mids[i], at[i], tally)
  <2>1. i - 1 \in 0..p /\ i \in 0..p
    BY <1>2
  <2>2. at[i - 1] = s[(i - 1) * n] /\ at[i] = s[i * n]
    BY <2>1
  <2>3. PassMoves(r, n, i, s[(i - 1) * n], mids[i], s[i * n], tally)
    BY <1>4
  <2> QED
    BY <2>2, <2>3
<1>6. at[0] = 0 /\ at[p] = ComputeOf(r.hops)
  <2>1. 0 \in 0..p /\ p \in 0..p /\ 0 * n = 0
    BY <1>2
  <2> QED
    BY <1>2, <1>3, <2>1 DEF RunsUp
<1> HIDE DEF at, mids
<1>7. Leads(ChainTimeline(r, n), at[0], at[p], tally)
  BY <1>1, <1>2, <1>5, GenerationLeads DEF m
<1> QED
  BY <1>6, <1>7 DEF tally

\* and each link as often as there were passes.
LEMMA ChainLinks ==
  ASSUME NEW r, NEW n \in Nat \ {0}, IsGeneration(r, n), NEW link \in 0..n
  PROVE  \E p \in Nat : /\ p * n = Len(r.hops)
                        /\ Leads(ChainTimeline(r, n), 0, p, [of |-> "link", link |-> link])
<1> DEFINE tally == [of |-> "link", link |-> link]
<1>1. IsSeq(r.hops)
  BY GenerationIs
<1>2. PICK p \in Nat : p > 0 /\ Len(r.hops) = p * n
  BY GenerationIs
<1> HIDE DEF tally
<1>3. \A i \in 1..p : \E mid : PassMoves(r, n, i, i - 1, mid, i, tally)
  <2> TAKE i \in 1..p
  <2>1. i \in Nat \ {0}
    BY <1>2
  <2> QED
    BY <2>1, LinkPass DEF tally
<1> DEFINE at == [i \in 0..p |-> i]
           mids == [i \in 1..p |-> CHOOSE mid : PassMoves(r, n, i, i - 1, mid, i, tally)]
<1>4. \A i \in 1..p : PassMoves(r, n, i, at[i - 1], mids[i], at[i], tally)
  <2> TAKE i \in 1..p
  <2>1. at[i - 1] = i - 1 /\ at[i] = i
    BY <1>2
  <2>2. PassMoves(r, n, i, i - 1, mids[i], i, tally)
    BY <1>3
  <2> QED
    BY <2>1, <2>2
<1>5. at[0] = 0 /\ at[p] = p
  BY <1>2
<1> HIDE DEF at, mids
<1>6. Leads(ChainTimeline(r, n), at[0], at[p], tally)
  BY <1>1, <1>2, <1>4, GenerationLeads
<1> QED
  BY <1>2, <1>5, <1>6 DEF tally

\* What the stage has counted and the steps that replay i has left come to all
\* of r.
ChainShowing(i, r) ==
  /\ Leads(chainPlay[i].steps, Len(chainTokens), Len(r.tokens), ToldBy(r))
  /\ Leads(chainPlay[i].steps, chainTotals.networkMs, TransportOf(r.hops), [of |-> "network"])
  /\ Leads(chainPlay[i].steps, chainTotals.computeMs, ComputeOf(r.hops), [of |-> "compute"])
  /\ \A l \in 0..NumShards :
       \E p : /\ p * NumShards = Len(r.hops)
              /\ Leads(chainPlay[i].steps, pulses[l], p, [of |-> "link", link |-> l])

\* The stage was laid out for the chain that gave the answer.
LaidOutWhole == DOMAIN pulses = 0..NumShards

ChainCounted ==
  /\ chainTotals = [bytes |-> chainTotals.bytes, networkMs |-> chainTotals.networkMs,
                    computeMs |-> chainTotals.computeMs]
  /\ chainPhase \in {"playing", "done"} =>
       /\ pulses = [l \in DOMAIN pulses |-> pulses[l]]
       /\ \A l \in DOMAIN pulses : pulses[l] \in Nat
       /\ DOMAIN pulses \in {0..NumShards, 0..2}
  /\ chainPhase = "playing" /\ LaidOutWhole =>
       \A i \in Replays : InChargeOf(i) => ChainShowing(i, chainResult[1])
  /\ LaidOutWhole => ChainDoneShowsItAll

ChainAll == ChainInv /\ ChainCounted

LEMMA BeginCounts ==
  ASSUME ChainInv', NEW r \in Answers, NEW shards \in {NumShards, 2},
         BeginPlay(r, shards), chainResult' = <<r>>,
         \E free \in Replays : /\ chainPlay'[free].id = chainRun'
                               /\ chainPlay'[free].steps = ChainTimeline(r, shards)
  PROVE  ChainCounted'
<1>1. PICK free \in Replays : /\ chainPlay'[free].id = chainRun'
                              /\ chainPlay'[free].steps = ChainTimeline(r, shards)
  OBVIOUS
<1>2. \A i \in Replays : InChargeOf(i)' => i = free
  BY <1>1 DEF ChainInv, ChainOne, InChargeOf
<1>3. /\ pulses' = [l \in 0..shards |-> 0] /\ chainTokens' = <<>> /\ chainTotals' = ChainZero
      /\ chainPhase' = "playing"
  BY DEF BeginPlay, ResetStage
<1>4. /\ chainTotals'.networkMs = 0 /\ chainTotals'.computeMs = 0
      /\ chainTotals' = [bytes |-> chainTotals'.bytes, networkMs |-> chainTotals'.networkMs,
                         computeMs |-> chainTotals'.computeMs]
  BY <1>3 DEF ChainZero
<1>5. NumShards \in Nat \ {0} /\ IsGeneration(r, NumShards)
  BY TwoDevicesAssumption
<1>6. /\ DOMAIN pulses' = 0..shards
      /\ pulses' = [l \in DOMAIN pulses' |-> pulses'[l]]
      /\ \A l \in DOMAIN pulses' : pulses'[l] = 0
  BY <1>3
<1>7. ASSUME LaidOutWhole' PROVE ChainShowing(free, r)'
  <2>1. shards = NumShards
    <3>1. 0..shards = 0..NumShards
      BY <1>6, <1>7 DEF LaidOutWhole
    <3>2. shards \in 0..NumShards /\ NumShards \in 0..shards
      BY <1>5, <3>1
    <3> QED
      BY <1>5, <3>2
  <2>2. Len(chainTokens') = 0
    BY <1>3
  <2>3. /\ Leads(ChainTimeline(r, shards), 0, TransportOf(r.hops), [of |-> "network"])
        /\ Leads(ChainTimeline(r, shards), 0, ComputeOf(r.hops), [of |-> "compute"])
    BY <1>5, <2>1, ChainNetwork, ChainComputes
  <2>4. Leads(ChainTimeline(r, shards), 0, Len(r.tokens), ToldBy(r))
    BY <1>5, <2>1, ChainTells
  <2>5. ASSUME NEW l \in 0..NumShards
        PROVE  \E p : /\ p * NumShards = Len(r.hops)
                      /\ Leads(ChainTimeline(r, shards), pulses'[l], p, [of |-> "link", link |-> l])
    <3>1. pulses'[l] = 0
      BY <1>6, <1>7 DEF LaidOutWhole
    <3> QED
      BY <1>5, <2>1, <3>1, ChainLinks
  <2> QED
    BY <1>1, <1>4, <2>2, <2>3, <2>4, <2>5 DEF ChainShowing
<1>8. chainResult'[1] = r
  OBVIOUS
<1>9. DOMAIN pulses' \in {0..NumShards, 0..2}
  BY <1>6
<1>10. \A l \in DOMAIN pulses' : pulses'[l] \in Nat
  BY <1>6
<1>11. ChainDoneShowsItAll'
  BY <1>3 DEF ChainDoneShowsItAll
<1>12. chainPhase' = "playing" /\ LaidOutWhole' =>
         \A i \in Replays : InChargeOf(i)' => ChainShowing(i, chainResult[1])'
  BY <1>2, <1>7, <1>8 DEF ChainShowing
<1> QED
  BY <1>4, <1>6, <1>9, <1>10, <1>11, <1>12 DEF ChainCounted

LEMMA ChainStepCounts ==
  ASSUME ChainAll, NEW i \in Replays, ChainShowStep(i)
  PROVE  ChainCounted'
<1> DEFINE steps == chainPlay[i].steps
           step == Head(steps)
<1>1. /\ InChargeOf(i) /\ steps # << >>
      /\ chainPlay' = [chainPlay EXCEPT ![i].steps = Tail(@)]
      /\ UNCHANGED <<chainPhase, chainAsked, chainResult, chainRun>>
  BY DEF ChainShowStep
<1>2. chainPhase = "playing" /\ \A j \in Replays : InChargeOf(j) => j = i
  BY <1>1 DEF ChainAll, ChainInv, ChainOne
<1>3. /\ chainPlay'[i].steps = Tail(steps)
      /\ \A j \in Replays : chainPlay'[j].id = chainPlay[j].id
  BY <1>1 DEF ChainAll, ChainInv, ChainShapes
<1>4. PICK r : r = chainResult[1]
  OBVIOUS
<1>5. PICK b, n, c : chainTotals = [bytes |-> b, networkMs |-> n, computeMs |-> c]
  BY DEF ChainAll, ChainCounted
<1>6. /\ pulses = [l \in DOMAIN pulses |-> pulses[l]]
      /\ \A l \in DOMAIN pulses : pulses[l] \in Nat
      /\ DOMAIN pulses \in {0..NumShards, 0..2}
  BY <1>2 DEF ChainAll, ChainCounted
<1>7. \/ step.kind = "send" /\ UNCHANGED chainTokens
         /\ pulses' = [l \in DOMAIN pulses |-> pulses[l] + IF l = step.link THEN 1 ELSE 0]
         /\ chainTotals' = [chainTotals EXCEPT
              !.networkMs = @ + step.networkMs,
              !.bytes = @ + IF step.betweenDevices THEN step.bytes ELSE 0]
      \/ step.kind = "compute" /\ UNCHANGED <<pulses, chainTokens>>
         /\ chainTotals' = [chainTotals EXCEPT !.computeMs = @ + step.computeMs]
      \/ step.kind = "token" /\ UNCHANGED <<pulses, chainTotals>>
         /\ chainTokens' = Append(chainTokens, step.text)
  BY DEF ChainShowStep
<1> HIDE DEF steps, step
<1>8. /\ chainTotals' = [bytes |-> chainTotals'.bytes, networkMs |-> chainTotals'.networkMs,
                         computeMs |-> chainTotals'.computeMs]
      /\ chainTotals'.networkMs = IF step.kind = "send" THEN n + step.networkMs ELSE n
      /\ chainTotals'.computeMs = IF step.kind = "compute" THEN c + step.computeMs ELSE c
  <2>1. CASE step.kind = "send"
    <3> DEFINE sent == IF step.betweenDevices THEN step.bytes ELSE 0
    <3>1. chainTotals' = [chainTotals EXCEPT !.networkMs = n + step.networkMs, !.bytes = b + sent]
      <4>1. chainTotals.networkMs = n /\ chainTotals.bytes = b
        BY <1>5
      <4>2. chainTotals' = [chainTotals EXCEPT !.networkMs = @ + step.networkMs, !.bytes = @ + sent]
        BY <1>7, <2>1
      <4> QED
        BY <4>1, <4>2
    <3> HIDE DEF sent
    <3>2. chainTotals' = [field \in {"bytes", "networkMs", "computeMs"} |-> chainTotals'[field]]
      BY <1>5, <3>1
    <3>3. chainTotals'.networkMs = n + step.networkMs /\ chainTotals'.computeMs = c
      BY <1>5, <3>1
    <3> QED
      BY <2>1, <3>2, <3>3
  <2>2. CASE step.kind = "compute"
    <3>1. chainTotals' = [bytes |-> b, networkMs |-> n, computeMs |-> c + step.computeMs]
      BY <1>5, <1>7, <2>2
    <3> QED
      BY <2>2, <3>1
  <2>3. CASE step.kind = "token"
    BY <1>5, <1>7, <2>3
  <2> QED
    BY <1>7, <2>1, <2>2, <2>3
<1>9. /\ DOMAIN pulses' = DOMAIN pulses
      /\ pulses' = [l \in DOMAIN pulses' |-> pulses'[l]]
      /\ \A l \in DOMAIN pulses :
           /\ pulses'[l] \in Nat
           /\ pulses'[l] = IF step.kind = "send" /\ step.link = l THEN pulses[l] + 1 ELSE pulses[l]
  <2>1. CASE step.kind = "send"
    BY <1>6, <1>7, <2>1
  <2>2. CASE step.kind # "send"
    BY <1>6, <1>7, <2>2
  <2> QED
    BY <2>1, <2>2
<1>10. ASSUME LaidOutWhole PROVE ChainShowing(i, r)'
  <2>1. ChainShowing(i, r)
    BY <1>1, <1>2, <1>4, <1>10 DEF ChainAll, ChainCounted
  <2>2. PICK told : /\ Moves(step, Len(chainTokens), told, ToldBy(r))
                    /\ Leads(Tail(steps), told, Len(r.tokens), ToldBy(r))
    BY <1>1, <2>1, LeadsTail DEF ChainShowing, steps, step
  <2>3. PICK ms : /\ Moves(step, n, ms, [of |-> "network"])
                  /\ Leads(Tail(steps), ms, TransportOf(r.hops), [of |-> "network"])
    <3>1. Leads(steps, n, TransportOf(r.hops), [of |-> "network"])
      BY <1>5, <2>1 DEF ChainShowing, steps
    <3> QED
      BY <1>1, <3>1, LeadsTail DEF steps, step
  <2>4. PICK cs : /\ Moves(step, c, cs, [of |-> "compute"])
                  /\ Leads(Tail(steps), cs, ComputeOf(r.hops), [of |-> "compute"])
    <3>1. Leads(steps, c, ComputeOf(r.hops), [of |-> "compute"])
      BY <1>5, <2>1 DEF ChainShowing, steps
    <3> QED
      BY <1>1, <3>1, LeadsTail DEF steps, step
  <2>5. told = Len(chainTokens')
    <3>1. ToldBy(r).of = "answer" /\ ToldBy(r).tokens = r.tokens
      BY DEF ToldBy
    <3>2. told = IF step.kind = "token" THEN Len(chainTokens) + 1 ELSE Len(chainTokens)
      BY <2>2, <3>1 DEF Moves
    <3>3. step.kind = "token" => Len(chainTokens') = Len(chainTokens) + 1
      <4>1. IsSeq(chainTokens)
        BY <1>2 DEF ChainAll, ChainInv, ChainTelling, Told
      <4>2. \A s, x : IsSeq(s) => Len(Append(s, x)) = Len(s) + 1
        <5> TAKE s, x
        <5> HAVE IsSeq(s)
        <5>1. s \in Seq(Range(s) \cup {x})
          BY SeqMonotonic DEF IsSeq
        <5> DEFINE S == Range(s) \cup {x}
        <5> HIDE DEF S
        <5>2. s \in Seq(S) /\ x \in S
          BY <5>1 DEF S
        <5> QED
          BY <5>2, AppendProperties
      <4> QED
        BY <1>7, <4>1, <4>2
    <3> QED
      BY <1>7, <3>2, <3>3
  <2>6. ms = chainTotals'.networkMs
    <3>1. \A x, y : Moves(step, x, y, [of |-> "network"])
                      => y = IF step.kind = "send" THEN x + step.networkMs ELSE x
      BY DEF Moves
    <3> QED
      BY <1>8, <2>3, <3>1
  <2>7. cs = chainTotals'.computeMs
    <3>1. \A x, y : Moves(step, x, y, [of |-> "compute"])
                      => y = IF step.kind = "compute" THEN x + step.computeMs ELSE x
      BY DEF Moves
    <3> QED
      BY <1>8, <2>4, <3>1
  <2>8. ASSUME NEW l \in 0..NumShards
        PROVE  \E p : /\ p * NumShards = Len(r.hops)
                      /\ Leads(Tail(steps), pulses'[l], p, [of |-> "link", link |-> l])
    <3> DEFINE tally == [of |-> "link", link |-> l]
    <3>1. PICK p : /\ p * NumShards = Len(r.hops)
                   /\ Leads(steps, pulses[l], p, tally)
      BY <2>1 DEF ChainShowing, steps
    <3>2. tally.of = "link" /\ tally.link = l
      OBVIOUS
    <3> HIDE DEF tally
    <3>3. PICK x : Moves(step, pulses[l], x, tally) /\ Leads(Tail(steps), x, p, tally)
      BY <1>1, <3>1, LeadsTail DEF steps, step
    <3>4. x = IF step.kind = "send" /\ step.link = l THEN pulses[l] + 1 ELSE pulses[l]
      BY <3>2, <3>3 DEF Moves
    <3>5. x = pulses'[l]
      BY <1>9, <1>10, <3>4 DEF LaidOutWhole
    <3> QED
      BY <3>1, <3>3, <3>5 DEF tally
  <2>9. chainPlay'[i].steps = Tail(steps)
    BY <1>3 DEF steps
  <2> QED
    BY <2>2, <2>3, <2>4, <2>5, <2>6, <2>7, <2>8, <2>9 DEF ChainShowing
<1>11. ChainDoneShowsItAll'
  BY <1>1, <1>2 DEF ChainDoneShowsItAll
<1>12. (LaidOutWhole' <=> LaidOutWhole) /\ chainResult'[1] = r
       /\ \A j \in Replays : InChargeOf(j)' => j = i
  BY <1>1, <1>2, <1>3, <1>4, <1>9 DEF LaidOutWhole, InChargeOf
<1>13. ASSUME LaidOutWhole', NEW j \in Replays, InChargeOf(j)'
       PROVE  ChainShowing(j, chainResult[1])'
  <2>1. ChainShowing(i, r)' /\ j = i /\ chainResult'[1] = r
    BY <1>10, <1>12, <1>13
  <2> QED
    BY <1>4, <2>1 DEF ChainShowing
<1> QED
  BY <1>6, <1>8, <1>9, <1>11, <1>13 DEF ChainCounted

LEMMA CountKeeps ==
  ASSUME ChainAll, ChainNext
  PROVE  ChainAll'
<1>1. ChainInv'
  BY ChainKeeps DEF ChainAll
<1> SUFFICES ChainCounted'
  BY <1>1 DEF ChainAll
<1>2. ASSUME UNCHANGED <<chainPhase, chainResult, chainRun, pulses, chainTokens, chainTotals, chainPlay>>
      PROVE  ChainCounted'
  BY <1>2 DEF ChainAll, ChainCounted, ChainShowing, LaidOutWhole, ChainDoneShowsItAll, InChargeOf
<1>3. CASE TopologyAnswered \/ Retry
  <2>1. UNCHANGED <<chainPhase, chainResult, chainRun, pulses, chainTokens, chainTotals, chainPlay>>
    BY <1>3 DEF TopologyAnswered, Retry, chainStage
  <2> QED
    BY <1>2, <2>1
<1>4. ASSUME NEW q \in Questions, RunChain(q) PROVE ChainCounted'
  BY <1>4 DEF RunChain, ResetStage, ChainZero, ChainCounted, ChainDoneShowsItAll
<1>5. ASSUME NEW r \in Answers, NEW shards \in {NumShards, 2},
             BeginPlay(r, shards), chainResult' = <<r>>
      PROVE  ChainCounted'
  <2>1. PICK free \in Replays :
          chainPlay' = [chainPlay EXCEPT ![free] =
                          [id |-> NextChainRun, steps |-> ChainTimeline(r, shards)]]
    BY <1>5 DEF BeginPlay
  <2>2. chainPlay'[free] = [id |-> NextChainRun, steps |-> ChainTimeline(r, shards)]
    BY <2>1 DEF ChainAll, ChainInv, ChainShapes
  <2>3. chainRun' = NextChainRun
    BY <1>5 DEF BeginPlay
  <2> QED
    BY <1>1, <1>5, <2>2, <2>3, BeginCounts
<1>6. CASE GenerationArrives
  <2>1. PICK r \in Answers : chainResult' = <<r>> /\ BeginPlay(r, NumShards)
    BY <1>6 DEF GenerationArrives
  <2> QED
    BY <1>5, <2>1
<1>7. CASE GenerationFails
  <2>1. /\ chainPhase' = "idle"
        /\ UNCHANGED <<pulses, chainTotals>>
    BY <1>7 DEF GenerationFails, chainStage
  <2>2. ChainDoneShowsItAll'
    BY <2>1 DEF ChainDoneShowsItAll
  <2> QED
    BY <2>1, <2>2 DEF ChainAll, ChainCounted
<1>8. CASE ReplayAgain
  <2>1. chainPhase = "done" /\ UNCHANGED chainResult
    BY <1>8 DEF ReplayAgain
  <2>2. PICK r \in Answers : chainResult = <<r>>
    BY <2>1 DEF ChainAll, ChainInv, ChainTelling
  <2>3. BeginPlay(r, Shards) /\ chainResult' = <<r>>
    BY <1>8, <2>2 DEF ReplayAgain
  <2>4. Shards \in {NumShards, 2}
    BY DEF Shards
  <2> QED
    BY <1>5, <2>3, <2>4
<1>9. ASSUME NEW i \in Replays, ChainShowStep(i) PROVE ChainCounted'
  BY <1>9, ChainStepCounts
<1>10. ASSUME NEW i \in Replays, ChainCancelled(i) PROVE ChainCounted'
  <2>1. /\ ~InChargeOf(i)
        /\ chainPlay' = [chainPlay EXCEPT ![i] = NoReplay]
        /\ UNCHANGED <<chainPhase, chainResult, chainRun, pulses, chainTokens, chainTotals>>
    BY <1>10 DEF ChainCancelled, chainStage
  <2>2. /\ chainPlay'[i].id = 4 /\ chainRun # 4
        /\ \A j \in Replays \ {i} : chainPlay'[j] = chainPlay[j]
    BY <2>1 DEF ChainAll, ChainInv, ChainShapes, NoReplay
  <2>3. \A j \in Replays : InChargeOf(j)' => InChargeOf(j) /\ chainPlay'[j] = chainPlay[j]
    BY <2>1, <2>2 DEF InChargeOf
  <2>4. chainPhase' = "playing" /\ LaidOutWhole' =>
          \A j \in Replays : InChargeOf(j)' => ChainShowing(j, chainResult[1])'
    BY <2>1, <2>3 DEF ChainAll, ChainCounted, ChainShowing, LaidOutWhole
  <2> QED
    BY <2>1, <2>4 DEF ChainAll, ChainCounted, LaidOutWhole, ChainDoneShowsItAll
<1>11. ASSUME NEW i \in Replays, ChainPlayEnds(i) PROVE ChainCounted'
  <2>1. /\ InChargeOf(i) /\ chainPlay[i].steps = << >> /\ chainPhase' = "done"
        /\ UNCHANGED <<chainResult, pulses, chainTokens, chainTotals>>
    BY <1>11 DEF ChainPlayEnds
  <2>2. chainPhase = "playing"
    BY <2>1 DEF ChainAll, ChainInv, ChainOne
  <2>3. PICK r \in Answers : chainResult = <<r>> /\ Told(chainTokens, r.tokens)
    BY <2>2 DEF ChainAll, ChainInv, ChainTelling
  <2>4. chainResult[1] = r
    BY <2>3
  <2>5. ASSUME LaidOutWhole
        PROVE  /\ chainTokens = r.tokens
               /\ chainTotals.networkMs = TransportOf(r.hops)
               /\ chainTotals.computeMs = ComputeOf(r.hops)
               /\ \A l \in DOMAIN pulses : pulses[l] * NumShards = Len(r.hops)
    <3>1. ChainShowing(i, r)
      BY <2>1, <2>2, <2>4, <2>5 DEF ChainAll, ChainCounted
    <3>2. /\ Len(chainTokens) = Len(r.tokens)
          /\ chainTotals.networkMs = TransportOf(r.hops)
          /\ chainTotals.computeMs = ComputeOf(r.hops)
      BY <2>1, <3>1, LeadsEnd DEF ChainShowing
    <3>3. \A l \in DOMAIN pulses : pulses[l] * NumShards = Len(r.hops)
      <4> TAKE l \in DOMAIN pulses
      <4>1. PICK p : /\ p * NumShards = Len(r.hops)
                     /\ Leads(chainPlay[i].steps, pulses[l], p, [of |-> "link", link |-> l])
        BY <2>5, <3>1 DEF ChainShowing, LaidOutWhole
      <4>2. pulses[l] = p
        BY <2>1, <4>1, LeadsEnd
      <4> QED
        BY <4>1, <4>2
    <3>4. IsSeq(r.tokens)
      BY TwoDevicesAssumption, GenerationIs
    <3>5. chainTokens = r.tokens
      BY <2>3, <3>2, <3>4, SameSeq DEF Told
    <3> QED
      BY <3>2, <3>3, <3>5
  <2>6. LaidOutWhole' => ChainDoneShowsItAll'
    BY <2>1, <2>4, <2>5 DEF LaidOutWhole, ChainDoneShowsItAll
  <2> QED
    BY <2>1, <2>2, <2>6 DEF ChainAll, ChainCounted
<1> QED
  BY <1>3, <1>4, <1>6, <1>7, <1>8, <1>9, <1>10, <1>11
     DEF ChainNext, ChainCallEnds, ChainPlayStep

LEMMA ChainCounts == SiteSpec => []ChainAll
<1>1. SiteInit => ChainAll
  BY ChainStarts DEF SiteInit, ChainInit, ChainZero, ChainAll, ChainCounted, ChainDoneShowsItAll
<1>2. ChainAll /\ [SiteNext]_siteVars => ChainAll'
  <2> SUFFICES ASSUME ChainAll, [SiteNext]_siteVars PROVE ChainAll'
    OBVIOUS
  <2>1. CASE OnPoolPage \/ OnDetails \/ UNCHANGED siteVars
    <3>1. UNCHANGED <<chainPhase, chainAsked, chainResult, chainRun, pulses, chainTokens,
                      chainTotals, chainPlay>>
      BY <2>1 DEF OnPoolPage, OnDetails, PoolPageOpen, DetailsOpen, siteVars, chainVars, chainStage
    <3> QED
      BY <3>1 DEF ChainAll, ChainInv, ChainShapes, ChainOne, ChainTelling, InChargeOf,
                  ChainCounted, ChainShowing, LaidOutWhole, ChainDoneShowsItAll
  <2>2. CASE OnTwoDevices
    <3>1. ChainNext
      BY <2>2 DEF OnTwoDevices, ChainNext, ChainCallEnds, ChainPlayStep
    <3> QED
      BY <3>1, CountKeeps
  <2>3. ASSUME NEW to \in {"/", "/two-devices", "/details"}, Follow(to) PROVE ChainAll'
    <3>1. /\ chainPhase' = "idle" /\ chainRun' = 0 /\ chainTotals' = ChainZero
          /\ chainPlay' = [i \in Replays |-> [id |-> 4, steps |-> <<>>]]
      BY <2>3 DEF Follow, ChainMounts, NoReplay
    <3>2. ChainShapes'
      BY <3>1 DEF ChainShapes
    <3>3. ChainOne'
      BY <3>1 DEF ChainOne, InChargeOf
    <3>4. ChainTelling'
      BY <3>1 DEF ChainTelling
    <3>5. ChainCounted'
      BY <3>1 DEF ChainCounted, ChainZero, ChainDoneShowsItAll
    <3> QED
      BY <3>2, <3>3, <3>4, <3>5 DEF ChainAll, ChainInv
  <2> QED
    BY <2>1, <2>2, <2>3 DEF SiteNext
<1> QED
  BY <1>1, <1>2, PTL DEF SiteSpec

\* On a chain of two, which is the one the page draws, a replay that ended has shown
\* each token, one pulse for each pass on each link, and exactly the time that was
\* measured on the network and computing, whatever was asked, failed or was replayed.
\* Of a longer chain this is not so: the Replay button lays the steps out for two
\* devices while the page has lost the topology (two-devices/page.tsx, play).
THEOREM TwoDevicesShowItAll == NumShards = 2 => (SiteSpec => []ChainDoneShowsItAll)
<1> SUFFICES ASSUME NumShards = 2 PROVE SiteSpec => []ChainDoneShowsItAll
  OBVIOUS
<1>1. ChainAll => ChainDoneShowsItAll
  <2> SUFFICES ASSUME ChainAll, chainPhase = "done" PROVE ChainDoneShowsItAll
    BY DEF ChainDoneShowsItAll
  <2> QED
    BY DEF ChainAll, ChainCounted, LaidOutWhole
<1> QED
  BY <1>1, ChainCounts, PTL

-----------------------------------------------------------------------------
(* The words of the pool's page and the cards below them. *)

\* The copies of a stage that can be used now.
ReadyCopies(p, s) ==
  {d \in Alive(p) : p.member[d].state = "active" /\ p.member[d].hosting[s] = "ready"}

\* They are what the cards of the stage call serving, and what it has no empty
\* place for.
LEMMA CardsAreCopies ==
  ASSUME NEW p \in Pictures, NEW s \in Stage
  PROVE  /\ {d \in Column(p, s) : CopyCard(p, d, s, {}) = "serving"} = ReadyCopies(p, s)
         /\ Coverage(p)[s] = Cardinality(ReadyCopies(p, s))
         /\ Coverage(p)[s] \in Nat
         /\ Cardinality(Column(p, s)) \in Nat
         /\ Coverage(p)[s] <= Cardinality(Column(p, s))
<1>1. IsPicture(p)
  BY PageAssumption
<1>2. ASSUME NEW d \in Device
      PROVE  d \in Column(p, s) /\ CopyCard(p, d, s, {}) = "serving" <=> d \in ReadyCopies(p, s)
  <2>1. CASE p.member[d] = None
    BY <2>1 DEF Column, ReadyCopies, Alive, Members
  <2>2. CASE p.member[d] # None
    <3> DEFINE row == p.member[d]
    <3>1. /\ row.liveness \in {"alive", "suspect", "down"}
          /\ row.state \in {"active", "draining", "away", "left"}
          /\ row.hosting[s] \in {"none", "loading", "ready", "failed"}
      BY <1>1, <2>2 DEF IsPicture
    <3>2. d \in Members(p)
      BY <2>2 DEF Members
    <3>3. d \in Column(p, s) <=> /\ row.liveness # "down"
                                 /\ row.state \in {"active", "draining"}
                                 /\ row.hosting[s] \in {"loading", "ready"}
      BY <3>2 DEF Column, Usable
    <3>4. d \in ReadyCopies(p, s) <=> /\ row.liveness = "alive"
                                      /\ row.state = "active" /\ row.hosting[s] = "ready"
      BY <3>2 DEF ReadyCopies, Alive
    <3>5. CopyCard(p, d, s, {}) = DescribeDevice(row, row.hosting[s])
      BY DEF CopyCard
    <3> HIDE DEF row
    <3>6. CASE row.liveness = "down"
      BY <3>3, <3>4, <3>6
    <3>7. CASE row.liveness = "suspect"
      BY <3>4, <3>5, <3>7 DEF DescribeDevice
    <3>8. CASE row.liveness = "alive" /\ row.state \in {"draining", "away", "left"}
      BY <3>3, <3>4, <3>5, <3>8 DEF DescribeDevice
    <3>9. CASE row.liveness = "alive" /\ row.state = "active"
      <4>1. CASE row.hosting[s] = "none"
        BY <3>3, <3>4, <4>1
      <4>2. CASE row.hosting[s] # "none"
        <5>1. CopyCard(p, d, s, {}) = IF row.hosting[s] = "loading" THEN "loading its share"
                                      ELSE IF row.hosting[s] = "ready" THEN "serving" ELSE "spare"
          BY <3>5, <3>9, <4>2 DEF DescribeDevice
        <5> QED
          BY <3>1, <3>3, <3>4, <3>9, <5>1
      <4> QED
        BY <4>1, <4>2
    <3> QED
      BY <3>1, <3>6, <3>7, <3>8, <3>9
  <2> QED
    BY <2>1, <2>2
<1>3. Column(p, s) \subseteq Device /\ ReadyCopies(p, s) \subseteq Device
  BY DEF Column, ReadyCopies, Alive, Members
<1>4. {d \in Column(p, s) : CopyCard(p, d, s, {}) = "serving"} = ReadyCopies(p, s)
  BY <1>2, <1>3
<1>5. Coverage(p)[s] = Cardinality(ReadyCopies(p, s))
  BY DEF Coverage, ReadyCopies
<1>6. IsFiniteSet(Column(p, s)) /\ ReadyCopies(p, s) \subseteq Column(p, s)
  BY <1>2, <1>3, FS_Subset, PageAssumption
<1>7. /\ IsFiniteSet(ReadyCopies(p, s))
      /\ Cardinality(ReadyCopies(p, s)) <= Cardinality(Column(p, s))
  BY <1>6, FS_Subset
<1> QED
  BY <1>4, <1>5, <1>6, <1>7, FS_CardinalityType

\* The sentence is about the first stage there is with so few copies.
LEMMA FirstIsThere ==
  ASSUME NEW p \in Pictures, NEW most \in Nat, \E s \in Stage : Coverage(p)[s] <= most
  PROVE  FirstStage(p, most) \in Stage /\ Coverage(p)[FirstStage(p, most)] <= most
<1> DEFINE N == {s \in Stage : Coverage(p)[s] <= most}
<1>1. N \in SUBSET Nat /\ N # {}
  BY PageAssumption
<1> HIDE DEF N
<1>2. PICK s \in N : \A z \in N : s <= z
  BY <1>1, Least
<1>3. \E z \in Stage : /\ Coverage(p)[z] <= most
                       /\ \A y \in Stage : Coverage(p)[y] <= most => z <= y
  BY <1>2 DEF N
<1> QED
  BY <1>3 DEF FirstStage

\* What the picture that is shown says, in words and on cards.
WordsOf(p) ==
  /\ HealthText(p).says = "no device holds it" =>
       HealthText(p).stage \in Stage /\ Coverage(p)[HealthText(p).stage] = 0
  /\ HealthText(p).says = "on one device only" =>
       HealthText(p).stage \in Stage /\ Coverage(p)[HealthText(p).stage] = 1
  /\ Health(p) = "healthy" => \A s \in Stage : Missing(p, s) = 0

LEMMA WordsAreTrue ==
  ASSUME NEW p \in Pictures, Replicas \in 1..2
  PROVE  WordsOf(p)
<1>1. \A s \in Stage : Coverage(p)[s] \in Nat
  BY CardsAreCopies
<1>2. ASSUME HealthText(p).says = "no device holds it"
      PROVE  HealthText(p).stage \in Stage /\ Coverage(p)[HealthText(p).stage] = 0
  <2>1. HealthText(p).stage = FirstStage(p, 0) /\ \E s \in Stage : Coverage(p)[s] = 0
    BY <1>2 DEF HealthText
  <2>2. FirstStage(p, 0) \in Stage /\ Coverage(p)[FirstStage(p, 0)] <= 0
    BY <2>1, FirstIsThere
  <2> QED
    BY <1>1, <2>1, <2>2
<1>3. ASSUME HealthText(p).says = "on one device only"
      PROVE  HealthText(p).stage \in Stage /\ Coverage(p)[HealthText(p).stage] = 1
  <2>1. /\ HealthText(p).stage = FirstStage(p, Replicas - 1)
        /\ Health(p) # "healthy" /\ ~ \E s \in Stage : Coverage(p)[s] = 0
    BY <1>3 DEF HealthText
  <2>2. PICK s \in Stage : ~ (Coverage(p)[s] >= Replicas)
    BY <2>1 DEF Health
  <2>3. Replicas - 1 \in Nat /\ Coverage(p)[s] <= Replicas - 1
    BY <1>1, <2>2
  <2>4. /\ FirstStage(p, Replicas - 1) \in Stage
        /\ Coverage(p)[FirstStage(p, Replicas - 1)] <= Replicas - 1
    BY <2>3, FirstIsThere
  <2> QED
    BY <1>1, <2>1, <2>4
<1>4. ASSUME Health(p) = "healthy", NEW s \in Stage
      PROVE  Missing(p, s) = 0
  <2>1. Coverage(p)[s] >= Replicas
    BY <1>4 DEF Health
  <2> QED
    BY <2>1, CardsAreCopies DEF Missing
<1> QED
  BY <1>2, <1>3, <1>4 DEF WordsOf

LEMMA SpareIsSpare ==
  ASSUME NEW p \in Pictures, NEW d \in Bench(p),
         BenchTile(p, d) = "spare", p.member[d].state # "left", NEW s \in Stage
  PROVE  p.member[d].hosting[s] \notin {"loading", "ready"}
<1>1. d \in Device /\ d \in Members(p) /\ p.member[d] # None /\ d \notin Column(p, s)
  BY DEF Bench, Members
<1>2. p.member[d].liveness = "alive" /\ p.member[d].state = "active"
  <2>1. /\ p.member[d].liveness \in {"alive", "suspect", "down"}
        /\ p.member[d].state \in {"active", "draining", "away"}
    BY <1>1, PageAssumption DEF IsPicture
  <2> QED
    BY <2>1 DEF BenchTile, DescribeDevice
<1> QED
  BY <1>1, <1>2 DEF Column, Usable

LEMMA OffersAgree ==
  ASSUME NEW p \in Pictures, NEW offer \in OwnerScenario(p)
  PROVE  /\ offer.busy = OwnerAsks(p.member[offer.device])
         /\ offer.busy # (DescribeDevice(p.member[offer.device], "none")
                            \in {"handing over", "owner is using it"})
<1> DEFINE away == {d \in Alive(p) : p.member[d].state \in {"draining", "away"}}
           working == {d \in Alive(p) : p.member[d].state = "active" /\ Hosted(p, d) # {}}
<1>1. CASE away # {}
  <2>1. PICK d \in away : offer = [device |-> d, busy |-> FALSE]
    BY <1>1 DEF OwnerScenario
  <2>2. p.member[d].liveness = "alive" /\ p.member[d].state \in {"draining", "away"}
    BY <2>1 DEF Alive
  <2>3. DescribeDevice(p.member[d], "none") \in {"handing over", "owner is using it"}
    BY <2>2 DEF DescribeDevice
  <2>4. OwnerAsks(p.member[d]) = FALSE
    BY <2>2 DEF OwnerAsks
  <2> QED
    BY <2>1, <2>3, <2>4
<1>2. CASE away = {}
  <2>1. PICK d \in working : offer = [device |-> d, busy |-> TRUE]
    BY <1>2 DEF OwnerScenario, Fastest
  <2>2. p.member[d].liveness = "alive" /\ p.member[d].state = "active"
    BY <2>1 DEF Alive
  <2>3. DescribeDevice(p.member[d], "none") \notin {"handing over", "owner is using it"}
    BY <2>2 DEF DescribeDevice
  <2>4. OwnerAsks(p.member[d]) = TRUE
    BY <2>2 DEF OwnerAsks
  <2> QED
    BY <2>1, <2>3, <2>4
<1> QED
  BY <1>1, <1>2

\* What is shown is a picture some device gave, also when it is an older one.
PicturesOnly ==
  /\ view \in Pictures \cup {None}
  /\ frozen \in Pictures \cup {None}
  /\ asking.start \in Pictures \cup {None}

LEMMA PicturesKeep ==
  ASSUME PoolInv, PicturesOnly, [SiteNext]_siteVars
  PROVE  PicturesOnly'
<1>1. CASE OnTwoDevices \/ OnDetails \/ UNCHANGED siteVars
  <2>1. UNCHANGED <<view, frozen, asking>>
    BY <1>1 DEF OnTwoDevices, OnDetails, TwoDevicesOpen, DetailsOpen, siteVars, vars
  <2> QED
    BY <2>1 DEF PicturesOnly
<1>2. ASSUME NEW crash \in BOOLEAN, Ask(crash) PROVE PicturesOnly'
  <2>1. UNCHANGED <<view, frozen>> /\ asking'.start = view
    BY <1>2 DEF Ask
  <2> QED
    BY <2>1 DEF PicturesOnly
<1>3. CASE PictureArrives
  BY <1>3 DEF PictureArrives, PicturesOnly
<1>4. CASE DeviceSilent
  <2>1. asking = [crash |-> asking.crash, start |-> asking.start, via |-> asking.via,
                  at |-> asking.at, left |-> asking.left]
    BY DEF PoolInv, PageInv, Shapes
  <2>2. UNCHANGED <<view, frozen>> /\ asking'.start = asking.start
    BY <1>4, <2>1 DEF DeviceSilent
  <2> QED
    BY <2>2 DEF PicturesOnly
<1>5. CASE Answered
  <2>1. UNCHANGED view /\ frozen' = asking.start /\ asking' = NotAsking
    BY <1>5 DEF Answered
  <2> QED
    BY <2>1 DEF PicturesOnly, NotAsking
<1>6. CASE Failed
  <2>1. UNCHANGED <<view, frozen>> /\ asking' = NotAsking
    BY <1>6 DEF Failed
  <2> QED
    BY <2>1 DEF PicturesOnly, NotAsking
<1>7. CASE CrashTimer
  BY <1>7 DEF CrashTimer, PicturesOnly
<1>8. ASSUME NEW i \in Plays, ShowStep(i) \/ Cancelled(i) PROVE PicturesOnly'
  <2>1. UNCHANGED <<view, frozen, asking>>
    BY <1>8 DEF ShowStep, Cancelled
  <2> QED
    BY <2>1 DEF PicturesOnly
<1>9. ASSUME NEW i \in Plays, PlayEnds(i) PROVE PicturesOnly'
  <2>1. UNCHANGED <<view, asking>> /\ frozen' = None
    BY <1>9 DEF PlayEnds
  <2> QED
    BY <2>1 DEF PicturesOnly
<1>10. ASSUME NEW to \in {"/", "/two-devices", "/details"}, Follow(to) PROVE PicturesOnly'
  <2>1. view' = None /\ frozen' = None /\ asking' = NotAsking
    BY <1>10 DEF Follow, PoolMounts
  <2> QED
    BY <2>1 DEF PicturesOnly, NotAsking
<1> QED
  BY <1>1, <1>2, <1>3, <1>4, <1>5, <1>6, <1>7, <1>8, <1>9, <1>10 DEF SiteNext, OnPoolPage

\* With one or two copies wanted of each stage, the sentence about the pool, the
\* cards of its copies, the bench and the owner's button agree with one another
\* and with the count of the server, for any pictures devices give and however
\* an older one is kept on the stage (page.tsx, layout, healthText and
\* ownerScenario; Cards.tsx).  With three the sentence is wrong.
THEOREM WordsAgree == Replicas \in 1..2 => (SiteSpec => []WordsMatchCards)
<1> SUFFICES ASSUME Replicas \in 1..2 PROVE SiteSpec => []WordsMatchCards
  OBVIOUS
<1>1. SiteInit => PicturesOnly
  BY DEF SiteInit, Init, PicturesOnly, NotAsking
<1>2. PoolInv /\ PicturesOnly /\ [SiteNext]_siteVars => PicturesOnly'
  BY PicturesKeep
<1>3. PicturesOnly => WordsMatchCards
  <2> SUFFICES ASSUME PicturesOnly, Shown # None, lost = {}
               PROVE  /\ \A s \in Stage : Serving(s) = Coverage(Shown)[s]
                      /\ HealthText(Shown).says = "no device holds it" =>
                           Serving(HealthText(Shown).stage) = 0
                      /\ HealthText(Shown).says = "on one device only" =>
                           Serving(HealthText(Shown).stage) = 1
                      /\ Health(Shown) = "healthy" => \A s \in Stage : Missing(Shown, s) = 0
                      /\ \A d \in Bench(Shown) :
                           BenchTile(Shown, d) = "spare" /\ Shown.member[d].state # "left" =>
                             \A s \in Stage : Shown.member[d].hosting[s] \notin {"loading", "ready"}
                      /\ frozen = None =>
                           \A offer \in OwnerScenario(view) :
                             /\ offer.busy = OwnerAsks(Shown.member[offer.device])
                             /\ offer.busy # (DescribeDevice(Shown.member[offer.device], "none")
                                                \in {"handing over", "owner is using it"})
    BY DEF WordsMatchCards
  <2>1. Shown \in Pictures
    BY DEF Shown, PicturesOnly
  <2>2. \A s \in Stage : Serving(s) = Coverage(Shown)[s]
    BY <2>1, CardsAreCopies DEF Serving
  <2>3. WordsOf(Shown)
    BY <2>1, WordsAreTrue
  <2>4. frozen = None => Shown = view
    BY DEF Shown
  <2>5. \A d \in Bench(Shown) :
          BenchTile(Shown, d) = "spare" /\ Shown.member[d].state # "left" =>
            \A s \in Stage : Shown.member[d].hosting[s] \notin {"loading", "ready"}
    BY <2>1, SpareIsSpare
  <2>6. frozen = None =>
          \A offer \in OwnerScenario(view) :
            /\ offer.busy = OwnerAsks(Shown.member[offer.device])
            /\ offer.busy # (DescribeDevice(Shown.member[offer.device], "none")
                               \in {"handing over", "owner is using it"})
    BY <2>1, <2>4, OffersAgree
  <2> QED
    BY <2>2, <2>3, <2>5, <2>6 DEF WordsOf
<1> QED
  BY <1>1, <1>2, <1>3, PoolKeeps, PTL DEF SiteSpec

-----------------------------------------------------------------------------
(* How an answer travelled. *)

\* Two sums over the same numbers are the same.
LEMMA SumsAgree ==
  ASSUME NEW D, NEW v, NEW f, Sums(f, v, D), NEW E, NEW w, NEW g, Sums(g, w, E),
         D \subseteq E, \A x \in D : v[x] = w[x]
  PROVE  \A t \in SUBSET D : f[t] = g[t]
<1> DEFINE N == {k \in Nat : \E s \in SUBSET D : Cardinality(s) = k /\ f[s] # g[s]}
<1>1. \A s \in SUBSET D : IsFiniteSet(s) /\ Cardinality(s) \in Nat
  BY FS_Subset, FS_CardinalityType DEF Sums
<1>2. N = {}
  <2> SUFFICES ASSUME N # {} PROVE FALSE
    OBVIOUS
  <2>1. PICK k \in N : \A j \in N : k <= j
    <3>1. N \in SUBSET Nat
      OBVIOUS
    <3> HIDE DEF N
    <3> QED
      BY <3>1, Least
  <2>2. PICK s \in SUBSET D : Cardinality(s) = k /\ f[s] # g[s]
    BY <2>1
  <2>3. /\ f[s] = IF s = {} THEN 0 ELSE v[Pick(s)] + f[s \ {Pick(s)}]
        /\ g[s] = IF s = {} THEN 0 ELSE w[Pick(s)] + g[s \ {Pick(s)}]
    <3>1. s \in SUBSET D /\ s \in SUBSET E
      OBVIOUS
    <3>2. \A t \in SUBSET D : f[t] = IF t = {} THEN 0 ELSE v[Pick(t)] + f[t \ {Pick(t)}]
      BY SumIs
    <3>3. \A t \in SUBSET E : g[t] = IF t = {} THEN 0 ELSE w[Pick(t)] + g[t \ {Pick(t)}]
      BY SumIs
    <3> QED
      BY <3>1, <3>2, <3>3
  <2>4. s # {}
    BY <2>2, <2>3
  <2>5. Pick(s) \in s /\ Cardinality(s \ {Pick(s)}) = k - 1 /\ k \in Nat \ {0}
    BY <1>1, <2>2, <2>4, PickIn, LessOne
  <2>6. k - 1 \notin N
    <3> HIDE DEF N
    <3> QED
      BY <2>1, <2>5
  <2>7. f[s \ {Pick(s)}] = g[s \ {Pick(s)}]
    BY <2>5, <2>6
  <2> QED
    BY <2>2, <2>3, <2>5, <2>7
<1> QED
  BY <1>1, <1>2

\* Passes are added one after the other: f[i] are the legs of the first i.
AddedUp(f, r, n) == f = [i \in 0..n |-> IF i = 0 THEN <<>> ELSE AddPass(r, f[i - 1], i)]

LEMMA LegsAreAdded ==
  ASSUME NEW r, IsResult(r)
  PROVE  \E f : AddedUp(f, r, Len(r.passes)) /\ LegsOf(r) = f[Len(r.passes)]
<1> DEFINE N == {k \in Nat : ~ \E f : AddedUp(f, r, k)}
<1>1. N = {}
  <2> SUFFICES ASSUME N # {} PROVE FALSE
    OBVIOUS
  <2>1. PICK k \in N : \A j \in N : k <= j
    <3>1. N \in SUBSET Nat
      OBVIOUS
    <3> HIDE DEF N
    <3> QED
      BY <3>1, Least
  <2>2. k # 0
    <3>1. AddedUp([i \in 0..0 |-> << >>], r, 0)
      BY DEF AddedUp
    <3>2. 0 \notin N
      BY <3>1
    <3> QED
      BY <2>1, <3>2
  <2>3. k - 1 \in Nat /\ k - 1 \notin N
    <3>1. k \in Nat
      BY <2>1
    <3> HIDE DEF N
    <3> QED
      BY <2>1, <2>2, <3>1
  <2>4. PICK g : AddedUp(g, r, k - 1)
    BY <2>3
  <2> DEFINE h == [i \in 0..k |-> IF i = 0 THEN <<>> ELSE AddPass(r, g[i - 1], i)]
  <2>5. \A i \in 0..k - 1 : h[i] = g[i]
    <3> TAKE i \in 0..k - 1
    <3>1. i \in 0..k
      BY <2>3
    <3>2. g[i] = IF i = 0 THEN <<>> ELSE AddPass(r, g[i - 1], i)
      BY <2>4 DEF AddedUp
    <3> QED
      BY <3>1, <3>2
  <2>6. \A i \in 0..k : i # 0 => i - 1 \in 0..k - 1
    BY <2>3
  <2>7. AddedUp(h, r, k)
    BY <2>5, <2>6 DEF AddedUp
  <2> QED
    BY <2>1, <2>7
<1> DEFINE n == Len(r.passes)
           added == CHOOSE f : AddedUp(f, r, n)
<1>2. n \in Nat
  BY ResultIs
<1>3. AddedUp(added, r, n)
  BY <1>1, <1>2
<1>4. LegsOf(r) = added[n]
  BY DEF LegsOf, AddedUp
<1> QED
  BY <1>3, <1>4

\* The legs of the first i passes cut these passes as the legs of all do.
LegsUpTo(r, legs, i) ==
  /\ IsSeq(legs)
  /\ \A j \in 1..Len(legs) :
       /\ legs[j] = [route |-> legs[j].route, passes |-> legs[j].passes,
                     resent |-> legs[j].resent, lostBefore |-> legs[j].lostBefore]
       /\ legs[j].passes \in Nat
  /\ \E from \in [1..Len(legs) + 1 -> 1..i + 1] : CutsInto(legs, r, from, i)

\* What was lost before pass i.
LEMMA LostIs ==
  ASSUME NEW r, IsResult(r), NEW i \in 1..Len(r.passes)
  PROVE  /\ LostBefore(r, i) = Failovers(r, i)
         /\ LostBefore(r, i) # {} => r.passes[i].recovery
         /\ \A j \in LostBefore(r, i) : j \in Nat
<1>1. LostBefore(r, i) = Failovers(r, i)
  BY DEF LostBefore, Failovers, Losses, EventsAt
<1>2. ASSUME NEW j \in LostBefore(r, i) PROVE j \in Nat /\ r.passes[i].recovery
  <2>1. /\ j \in DOMAIN r.events /\ r.events[j].kind = "failover"
        /\ r.events[j].at_pass = i - 1
    BY DEF LostBefore, Losses
  <2>2. r.passes[(i - 1) + 1].recovery
    BY <2>1 DEF IsResult
  <2>3. (i - 1) + 1 = i /\ j \in Nat
    BY <2>1, ResultIs
  <2> QED
    BY <2>2, <2>3
<1> QED
  BY <1>1, <1>2

LEMMA NewLegIs ==
  ASSUME NEW r, IsResult(r), NEW i \in 1..Len(r.passes)
  PROVE  /\ NewLeg(r, i) = [route |-> NewLeg(r, i).route, passes |-> NewLeg(r, i).passes,
                            resent |-> NewLeg(r, i).resent, lostBefore |-> NewLeg(r, i).lostBefore]
         /\ NewLeg(r, i).passes = 1
         /\ Covers(NewLeg(r, i), r, i, i + 1)
<1> DEFINE gone == Failovers(r, i)
           first == CHOOSE j \in gone : \A k \in gone : j <= k
           told == IF gone = {} THEN << >> ELSE <<r.events[first].member, r.events[first].stage>>
           resent == IF r.passes[i].recovery THEN r.passes[i].seq_len ELSE 0
           leg == NewLeg(r, i)
<1>1. leg = [route |-> r.passes[i].route, passes |-> 1, resent |-> resent, lostBefore |-> told]
  BY DEF NewLeg
<1>2. \A x, y : <<x, y>> # << >>
  OBVIOUS
<1>3. told = << >> <=> gone = {}
  BY <1>2
<1>4. ASSUME NEW j \in gone, \A k \in gone : j <= k
      PROVE  told = <<r.events[j].member, r.events[j].stage>>
  <2>1. first \in gone /\ \A k \in gone : first <= k
    BY <1>4
  <2>2. \A k \in gone : k \in Nat
    BY LostIs
  <2> HIDE DEF gone, first
  <2>3. first = j
    BY <1>4, <2>1, <2>2
  <2> QED
    BY <1>4, <2>3
<1> HIDE DEF told, resent, leg, gone
<1>5. /\ leg.route = r.passes[i].route /\ leg.passes = 1 /\ leg.lostBefore = told
      /\ leg = [route |-> leg.route, passes |-> leg.passes,
                resent |-> leg.resent, lostBefore |-> leg.lostBefore]
  BY <1>1
<1>6. gone = LostBefore(r, i)
  BY LostIs DEF gone
<1>7. Tells(leg, r, i)
  BY <1>3, <1>4, <1>5, <1>6 DEF Tells
<1>8. i \in Nat
  BY ResultIs
<1>9. Covers(leg, r, i, i + 1)
  <2>1. leg.passes > 0 /\ leg.passes = (i + 1) - i
    BY <1>5, <1>8
  <2>2. \A k \in i..(i + 1) - 1 : k = i
    BY <1>8
  <2> QED
    BY <1>5, <1>7, <2>1, <2>2 DEF Covers
<1> QED
  BY <1>5, <1>9 DEF leg

LEMMA CoversAll ==
  ASSUME NEW leg, NEW r, NEW first, NEW next,
         leg.passes > 0, leg.passes = next - first, Tells(leg, r, first),
         \A i \in first..next - 1 :
           r.passes[i].route = leg.route /\ (i # first => LostBefore(r, i) = {})
  PROVE  Covers(leg, r, first, next)
BY DEF Covers

LEMMA AddPassKeeps ==
  ASSUME NEW r, IsResult(r), NEW i \in 1..Len(r.passes), NEW legs, LegsUpTo(r, legs, i - 1)
  PROVE  LegsUpTo(r, AddPass(r, legs, i), i)
<1> DEFINE n == Len(legs)
           pass == r.passes[i]
           goesOn == legs # <<>> /\ Last(legs).route = pass.route /\ ~pass.recovery
           more == AddPass(r, legs, i)
<1>1. IsSeq(legs) /\ n \in Nat /\ DOMAIN legs = 1..n /\ i \in Nat \ {0}
  BY SeqIs, ResultIs DEF LegsUpTo
<1>2. \A j \in 1..n : /\ legs[j].passes \in Nat
                      /\ legs[j] = [route |-> legs[j].route, passes |-> legs[j].passes,
                                    resent |-> legs[j].resent, lostBefore |-> legs[j].lostBefore]
  BY DEF LegsUpTo
<1>0. PICK from \in [1..n + 1 -> 1..(i - 1) + 1] : CutsInto(legs, r, from, i - 1)
  BY DEF LegsUpTo
<1> HIDE DEF n
<1>10. /\ from[1] = 1 /\ from[n + 1] = i
       /\ \A j \in 1..n : Covers(legs[j], r, from[j], from[j + 1])
       /\ \A j \in 1..n + 1 : from[j] \in 1..i
  BY <1>0, <1>1 DEF CutsInto, n
<1>3. CASE goesOn
  <2>1. more = [legs EXCEPT ![n] = [legs[n] EXCEPT !.passes = @ + 1]]
    BY <1>3 DEF AddPass, n
  <2>2. n # 0 /\ n \in 1..n
    <3>1. legs \in Seq(Range(legs)) /\ legs # << >>
      BY <1>1, <1>3 DEF IsSeq
    <3>2. n # 0
      BY <3>1, EmptySeq DEF n
    <3> QED
      BY <1>1, <3>2
  <2>3. DOMAIN more = 1..n /\ \A j \in 1..n - 1 : more[j] = legs[j]
    BY <1>1, <2>1
  <2>4. more[n] = [route |-> legs[n].route, passes |-> legs[n].passes + 1,
                   resent |-> legs[n].resent, lostBefore |-> legs[n].lostBefore]
    <3>1. more[n] = [legs[n] EXCEPT !.passes = legs[n].passes + 1]
      BY <1>1, <2>1, <2>2
    <3>2. PICK a, b, c, d : legs[n] = [route |-> a, passes |-> b, resent |-> c, lostBefore |-> d]
      BY <1>2, <2>2
    <3> QED
      BY <3>1, <3>2
  <2>5. IsSeq(more) /\ Len(more) = n
    <3>1. more = [j \in 1..n |-> more[j]]
      BY <1>1, <2>1
    <3> HIDE DEF more
    <3> QED
      BY <1>1, <2>3, <3>1, CountedIsSeq
  <2>0. Last(legs) = legs[n]
    BY DEF Last, n
  <2>0a. legs[n].route = pass.route /\ LostBefore(r, i) = {}
    BY <1>3, <2>0, LostIs
  <2> HIDE DEF more
  <2>6. /\ more[n].route = legs[n].route /\ more[n].passes = legs[n].passes + 1
        /\ more[n].lostBefore = legs[n].lostBefore
        /\ more[n] = [route |-> more[n].route, passes |-> more[n].passes,
                      resent |-> more[n].resent, lostBefore |-> more[n].lostBefore]
        /\ legs[n].passes \in Nat
    <3>1. legs[n].passes \in Nat
      BY <1>2, <2>2
    <3>2. /\ more[n].route = legs[n].route /\ more[n].passes = legs[n].passes + 1
          /\ more[n].resent = legs[n].resent /\ more[n].lostBefore = legs[n].lostBefore
      BY <2>4
    <3> QED
      BY <2>4, <3>1, <3>2
  <2>7. \A j \in 1..n : j = n \/ j \in 1..n - 1
    BY <1>1
  <2>8. \A j \in 1..n : /\ more[j] = [route |-> more[j].route, passes |-> more[j].passes,
                                      resent |-> more[j].resent, lostBefore |-> more[j].lostBefore]
                        /\ more[j].passes \in Nat
    <3> TAKE j \in 1..n
    <3>1. CASE j = n
      BY <2>6, <3>1
    <3>2. CASE j # n
      <4>1. more[j] = legs[j]
        BY <2>3, <2>7, <3>2
      <4> QED
        BY <1>2, <4>1
    <3> QED
      BY <3>1, <3>2
  <2> DEFINE to == [from EXCEPT ![n + 1] = i + 1]
  <2>9. to \in [1..n + 1 -> 1..i + 1]
    BY <1>1, <1>10
  <2>10. to[n + 1] = i + 1 /\ \A j \in 1..n : to[j] = from[j]
    BY <1>1
  <2> HIDE DEF to
  <2>11. Covers(legs[n], r, from[n], i) /\ from[n] \in 1..i
    BY <1>1, <1>10, <2>2
  <2>12. Covers(more[n], r, from[n], i + 1)
    <3>1. legs[n].passes > 0 /\ legs[n].passes = i - from[n] /\ Tells(legs[n], r, from[n])
      BY <2>11 DEF Covers
    <3>2. more[n].passes > 0 /\ more[n].passes = (i + 1) - from[n]
      BY <1>1, <2>6, <2>11, <3>1
    <3>3. Tells(more[n], r, from[n])
      BY <2>6, <3>1 DEF Tells
    <3>4. ASSUME NEW k \in from[n]..(i + 1) - 1
          PROVE  r.passes[k].route = more[n].route /\ (k # from[n] => LostBefore(r, k) = {})
      <4>1. k = i \/ k \in from[n]..i - 1
        BY <1>1, <2>11
      <4>2. CASE k = i
        BY <2>0a, <2>6, <4>2
      <4>3. CASE k \in from[n]..i - 1
        BY <2>6, <2>11, <4>3 DEF Covers
      <4> QED
        BY <4>1, <4>2, <4>3
    <3>5. \A k \in from[n]..(i + 1) - 1 :
            r.passes[k].route = more[n].route /\ (k # from[n] => LostBefore(r, k) = {})
      BY ONLY <3>4
    <3> QED
      BY <3>2, <3>3, <3>5, CoversAll
  <2>13. \A j \in 1..n : Covers(more[j], r, to[j], to[j + 1])
    <3> TAKE j \in 1..n
    <3>1. CASE j = n
      BY <2>2, <2>10, <2>12, <3>1
    <3>2. CASE j # n
      <4>1. j \in 1..n - 1 /\ j + 1 \in 1..n
        BY <1>1, <3>2
      <4> QED
        BY <1>10, <2>3, <2>10, <4>1
    <3> QED
      BY <3>1, <3>2
  <2>14. to[1] = 1
    BY <1>1, <1>10, <2>2, <2>10
  <2>15. CutsInto(more, r, to, i)
    BY <2>5, <2>10, <2>13, <2>14 DEF CutsInto
  <2>16. LegsUpTo(r, more, i)
    BY <2>5, <2>8, <2>9, <2>15 DEF LegsUpTo
  <2> QED
    BY <2>16 DEF more
<1>4. CASE ~goesOn
  <2> DEFINE leg == NewLeg(r, i)
  <2>1. more = Append(legs, leg)
    BY <1>4 DEF AddPass
  <2>2. /\ IsSeq(more) /\ Len(more) = n + 1
        /\ more[n + 1] = leg /\ \A j \in 1..n : more[j] = legs[j]
    <3> DEFINE S == Range(legs) \cup {leg}
    <3>1. legs \in Seq(S)
      BY <1>1, SeqMonotonic DEF IsSeq
    <3>2. leg \in S
      OBVIOUS
    <3> HIDE DEF S, leg, more
    <3>3. /\ Append(legs, leg) \in Seq(S) /\ Len(Append(legs, leg)) = Len(legs) + 1
          /\ \A j \in 1..Len(legs) : Append(legs, leg)[j] = legs[j]
          /\ Append(legs, leg)[Len(legs) + 1] = leg
      BY <3>1, <3>2, AppendProperties
    <3>4. IsSeq(more) /\ Len(more) = n + 1
      BY <2>1, <3>3, MakesSeq DEF n
    <3> QED
      BY <2>1, <3>3, <3>4 DEF n
  <2>3. /\ leg.passes = 1 /\ Covers(leg, r, i, i + 1)
        /\ leg = [route |-> leg.route, passes |-> leg.passes,
                  resent |-> leg.resent, lostBefore |-> leg.lostBefore]
    BY NewLegIs
  <2> HIDE DEF more, leg
  <2>4. \A j \in 1..n + 1 : j \in 1..n \/ j = n + 1
    BY <1>1
  <2>5. \A j \in 1..n + 1 : /\ more[j] = [route |-> more[j].route, passes |-> more[j].passes,
                                          resent |-> more[j].resent, lostBefore |-> more[j].lostBefore]
                            /\ more[j].passes \in Nat
    <3> TAKE j \in 1..n + 1
    <3>1. CASE j = n + 1
      BY <2>2, <2>3, <3>1
    <3>2. CASE j # n + 1
      <4>1. j \in 1..n /\ more[j] = legs[j]
        BY <2>2, <2>4, <3>2
      <4> QED
        BY <1>2, <4>1
    <3> QED
      BY <3>1, <3>2
  <2> DEFINE to == [j \in 1..(n + 1) + 1 |-> IF j \in 1..n + 1 THEN from[j] ELSE i + 1]
  <2>6. to \in [1..(n + 1) + 1 -> 1..i + 1]
    BY <1>1, <1>10
  <2>7. to[(n + 1) + 1] = i + 1 /\ \A j \in 1..n + 1 : to[j] = from[j]
    BY <1>1
  <2> HIDE DEF to
  <2>8. \A j \in 1..n + 1 : Covers(more[j], r, to[j], to[j + 1])
    <3> TAKE j \in 1..n + 1
    <3>1. CASE j = n + 1
      BY <1>1, <1>10, <2>2, <2>3, <2>7, <3>1
    <3>2. CASE j # n + 1
      <4>1. j \in 1..n /\ j + 1 \in 1..n + 1
        BY <1>1, <3>2
      <4> QED
        BY <1>10, <2>2, <2>7, <4>1
    <3> QED
      BY <3>1, <3>2
  <2>9. to[1] = 1
    BY <1>1, <1>10, <2>7
  <2>10. CutsInto(more, r, to, i)
    BY <2>2, <2>7, <2>8, <2>9 DEF CutsInto
  <2>11. LegsUpTo(r, more, i)
    BY <2>2, <2>5, <2>6, <2>10 DEF LegsUpTo
  <2> QED
    BY <2>11 DEF more
<1> QED
  BY <1>3, <1>4

LEMMA LegsComplete ==
  ASSUME NEW r, IsResult(r)
  PROVE  LegsUpTo(r, LegsOf(r), Len(r.passes))
<1> DEFINE n == Len(r.passes)
<1>1. n \in Nat
  BY ResultIs
<1>2. PICK f : AddedUp(f, r, n) /\ LegsOf(r) = f[n]
  BY LegsAreAdded
<1>3. \A i \in 0..n : f[i] = IF i = 0 THEN <<>> ELSE AddPass(r, f[i - 1], i)
  BY <1>2 DEF AddedUp
<1> DEFINE N == {i \in Nat : i <= n /\ ~LegsUpTo(r, f[i], i)}
<1>4. LegsUpTo(r, f[0], 0)
  <2>1. f[0] = << >>
    BY <1>1, <1>3
  <2>2. IsSeq(<< >>) /\ Len(<< >>) = 0 /\ 1..Len(<< >>) = {}
    BY DEF IsSeq
  <2> DEFINE from == [j \in 1..Len(<< >>) + 1 |-> 1]
  <2>3. from \in [1..Len(<< >>) + 1 -> 1..0 + 1] /\ from[1] = 1 /\ from[Len(<< >>) + 1] = 0 + 1
    BY <2>2
  <2> HIDE DEF from
  <2>4. CutsInto(<< >>, r, from, 0)
    BY <2>2, <2>3 DEF CutsInto
  <2>5. LegsUpTo(r, << >>, 0)
    BY <2>2, <2>3, <2>4 DEF LegsUpTo
  <2> QED
    BY <2>1, <2>5
<1>5. N = {}
  <2> SUFFICES ASSUME N # {} PROVE FALSE
    OBVIOUS
  <2>1. PICK i \in N : \A j \in N : i <= j
    <3>1. N \in SUBSET Nat
      OBVIOUS
    <3> HIDE DEF N
    <3> QED
      BY <3>1, Least
  <2>2. i \in Nat /\ i <= n /\ i # 0 /\ ~LegsUpTo(r, f[i], i)
    BY <1>4, <2>1
  <2>3. i - 1 \in Nat /\ i - 1 <= n /\ i - 1 \notin N
    <3> HIDE DEF N
    <3> QED
      BY <1>1, <2>1, <2>2
  <2>4. LegsUpTo(r, f[i - 1], i - 1)
    BY <2>3
  <2>5. i \in 1..n /\ f[i] = AddPass(r, f[i - 1], i)
    BY <1>1, <1>3, <2>2
  <2>6. LegsUpTo(r, AddPass(r, f[i - 1], i), i)
    BY <2>4, <2>5, AddPassKeeps
  <2> QED
    BY <2>2, <2>5, <2>6
<1> QED
  BY <1>1, <1>2, <1>5

\* "How that answer travelled" cuts the passes of any answer into legs over one route
\* each; every pass that devices were lost before begins one, which tells the first of
\* them (components/pool/Journey.tsx, legsOf).
THEOREM JourneysAreComplete == SiteSpec => []JourneyIsComplete
<1>1. PoolInv => JourneyIsComplete
  <2> SUFFICES ASSUME PoolInv, phase = "done"
               PROVE  \E from \in [1..Len(LegsOf(result)) + 1 -> 1..Len(result.passes) + 1] :
                        CutsInto(LegsOf(result), result, from, Len(result.passes))
    BY DEF JourneyIsComplete
  <2>1. IsResult(result)
    <3>1. result \in Results
      BY DEF PoolInv, PoolTelling
    <3> QED
      BY <3>1, PageAssumption
  <2> QED
    BY <2>1, LegsComplete DEF LegsUpTo
<1> QED
  BY <1>1, PoolKeeps, PTL

-----------------------------------------------------------------------------
(* The charts of the page of figures. *)

\* What a function's values come to is a sum over its domain.
Summable(F) == IsFiniteSet(DOMAIN F) /\ \A x \in DOMAIN F : F[x] \in Nat

LEMMA FunctionSum ==
  ASSUME NEW F, Summable(F)
  PROVE  \E g : Sums(g, F, DOMAIN F) /\ SumFunction(F) = g[DOMAIN F]
<1> DEFINE D == DOMAIN F
           iter == CHOOSE f : SumsOver(f, F, SUBSET D)
<1>1. IsFiniteSet(D) /\ \A x \in D : F[x] \in Nat
  BY DEF Summable
<1>2. SumFunction(F) = iter[D]
  BY DEF SumFunction, SumFunctionOnSet, FoldFunctionOnSet, MapThenFoldSet, SumsOver, Pick
<1> HIDE DEF D
<1>3. SumsOver(iter, F, SUBSET D)
  <2>1. \E f : SumsOver(f, F, SUBSET D)
    BY <1>1, SumExists
  <2> QED
    BY <2>1
<1> HIDE DEF iter
<1>4. Sums(iter, F, D)
  BY <1>1, <1>3 DEF Sums
<1> QED
  BY <1>2, <1>4 DEF D

\* Part of a sum.
LEMMA PartSum ==
  ASSUME NEW D, NEW v, NEW g, Sums(g, v, D),
         NEW F, DOMAIN F \subseteq D, \A x \in DOMAIN F : F[x] = v[x]
  PROVE  Summable(F) /\ SumFunction(F) = g[DOMAIN F] /\ SumFunction(F) \in Nat
<1> DEFINE C == DOMAIN F
<1>1. Summable(F)
  BY FS_Subset DEF Sums, Summable
<1>2. PICK f : Sums(f, F, C) /\ SumFunction(F) = f[C]
  BY <1>1, FunctionSum
<1>3. C \subseteq D /\ \A x \in C : F[x] = v[x]
  OBVIOUS
<1> HIDE DEF C
<1>4. f[C] = g[C]
  <2>1. Sums(f, F, C)
    BY <1>2
  <2>2. \A t \in SUBSET C : f[t] = g[t]
    BY <1>3, <2>1, SumsAgree
  <2> QED
    BY <2>2
<1>5. f[C] \in Nat
  <2>1. Sums(f, F, C)
    BY <1>2
  <2>2. \A t \in SUBSET C : f[t] \in Nat
    BY <2>1, SumType
  <2> QED
    BY <2>2
<1> QED
  BY <1>1, <1>2, <1>4, <1>5 DEF C

LEMMA SumIsNat ==
  ASSUME NEW F, Summable(F)
  PROVE  SumFunction(F) \in Nat
<1> DEFINE C == DOMAIN F
<1>1. PICK g : Sums(g, F, C) /\ SumFunction(F) = g[C]
  BY FunctionSum
<1> HIDE DEF C
<1>2. \A t \in SUBSET C : g[t] \in Nat
  <2>1. Sums(g, F, C)
    BY <1>1
  <2> QED
    BY <2>1, SumType
<1> QED
  BY <1>1, <1>2

\* Nothing, or one value, and those after it.
LEMMA SumOfNone ==
  ASSUME NEW D, NEW v, NEW g, Sums(g, v, D)
  PROVE  g[{}] = 0
<1>1. \A t \in SUBSET D : g[t] = IF t = {} THEN 0 ELSE v[Pick(t)] + g[t \ {Pick(t)}]
  BY SumIs
<1>2. {} \in SUBSET D
  OBVIOUS
<1> QED
  BY <1>1, <1>2

LEMMA SumOfOne ==
  ASSUME NEW F, Summable(F), NEW x, DOMAIN F = {x}
  PROVE  SumFunction(F) = F[x]
<1> DEFINE C == DOMAIN F
<1>1. PICK g : Sums(g, F, C) /\ SumFunction(F) = g[C]
  BY FunctionSum
<1>2. C = {} \cup {x} /\ x \in C /\ F[x] \in Nat
  BY DEF Summable
<1> HIDE DEF C
<1>3. Sums(g, F, C)
  BY <1>1
<1>4. g[{}] = 0
  BY <1>3, SumOfNone
<1>5. \A t \in SUBSET C : \A y \in C : y \notin t => g[t \cup {y}] = g[t] + F[y]
  BY <1>3, SumAdds
<1>6. g[{} \cup {x}] = g[{}] + F[x]
  BY <1>2, <1>5
<1> QED
  BY <1>1, <1>2, <1>4, <1>6

LEMMA SumOfTwo ==
  ASSUME NEW F, Summable(F), NEW x, NEW y, DOMAIN F = {x, y}, x # y
  PROVE  SumFunction(F) = F[x] + F[y]
<1> DEFINE C == DOMAIN F
<1>1. PICK g : Sums(g, F, C) /\ SumFunction(F) = g[C]
  BY FunctionSum
<1>2. C = {x} \cup {y} /\ {x} = {} \cup {x} /\ x \in C /\ y \in C /\ F[x] \in Nat /\ F[y] \in Nat
  BY DEF Summable
<1> HIDE DEF C
<1>3. Sums(g, F, C)
  BY <1>1
<1>4. g[{}] = 0
  BY <1>3, SumOfNone
<1>5. \A t \in SUBSET C : \A z \in C : z \notin t => g[t \cup {z}] = g[t] + F[z]
  BY <1>3, SumAdds
<1>6. g[{} \cup {x}] = g[{}] + F[x]
  BY <1>2, <1>5
<1>7. g[{x} \cup {y}] = g[{x}] + F[y]
  <2>1. {x} \in SUBSET C /\ y \notin {x}
    BY <1>2
  <2> QED
    BY <1>2, <1>5, <2>1
<1> QED
  BY <1>1, <1>2, <1>4, <1>6, <1>7

\* Two parts that have nothing in common.
LEMMA SumJoins ==
  ASSUME NEW D, NEW v, NEW g, Sums(g, v, D), NEW A, A \in SUBSET D
  PROVE  \A B \in SUBSET D : A \cap B = {} => g[A \cup B] = g[A] + g[B]
<1> DEFINE N == {k \in Nat : \E B \in SUBSET D : /\ Cardinality(B) = k /\ A \cap B = {}
                                                 /\ g[A \cup B] # g[A] + g[B]}
<1>1. \A s \in SUBSET D : IsFiniteSet(s) /\ Cardinality(s) \in Nat
  BY FS_Subset, FS_CardinalityType DEF Sums
<1>2. /\ \A t \in SUBSET D : g[t] \in Nat
      /\ \A t \in SUBSET D : \A x \in D : x \notin t => g[t \cup {x}] = g[t] + v[x]
  BY SumType, SumAdds
<1>3. \A x \in D : v[x] \in Nat
  BY DEF Sums
<1>4. N = {}
  <2> SUFFICES ASSUME N # {} PROVE FALSE
    OBVIOUS
  <2>1. PICK k \in N : \A j \in N : k <= j
    <3>1. N \in SUBSET Nat
      OBVIOUS
    <3> HIDE DEF N
    <3> QED
      BY <3>1, Least
  <2>2. PICK B \in SUBSET D : Cardinality(B) = k /\ A \cap B = {} /\ g[A \cup B] # g[A] + g[B]
    BY <2>1
  <2>3. B # {}
    <3> SUFFICES ASSUME B = {} PROVE FALSE
      OBVIOUS
    <3>1. g[B] = 0 /\ A \cup B = A
      BY SumOfNone
    <3>2. g[A] \in Nat
      BY <1>2
    <3> QED
      BY <2>2, <3>1, <3>2
  <2>4. PICK x \in B : TRUE
    BY <2>3
  <2> DEFINE E == B \ {x}
  <2>5. Cardinality(E) = k - 1 /\ k \in Nat \ {0}
    BY <1>1, <2>2, LessOne
  <2>6. k - 1 \notin N
    <3> HIDE DEF N, E
    <3> QED
      BY <2>1, <2>5
  <2>7. E \in SUBSET D /\ A \cap E = {} /\ x \in D /\ x \notin E /\ x \notin A \cup E
        /\ B = E \cup {x} /\ A \cup B = (A \cup E) \cup {x} /\ A \cup E \in SUBSET D
    BY <2>2
  <2> HIDE DEF E
  <2>8. g[A \cup E] = g[A] + g[E]
    <3>1. k - 1 \in Nat
      BY <2>5
    <3>2. \A C \in SUBSET D : Cardinality(C) = k - 1 /\ A \cap C = {}
                               => g[A \cup C] = g[A] + g[C]
      BY <2>6, <3>1
    <3> QED
      BY <2>5, <2>7, <3>2
  <2>9. g[B] = g[E] + v[x]
    BY <1>2, <2>7
  <2>10. g[A \cup B] = g[A \cup E] + v[x]
    BY <1>2, <2>7
  <2>11. g[A] \in Nat /\ g[E] \in Nat /\ v[x] \in Nat
    BY <1>2, <1>3, <2>7
  <2> QED
    BY <2>2, <2>8, <2>9, <2>10, <2>11
<1> QED
  BY <1>1, <1>4

\* These of the indices carry one of these names.
Named(D, name, K) == {j \in D : name[j] \in K}

\* What t says of each name.
NameByName(t, g, D, name, H) == \A h \in H : t[h] = g[Named(D, name, {h})]

\* What is summed name by name is summed once.
LEMMA SumByName ==
  ASSUME NEW D, NEW v, NEW g, Sums(g, v, D), NEW name,
         NEW H, NEW t, NEW s, Sums(s, t, H), NameByName(t, g, D, name, H)
  PROVE  \A K \in SUBSET H : s[K] = g[Named(D, name, K)]
<1> DEFINE N == {k \in Nat : \E K \in SUBSET H : /\ Cardinality(K) = k
                                                 /\ s[K] # g[Named(D, name, K)]}
<1>1. \A K \in SUBSET H : IsFiniteSet(K) /\ Cardinality(K) \in Nat
  BY FS_Subset, FS_CardinalityType DEF Sums
<1>2. \A K \in SUBSET H : \A h \in H : h \notin K => s[K \cup {h}] = s[K] + t[h]
  BY SumAdds
<1>3. \A K : Named(D, name, K) \in SUBSET D
  BY DEF Named
<1>4. N = {}
  <2> SUFFICES ASSUME N # {} PROVE FALSE
    OBVIOUS
  <2>1. PICK k \in N : \A j \in N : k <= j
    <3>1. N \in SUBSET Nat
      OBVIOUS
    <3> HIDE DEF N
    <3> QED
      BY <3>1, Least
  <2>2. PICK K \in SUBSET H : Cardinality(K) = k /\ s[K] # g[Named(D, name, K)]
    BY <2>1
  <2>3. K # {}
    <3> SUFFICES ASSUME K = {} PROVE FALSE
      OBVIOUS
    <3>1. s[K] = 0
      BY SumOfNone
    <3>2. Named(D, name, K) = {}
      BY DEF Named
    <3>3. g[{}] = 0
      BY SumOfNone
    <3> QED
      BY <2>2, <3>1, <3>2, <3>3
  <2>4. PICK h \in K : TRUE
    BY <2>3
  <2> DEFINE E == K \ {h}
  <2>5. Cardinality(E) = k - 1 /\ k \in Nat \ {0}
    BY <1>1, <2>2, LessOne
  <2>6. k - 1 \notin N
    <3> HIDE DEF N, E
    <3> QED
      BY <2>1, <2>5
  <2>7. E \in SUBSET H /\ h \in H /\ h \notin E /\ K = E \cup {h}
    BY <2>2
  <2> HIDE DEF E
  <2>8. s[E] = g[Named(D, name, E)]
    BY <2>5, <2>6, <2>7
  <2>9. s[K] = s[E] + t[h]
    BY <1>2, <2>7
  <2>10. /\ Named(D, name, E) \cap Named(D, name, {h}) = {}
         /\ Named(D, name, K) = Named(D, name, E) \cup Named(D, name, {h})
    BY <2>7 DEF Named
  <2>11. g[Named(D, name, K)] = g[Named(D, name, E)] + g[Named(D, name, {h})]
    <3> DEFINE A == Named(D, name, E)
               B == Named(D, name, {h})
    <3>1. A \in SUBSET D /\ B \in SUBSET D /\ A \cap B = {} /\ Named(D, name, K) = A \cup B
      BY <1>3, <2>10
    <3> HIDE DEF A, B
    <3>2. \A b \in SUBSET D : A \cap b = {} => g[A \cup b] = g[A] + g[b]
      <4>1. Sums(g, v, D) /\ A \in SUBSET D
        BY <3>1
      <4> QED
        BY ONLY <4>1, SumJoins
    <3>3. g[A \cup B] = g[A] + g[B]
      BY <3>1, <3>2
    <3> QED
      BY <3>1, <3>3 DEF A, B
  <2>12. t[h] = g[Named(D, name, {h})]
    BY <2>7 DEF NameByName
  <2> QED
    BY <2>2, <2>8, <2>9, <2>11, <2>12
<1> QED
  BY <1>1, <1>4

\* The bytes of a generation: the sum over all of its hops, ...
LEMMA RunSums ==
  ASSUME NEW r, IsRun(r), NEW field \in {"sent_bytes", "compute_ms", "transport_ms"}
  PROVE  /\ IsSeq(r.hops) /\ IsFiniteSet(DOMAIN r.hops)
         /\ Summable([j \in DOMAIN r.hops |-> r.hops[j][field]])
<1>1. IsSeq(r.hops)
  BY DEF IsRun, IsSeq
<1>2. IsFiniteSet(DOMAIN r.hops)
  <2>1. DOMAIN r.hops = 1..Len(r.hops) /\ Len(r.hops) \in Nat
    BY <1>1, SeqIs
  <2> QED
    BY <2>1, FS_Interval
<1>3. \A j \in DOMAIN r.hops : r.hops[j][field] \in Nat
  <2> TAKE j \in DOMAIN r.hops
  <2>1. r.hops[j].sent_bytes \in Nat /\ r.hops[j].compute_ms \in Nat /\ r.hops[j].transport_ms \in Nat
    BY DEF IsRun
  <2>2. CASE field = "sent_bytes"
    BY <2>1, <2>2
  <2>3. CASE field = "compute_ms"
    BY <2>1, <2>3
  <2>4. CASE field = "transport_ms"
    BY <2>1, <2>4
  <2> QED
    BY <2>2, <2>3, <2>4
<1> QED
  BY <1>1, <1>2, <1>3 DEF Summable

\* Some of the hops of a generation.
HopsOfRun(hops, r) ==
  /\ DOMAIN hops \subseteq DOMAIN r.hops
  /\ hops = [j \in DOMAIN hops |-> r.hops[j]]

\* What is summed where a name is given is a part of the whole sum.
LEMMA WhereIs ==
  ASSUME NEW r, IsRun(r), NEW field \in {"sent_bytes", "compute_ms", "transport_ms"},
         NEW hops, HopsOfRun(hops, r),
         NEW v, v = [j \in DOMAIN hops |-> hops[j][field]],
         NEW name, name = [j \in DOMAIN hops |-> hops[j].hop]
  PROVE  /\ Summable(v)
         /\ IsFiniteSet(HopsOf(hops))
         /\ \A g : Sums(g, v, DOMAIN hops) =>
              \A h \in HopsOf(hops) :
                /\ SumWhere(hops, h, field) = g[Named(DOMAIN hops, name, {h})]
                /\ SumWhere(hops, h, field) \in Nat
<1> DEFINE D == DOMAIN hops
           all == [j \in DOMAIN r.hops |-> r.hops[j][field]]
<1>1. IsFiniteSet(DOMAIN r.hops) /\ Summable(all)
  BY RunSums
<1>2. D \subseteq DOMAIN r.hops /\ \A j \in D : hops[j] = r.hops[j]
  BY DEF HopsOfRun
<1>3. Summable(v)
  <2>1. DOMAIN v = D /\ \A j \in D : v[j] = all[j]
    BY <1>2
  <2>2. IsFiniteSet(D)
    BY <1>1, <1>2, FS_Subset
  <2>3. \A j \in D : all[j] \in Nat
    BY <1>1, <1>2 DEF Summable
  <2> QED
    BY <2>1, <2>2, <2>3 DEF Summable
<1>4. IsFiniteSet(HopsOf(hops))
  <2>1. IsFiniteSet(D) /\ DOMAIN name = D
    BY <1>1, <1>2, FS_Subset
  <2>2. IsFiniteSet({name[j] : j \in D})
    BY <2>1, ImageIsFinite
  <2>3. HopsOf(hops) = {name[j] : j \in D}
    BY DEF HopsOf
  <2> QED
    BY <2>2, <2>3
<1>5. ASSUME NEW g, Sums(g, v, D), NEW h \in HopsOf(hops)
      PROVE  /\ SumWhere(hops, h, field) = g[Named(D, name, {h})]
             /\ SumWhere(hops, h, field) \in Nat
  <2> DEFINE F == [j \in {j \in D : hops[j].hop = h} |-> hops[j][field]]
  <2>1. SumWhere(hops, h, field) = SumFunction(F)
    BY DEF SumWhere
  <2>2. DOMAIN F \subseteq D /\ \A x \in DOMAIN F : F[x] = v[x]
    OBVIOUS
  <2>3. DOMAIN F = Named(D, name, {h})
    BY DEF Named
  <2> HIDE DEF F, D
  <2>4. SumFunction(F) = g[DOMAIN F] /\ SumFunction(F) \in Nat
    BY <1>5, <2>2, PartSum
  <2> QED
    BY <2>1, <2>3, <2>4
<1> QED
  BY <1>3, <1>4, <1>5

\* ... and what the bars of one phase show is the sum over that phase's hops.
LEMMA BytesAre ==
  ASSUME NEW r, IsRun(r), NEW hops, HopsOfRun(hops, r),
         NEW v, v = [j \in DOMAIN hops |-> hops[j].sent_bytes]
  PROVE  BytesIn(BandwidthRows(hops)) = SumFunction(v)
<1> DEFINE D == DOMAIN hops
           name == [j \in D |-> hops[j].hop]
           H == HopsOf(hops)
           w == [j \in D |-> hops[j]["sent_bytes"]]
           rows == BandwidthRows(hops)
           F == [h \in DOMAIN rows |-> RowTotal(rows[h])]
<1>1. v = w
  OBVIOUS
<1>2. /\ Summable(v) /\ IsFiniteSet(H)
      /\ \A g : Sums(g, v, D) =>
           \A h \in H : /\ SumWhere(hops, h, "sent_bytes") = g[Named(D, name, {h})]
                        /\ SumWhere(hops, h, "sent_bytes") \in Nat
  BY <1>1, WhereIs
<1>3. DOMAIN v = D
  OBVIOUS
<1>4. PICK g : Sums(g, v, D) /\ SumFunction(v) = g[D]
  BY <1>2, <1>3, FunctionSum
<1>5. \A h \in H : /\ SumWhere(hops, h, "sent_bytes") = g[Named(D, name, {h})]
                   /\ SumWhere(hops, h, "sent_bytes") \in Nat
  BY <1>2, <1>4
<1>6. DOMAIN F = H /\ \A h \in H : F[h] = SumWhere(hops, h, "sent_bytes")
  <2>1. DOMAIN rows = H /\ \A h \in H : rows[h] = <<SumWhere(hops, h, "sent_bytes")>>
    BY DEF BandwidthRows
  <2>2. ASSUME NEW h \in H
        PROVE  RowTotal(rows[h]) = SumWhere(hops, h, "sent_bytes")
    <3> DEFINE row == <<SumWhere(hops, h, "sent_bytes")>>
    <3>1. DOMAIN row = {1} /\ row[1] = SumWhere(hops, h, "sent_bytes")
      OBVIOUS
    <3>2. IsFiniteSet({1})
      BY FS_Singleton
    <3>3. Summable(row)
      BY <1>5, <3>1, <3>2 DEF Summable
    <3> HIDE DEF row
    <3>4. SumFunction(row) = row[1]
      BY <3>1, <3>3, SumOfOne
    <3> QED
      BY <2>1, <3>1, <3>4 DEF RowTotal, row
  <2> HIDE DEF rows
  <2> QED
    BY <2>1, <2>2
<1>7. BytesIn(rows) = SumFunction(F)
  BY DEF BytesIn
<1>8. D = Named(D, name, H)
  BY DEF Named, HopsOf
<1> HIDE DEF F, H, D, name, rows
<1>9. Summable(F)
  BY <1>2, <1>5, <1>6 DEF Summable
<1>10. PICK s : Sums(s, F, DOMAIN F) /\ SumFunction(F) = s[DOMAIN F]
  BY <1>9, FunctionSum
<1>11. Sums(s, F, H) /\ SumFunction(F) = s[H]
  BY <1>6, <1>10
<1>12. \A K \in SUBSET H : s[K] = g[Named(D, name, K)]
  <2>1. Sums(g, v, D) /\ Sums(s, F, H)
    BY <1>4, <1>11
  <2>2. NameByName(F, g, D, name, H)
    BY <1>5, <1>6 DEF NameByName
  <2> QED
    BY <2>1, <2>2, SumByName
<1>13. s[H] = g[D]
  BY <1>8, <1>12
<1> QED
  BY <1>4, <1>7, <1>11, <1>13 DEF rows

\* So the two charts leave no byte out.
LEMMA NoByteIsLeftOut ==
  ASSUME NEW r, IsRun(r)
  PROVE  BytesIn(BandwidthRows(Phase(r.hops, "prefill")))
           + BytesIn(BandwidthRows(Phase(r.hops, "decode"))) = r.total_sent_bytes
<1> DEFINE D == DOMAIN r.hops
           v == [j \in D |-> r.hops[j].sent_bytes]
           w == [j \in D |-> r.hops[j]["sent_bytes"]]
<1>1. Summable(v)
  <2>1. Summable(w)
    BY RunSums
  <2> QED
    BY <2>1
<1>2. r.total_sent_bytes = SumFunction(v)
  BY DEF IsRun
<1>3. PICK g : Sums(g, v, DOMAIN v) /\ SumFunction(v) = g[DOMAIN v]
  BY <1>1, FunctionSum
<1>4. Sums(g, v, D) /\ SumFunction(v) = g[D]
  BY <1>3
<1>5. ASSUME NEW p \in {"prefill", "decode"}
      PROVE  BytesIn(BandwidthRows(Phase(r.hops, p))) = g[{j \in D : r.hops[j].phase = p}]
  <2> DEFINE hops == Phase(r.hops, p)
             u == [j \in DOMAIN hops |-> hops[j].sent_bytes]
  <2>1. DOMAIN hops = {j \in D : r.hops[j].phase = p} /\ \A j \in DOMAIN hops : hops[j] = r.hops[j]
    BY DEF Phase
  <2>2. HopsOfRun(hops, r)
    BY <2>1 DEF HopsOfRun, Phase
  <2>3. DOMAIN u = DOMAIN hops /\ DOMAIN u \subseteq D /\ \A j \in DOMAIN u : u[j] = v[j]
    BY <2>1
  <2>4. BytesIn(BandwidthRows(hops)) = SumFunction(u)
    <3> HIDE DEF hops
    <3> QED
      BY <2>2, BytesAre
  <2> HIDE DEF u, v, D, hops
  <2>5. SumFunction(u) = g[DOMAIN u]
    BY <1>4, <2>3, PartSum
  <2> QED
    BY <2>1, <2>3, <2>4, <2>5 DEF hops
<1> DEFINE A == {j \in D : r.hops[j].phase = "prefill"}
           B == {j \in D : r.hops[j].phase = "decode"}
<1>6. A \in SUBSET D /\ B \in SUBSET D /\ A \cap B = {} /\ A \cup B = D
  BY DEF IsRun
<1>7. /\ BytesIn(BandwidthRows(Phase(r.hops, "prefill"))) = g[A]
      /\ BytesIn(BandwidthRows(Phase(r.hops, "decode"))) = g[B]
  BY <1>5
<1> HIDE DEF A, B, D, v
<1>8. \A b \in SUBSET D : A \cap b = {} => g[A \cup b] = g[A] + g[b]
  BY <1>4, <1>6, SumJoins
<1>9. g[D] = g[A] + g[B]
  BY <1>6, <1>8
<1> QED
  BY <1>2, <1>4, <1>7, <1>9

\* A chart has rows of one or two segments.
IsChart(rows) ==
  /\ IsFiniteSet(DOMAIN rows)
  /\ \A h \in DOMAIN rows :
       \/ \E a \in Nat : rows[h] = <<a>>
       \/ \E a, b \in Nat : rows[h] = <<a, b>>

LEMMA RowIs ==
  ASSUME NEW a \in Nat, NEW b \in Nat
  PROVE  /\ DOMAIN <<a>> = {1} /\ Len(<<a>>) = 1 /\ RowTotal(<<a>>) = a
         /\ DOMAIN <<a, b>> = {1, 2} /\ Len(<<a, b>>) = 2 /\ RowTotal(<<a, b>>) = a + b
<1> DEFINE one == <<a>>
           two == <<a, b>>
<1>1. DOMAIN one = {1} /\ Len(one) = 1 /\ one[1] = a
  OBVIOUS
<1>2. DOMAIN two = {1, 2} /\ Len(two) = 2 /\ two[1] = a /\ two[2] = b
  OBVIOUS
<1>3. IsFiniteSet({1}) /\ IsFiniteSet({1, 2})
  <2>1. IsFiniteSet({1})
    BY FS_Singleton
  <2>2. IsFiniteSet({1} \cup {2})
    BY <2>1, FS_AddElement
  <2>3. {1} \cup {2} = {1, 2}
    OBVIOUS
  <2> QED
    BY <2>1, <2>2, <2>3
<1>4. Summable(one) /\ Summable(two)
  BY <1>1, <1>2, <1>3 DEF Summable
<1> HIDE DEF one, two
<1>5. SumFunction(one) = a
  BY <1>1, <1>4, SumOfOne
<1>6. SumFunction(two) = a + b
  <2>1. 1 # 2
    OBVIOUS
  <2>2. SumFunction(two) = two[1] + two[2]
    BY <1>2, <1>4, <2>1, SumOfTwo
  <2> QED
    BY <1>2, <2>2
<1> QED
  BY <1>1, <1>2, <1>5, <1>6 DEF one, two, RowTotal

\* A finite set of numbers has a greatest.
LEMMA Greatest ==
  ASSUME NEW D, IsFiniteSet(D), NEW v, \A x \in D : v[x] \in Nat
  PROVE  \A s \in SUBSET D : s # {} => \E x \in s : \A y \in s : v[y] <= v[x]
<1> DEFINE N == {k \in Nat : \E s \in SUBSET D : /\ Cardinality(s) = k /\ s # {}
                                                 /\ ~ \E x \in s : \A y \in s : v[y] <= v[x]}
<1>1. \A s \in SUBSET D : IsFiniteSet(s) /\ Cardinality(s) \in Nat
  BY FS_Subset, FS_CardinalityType
<1>2. N = {}
  <2> SUFFICES ASSUME N # {} PROVE FALSE
    OBVIOUS
  <2>1. PICK k \in N : \A j \in N : k <= j
    <3>1. N \in SUBSET Nat
      OBVIOUS
    <3> HIDE DEF N
    <3> QED
      BY <3>1, Least
  <2>2. PICK s \in SUBSET D : /\ Cardinality(s) = k /\ s # {}
                              /\ ~ \E x \in s : \A y \in s : v[y] <= v[x]
    BY <2>1
  <2>3. PICK z \in s : TRUE
    BY <2>2
  <2> DEFINE e == s \ {z}
  <2>4. Cardinality(e) = k - 1 /\ k \in Nat \ {0}
    BY <1>1, <2>2, LessOne
  <2>5. k - 1 \notin N
    <3> HIDE DEF N, e
    <3> QED
      BY <2>1, <2>4
  <2>6. e \in SUBSET D /\ k - 1 \in Nat
    BY <2>2, <2>4
  <2>7. CASE e = {}
    <3>1. s = {z} /\ v[z] \in Nat
      BY <2>7
    <3> QED
      BY <2>2, <3>1
  <2>8. CASE e # {}
    <3>1. PICK x \in e : \A y \in e : v[y] <= v[x]
      BY <2>4, <2>5, <2>6, <2>8
    <3>2. \A y \in s : v[y] \in Nat
      OBVIOUS
    <3>3. x \in s /\ z \in s /\ \A y \in s : y = z \/ y \in e
      BY <3>1
    <3>4. CASE v[z] <= v[x]
      BY <2>2, <3>1, <3>3, <3>4
    <3>5. CASE ~(v[z] <= v[x])
      <4>1. \A y \in s : v[y] <= v[z]
        BY <3>1, <3>2, <3>3, <3>5
      <4> QED
        BY <2>2, <4>1
    <3> QED
      BY <3>4, <3>5
  <2> QED
    BY <2>7, <2>8
<1> QED
  BY <1>1, <1>2

LEMMA MaxIs ==
  ASSUME NEW S, \E m \in S : \A x \in S : m >= x
  PROVE  Max(S) \in S /\ \A x \in S : Max(S) >= x
<1> DEFINE P(m) == m \in S /\ \A x \in S : m >= x
<1>1. Max(S) = CHOOSE m : P(m)
  BY DEF Max
<1>2. \E m : P(m)
  OBVIOUS
<1>3. P(CHOOSE m : P(m))
  <2> HIDE DEF P
  <2> QED
    BY <1>2, Zenon
<1> QED
  BY <1>1, <1>3

\* No row is longer than the scale, and if there is anything to show, one is as
\* long.
LEMMA ScaleIs ==
  ASSUME NEW rows, IsChart(rows)
  PROVE  /\ DataMax(rows) \in Nat \ {0}
         /\ \A h \in DOMAIN rows : RowTotal(rows[h]) \in Nat /\ RowTotal(rows[h]) <= DataMax(rows)
         /\ (\E h \in DOMAIN rows : RowTotal(rows[h]) > 0)
              => \E h \in DOMAIN rows : RowTotal(rows[h]) = DataMax(rows)
<1> DEFINE D == DOMAIN rows
           v == [h \in D |-> RowTotal(rows[h])]
           S == {1} \cup {RowTotal(rows[h]) : h \in D}
<1>1. \A h \in D : v[h] = RowTotal(rows[h]) /\ v[h] \in Nat
  <2> TAKE h \in D
  <2>1. CASE \E a \in Nat : rows[h] = <<a>>
    BY <2>1, RowIs
  <2>2. CASE \E a, b \in Nat : rows[h] = <<a, b>>
    <3>1. PICK a \in Nat, b \in Nat : rows[h] = <<a, b>>
      BY <2>2
    <3>2. RowTotal(rows[h]) = a + b
      BY <3>1, RowIs
    <3> QED
      BY <3>2
  <2> QED
    BY <2>1, <2>2 DEF IsChart
<1>2. IsFiniteSet(D)
  BY DEF IsChart
<1>3. S \subseteq Nat /\ 1 \in S
  BY <1>1
<1>4. DataMax(rows) = Max(S)
  BY DEF DataMax
<1>5. S = {1} \cup {v[h] : h \in D}
  BY <1>1
<1> HIDE DEF D, v, S
<1>6. \E m \in S : \A x \in S : m >= x
  <2>1. CASE D = {}
    BY <1>3, <1>5, <2>1
  <2>2. CASE D # {}
    <3>1. PICK h \in D : \A y \in D : v[y] <= v[h]
      <4>1. \A t \in SUBSET D : t # {} => \E x \in t : \A y \in t : v[y] <= v[x]
        <5>1. \A x \in D : v[x] \in Nat
          BY <1>1
        <5> QED
          BY <1>2, <5>1, Greatest
      <4> QED
        BY <2>2, <4>1
    <3>2. CASE v[h] >= 1
      BY <1>1, <1>5, <3>1, <3>2
    <3>3. CASE ~(v[h] >= 1)
      BY <1>1, <1>5, <3>1, <3>3
    <3> QED
      BY <3>2, <3>3
  <2> QED
    BY <2>1, <2>2
<1>7. Max(S) \in S /\ \A x \in S : Max(S) >= x
  BY <1>6, MaxIs
<1>8. DataMax(rows) \in Nat \ {0}
  <2>1. Max(S) >= 1 /\ Max(S) \in Nat
    BY <1>3, <1>7
  <2> QED
    BY <1>4, <2>1
<1>9. \A h \in D : v[h] <= DataMax(rows)
  BY <1>1, <1>3, <1>4, <1>5, <1>7
<1>10. (\E h \in D : v[h] > 0) => \E h \in D : v[h] = DataMax(rows)
  <2> SUFFICES ASSUME NEW h \in D, v[h] > 0 PROVE \E z \in D : v[z] = DataMax(rows)
    OBVIOUS
  <2>1. CASE Max(S) = 1
    BY <1>1, <1>4, <1>9, <2>1
  <2>2. CASE Max(S) # 1
    BY <1>4, <1>5, <1>7, <2>2
  <2> QED
    BY <2>1, <2>2
<1> QED
  BY <1>1, <1>8, <1>9, <1>10 DEF D

\* A part of the plot as wide as a is of the scale.
Part(a, D) == (a * PlotWidth) \div D

LEMMA PartsFit ==
  ASSUME NEW D \in Nat \ {0}, NEW a \in Nat, NEW b \in Nat
  PROVE  /\ Part(a, D) \in Nat
         /\ a <= D => Part(a, D) <= PlotWidth
         /\ a + b <= D => Part(a, D) + Part(b, D) <= PlotWidth
         /\ Part(D, D) = PlotWidth
         /\ a + b = D => Part(a, D) + Part(b, D) >= PlotWidth - 1
<1> DEFINE W == PlotWidth
           x == Part(a, D)
           y == Part(b, D)
<1>1. W \in Nat
  BY DetailsAssumption
<1>2. a * W \in Nat /\ b * W \in Nat /\ D * W \in Nat
  BY <1>1
<1>3. x \in Nat /\ D * x <= a * W /\ a * W < D * x + D
  BY <1>2 DEF Part
<1>4. y \in Nat /\ D * y <= b * W /\ b * W < D * y + D
  BY <1>2 DEF Part
<1>5. Part(D, D) = W
  BY <1>1, <1>2 DEF Part
<1> HIDE DEF x, y, W
<1>6. ASSUME a <= D PROVE x <= W
  <2>1. a * W <= D * W
    BY <1>1, <1>6
  <2>2. D * x <= D * W
    BY <1>1, <1>2, <1>3, <2>1
  <2> QED
    BY <1>1, <1>3, <2>2
<1>7. a * W + b * W = (a + b) * W /\ D * x + D * y = D * (x + y)
  BY <1>1, <1>3, <1>4
<1>8. ASSUME a + b <= D PROVE x + y <= W
  <2>1. (a + b) * W <= D * W
    BY <1>1, <1>8
  <2>2. D * (x + y) <= D * W
    BY <1>1, <1>2, <1>3, <1>4, <1>7, <2>1
  <2> QED
    BY <1>1, <1>3, <1>4, <2>2
<1>9. ASSUME a + b = D PROVE x + y >= W - 1
  <2>1. D * W < D * (x + y) + D + D
    BY <1>1, <1>2, <1>3, <1>4, <1>7, <1>9
  <2>2. D * (x + y) + D + D = D * (x + y + 2)
    BY <1>3, <1>4
  <2>3. W < x + y + 2
    BY <1>1, <1>3, <1>4, <2>1, <2>2
  <2> QED
    BY <1>1, <1>3, <1>4, <2>3
<1> QED
  BY <1>3, <1>5, <1>6, <1>8, <1>9 DEF x, y, W

\* Where the first segment starts, and the second.
LEMMA StartsAtNone ==
  ASSUME NEW rows, NEW h
  PROVE  StartOf(rows, h, 1) = 0
<1> DEFINE F == [j \in 1..1 - 1 |-> RawWidth(rows, h, j)]
<1>1. DOMAIN F = {}
  OBVIOUS
<1>2. IsFiniteSet({})
  BY FS_EmptySet
<1> HIDE DEF F
<1>3. Summable(F)
  BY <1>1, <1>2 DEF Summable
<1>4. PICK g : Sums(g, F, DOMAIN F) /\ SumFunction(F) = g[DOMAIN F]
  BY <1>3, FunctionSum
<1>5. Sums(g, F, DOMAIN F) /\ SumFunction(F) = g[{}]
  BY <1>1, <1>4
<1>6. SumFunction(F) = 0
  BY <1>5, SumOfNone
<1> QED
  BY <1>6 DEF StartOf, F

LEMMA StartsAfterOne ==
  ASSUME NEW rows, NEW h, RawWidth(rows, h, 1) \in Nat
  PROVE  StartOf(rows, h, 2) = RawWidth(rows, h, 1)
<1> DEFINE F == [j \in 1..2 - 1 |-> RawWidth(rows, h, j)]
<1>1. DOMAIN F = {1} /\ F[1] = RawWidth(rows, h, 1)
  OBVIOUS
<1>2. IsFiniteSet({1})
  BY FS_Singleton
<1> HIDE DEF F
<1>3. Summable(F)
  BY <1>1, <1>2 DEF Summable
<1>4. SumFunction(F) = F[1]
  BY <1>1, <1>3, SumOfOne
<1> QED
  BY <1>1, <1>4 DEF StartOf, F

\* A row of one segment is one bar; ...
LEMMA OneBar ==
  ASSUME NEW rows, IsChart(rows), NEW h \in DOMAIN rows, NEW a \in Nat, rows[h] = <<a>>
  PROVE  /\ \A bar \in Bars(rows, h) : bar.segment = 1 /\ bar.from = 0
                                       /\ bar.to = Part(a, DataMax(rows))
         /\ Part(a, DataMax(rows)) > 0
              => \E bar \in Bars(rows, h) : bar.to = Part(a, DataMax(rows))
<1> DEFINE x == Part(a, DataMax(rows))
<1>1. DOMAIN rows[h] = {1} /\ Len(rows[h]) = 1 /\ rows[h][1] = a
  <2> DEFINE one == <<a>>
  <2>1. DOMAIN one = {1} /\ Len(one) = 1 /\ one[1] = a
    OBVIOUS
  <2> QED
    BY <2>1
<1>2. x \in Nat
  BY ScaleIs, PartsFit
<1>3. RawWidth(rows, h, 1) = x /\ BarWidth(rows, h, 1) = x
  BY <1>1 DEF RawWidth, BarWidth, Part
<1>4. StartOf(rows, h, 1) = 0
  BY StartsAtNone
<1>5. Bars(rows, h) = {[from |-> 0, to |-> 0 + x, segment |-> k] : k \in {k \in {1} : x > 0}}
  <2> HIDE DEF x
  <2>1. \A k \in {1} : /\ StartOf(rows, h, k) = 0
                       /\ BarWidth(rows, h, k) = x
    BY <1>3, <1>4
  <2> QED
    BY <1>1, <2>1 DEF Bars
<1>6. 0 + x = x
  BY <1>2
<1> HIDE DEF x
<1>7. \A bar \in Bars(rows, h) : bar.segment = 1 /\ bar.from = 0 /\ bar.to = x
  BY <1>5, <1>6
<1>8. ASSUME x > 0 PROVE \E bar \in Bars(rows, h) : bar.to = x
  <2>1. [from |-> 0, to |-> 0 + x, segment |-> 1] \in Bars(rows, h)
    BY <1>5, <1>8
  <2> QED
    BY <1>6, <2>1
<1> QED
  BY <1>7, <1>8 DEF x

\* ... one of two has a gap after the first, if that is wide enough.
LEMMA TwoBars ==
  ASSUME NEW rows, IsChart(rows), NEW h \in DOMAIN rows,
         NEW a \in Nat, NEW b \in Nat, rows[h] = <<a, b>>,
         NEW x, x = Part(a, DataMax(rows)), NEW y, y = Part(b, DataMax(rows))
  PROVE  /\ \A bar \in Bars(rows, h) :
              \/ /\ bar.segment = 1 /\ bar.from = 0 /\ x > SegmentGap /\ bar.to = x - SegmentGap
              \/ bar.segment = 2 /\ bar.from = x /\ bar.to = x + y
         /\ y > 0 => \E bar \in Bars(rows, h) : bar.to = x + y
         /\ x > SegmentGap => \E bar \in Bars(rows, h) : bar.to = x - SegmentGap
<1>1. /\ DOMAIN rows[h] = {1, 2} /\ Len(rows[h]) = 2 /\ rows[h][1] = a /\ rows[h][2] = b
  <2> DEFINE two == <<a, b>>
  <2>1. DOMAIN two = {1, 2} /\ Len(two) = 2 /\ two[1] = a /\ two[2] = b
    OBVIOUS
  <2> QED
    BY <2>1
<1>2. x \in Nat /\ y \in Nat
  BY ScaleIs, PartsFit
<1>3. RawWidth(rows, h, 1) = x /\ RawWidth(rows, h, 2) = y
  BY <1>1 DEF RawWidth, Part
<1>4. /\ BarWidth(rows, h, 1) = IF x > SegmentGap THEN x - SegmentGap ELSE 0
      /\ BarWidth(rows, h, 2) = y
  BY <1>1, <1>3 DEF BarWidth
<1>5. StartOf(rows, h, 1) = 0 /\ StartOf(rows, h, 2) = x
  BY <1>2, <1>3, StartsAtNone, StartsAfterOne
<1> DEFINE one == [from |-> 0, to |-> 0 + (x - SegmentGap), segment |-> 1]
           two == [from |-> x, to |-> x + y, segment |-> 2]
           bar(k) == [from |-> StartOf(rows, h, k),
                      to |-> StartOf(rows, h, k) + BarWidth(rows, h, k), segment |-> k]
<1>6. Bars(rows, h) = {bar(k) : k \in {k \in {1, 2} : BarWidth(rows, h, k) > 0}}
  BY <1>1 DEF Bars
<1>7. bar(2) = two /\ (x > SegmentGap => bar(1) = one)
  BY <1>4, <1>5
<1>8. /\ BarWidth(rows, h, 1) > 0 <=> x > SegmentGap
      /\ BarWidth(rows, h, 2) > 0 <=> y > 0
  BY <1>2, <1>4 DEF SegmentGap
<1>9. /\ one.segment = 1 /\ one.from = 0 /\ one.to = x - SegmentGap
      /\ two.segment = 2 /\ two.from = x /\ two.to = x + y
  BY <1>2 DEF SegmentGap
<1> HIDE DEF one, two, bar
<1>10. \A z \in Bars(rows, h) : (z = one /\ x > SegmentGap) \/ z = two
  BY <1>6, <1>7, <1>8
<1>11. /\ y > 0 => two \in Bars(rows, h)
       /\ x > SegmentGap => one \in Bars(rows, h)
  BY <1>6, <1>7, <1>8
<1> QED
  BY <1>9, <1>10, <1>11

\* No bar leaves the plot or touches the next.
LEMMA ChartInThePlot ==
  ASSUME NEW rows, IsChart(rows)
  PROVE  InThePlot(rows)
<1> SUFFICES ASSUME NEW h \in DOMAIN rows
             PROVE  /\ \A bar \in Bars(rows, h) : bar.to <= PlotWidth
                    /\ \A bar, next \in Bars(rows, h) :
                         bar.segment < next.segment => bar.to + SegmentGap <= next.from
  BY DEF InThePlot
<1> DEFINE D == DataMax(rows)
<1>1. D \in Nat \ {0} /\ RowTotal(rows[h]) <= D
  BY ScaleIs
<1>2. PlotWidth \in Nat
  BY DetailsAssumption
<1>3. CASE \E a \in Nat : rows[h] = <<a>>
  <2>1. PICK a \in Nat : rows[h] = <<a>>
    BY <1>3
  <2>2. a <= D
    BY <1>1, <2>1, RowIs
  <2>3. Part(a, D) <= PlotWidth
    <3> HIDE DEF D
    <3> QED
      BY <1>1, <2>2, PartsFit
  <2>4. \A bar \in Bars(rows, h) : bar.segment = 1 /\ bar.to = Part(a, D)
    BY <2>1, OneBar
  <2> QED
    BY <2>3, <2>4
<1>4. CASE \E a, b \in Nat : rows[h] = <<a, b>>
  <2>1. PICK a \in Nat, b \in Nat : rows[h] = <<a, b>>
    BY <1>4
  <2>2. a + b <= D
    BY <1>1, <2>1, RowIs
  <2> DEFINE x == Part(a, D)
             y == Part(b, D)
  <2>3. x \in Nat /\ y \in Nat /\ x + y <= PlotWidth
    <3> HIDE DEF D
    <3> QED
      BY <1>1, <2>2, PartsFit
  <2>4. \A bar \in Bars(rows, h) :
              \/ /\ bar.segment = 1 /\ bar.from = 0 /\ x > SegmentGap /\ bar.to = x - SegmentGap
              \/ bar.segment = 2 /\ bar.from = x /\ bar.to = x + y
    BY <2>1, TwoBars
  <2> HIDE DEF x, y, D
  <2>5. \A bar \in Bars(rows, h) : bar.to <= PlotWidth
    BY <1>2, <2>3, <2>4 DEF SegmentGap
  <2>6. \A bar, next \in Bars(rows, h) :
          bar.segment < next.segment => bar.to + SegmentGap <= next.from
    <3> SUFFICES ASSUME NEW bar \in Bars(rows, h), NEW next \in Bars(rows, h),
                        bar.segment < next.segment
                 PROVE  bar.to + SegmentGap <= next.from
      OBVIOUS
    <3>1. bar.segment = 1 /\ bar.to = x - SegmentGap /\ next.from = x
      BY <2>4
    <3> QED
      BY <2>3, <3>1 DEF SegmentGap
  <2> QED
    BY <2>5, <2>6
<1> QED
  BY <1>3, <1>4 DEF IsChart

\* The longest bar reaches the end of the plot, up to what rounding and a gap take.
LEMMA ChartReaches ==
  ASSUME NEW rows, IsChart(rows), \E h \in DOMAIN rows : RowTotal(rows[h]) > 0
  PROVE  LongestReaches(rows)
<1> DEFINE D == DataMax(rows)
<1>1. D \in Nat \ {0}
  BY ScaleIs
<1>2. PICK h \in DOMAIN rows : RowTotal(rows[h]) = D
  BY ScaleIs
<1>3. PlotWidth \in Nat /\ PlotWidth > 3
  BY DetailsAssumption
<1>4. CASE \E a \in Nat : rows[h] = <<a>>
  <2>1. PICK a \in Nat : rows[h] = <<a>>
    BY <1>4
  <2>2. a = D
    BY <1>2, <2>1, RowIs
  <2>3. Part(a, D) = PlotWidth
    <3> HIDE DEF D
    <3> QED
      BY <1>1, <2>2, PartsFit
  <2>4. Part(a, D) > 0 => \E bar \in Bars(rows, h) : bar.to = Part(a, D)
    BY <2>1, OneBar
  <2>5. PICK bar \in Bars(rows, h) : bar.to = PlotWidth
    BY <1>3, <2>3, <2>4
  <2> QED
    BY <1>3, <2>5 DEF LongestReaches, SegmentGap
<1>5. CASE \E a, b \in Nat : rows[h] = <<a, b>>
  <2>1. PICK a \in Nat, b \in Nat : rows[h] = <<a, b>>
    BY <1>5
  <2>2. a + b = D
    BY <1>2, <2>1, RowIs
  <2> DEFINE x == Part(a, D)
             y == Part(b, D)
  <2>3. x \in Nat /\ y \in Nat /\ x + y >= PlotWidth - 1
    <3> HIDE DEF D
    <3> QED
      BY <1>1, <2>2, PartsFit
  <2>4. /\ y > 0 => \E bar \in Bars(rows, h) : bar.to = x + y
        /\ x > SegmentGap => \E bar \in Bars(rows, h) : bar.to = x - SegmentGap
    BY <2>1, TwoBars
  <2> HIDE DEF x, y, D
  <2>5. PICK bar \in Bars(rows, h) : bar.to >= PlotWidth - 1 - SegmentGap
    <3>1. CASE y > 0
      <4>1. PICK bar \in Bars(rows, h) : bar.to = x + y
        BY <2>4, <3>1
      <4> QED
        BY <1>3, <2>3, <4>1 DEF SegmentGap
    <3>2. CASE ~(y > 0)
      <4>1. x > SegmentGap /\ x >= PlotWidth - 1
        BY <1>3, <2>3, <3>2 DEF SegmentGap
      <4>2. PICK bar \in Bars(rows, h) : bar.to = x - SegmentGap
        BY <2>4, <4>1
      <4> QED
        BY <1>3, <2>3, <4>1, <4>2 DEF SegmentGap
    <3> QED
      BY <3>1, <3>2
  <2> QED
    BY <2>5 DEF LongestReaches
<1> QED
  BY <1>4, <1>5 DEF IsChart

\* A sum is no less than one of the numbers in it.
LEMMA SumIsMore ==
  ASSUME NEW F, Summable(F), NEW x \in DOMAIN F
  PROVE  SumFunction(F) >= F[x]
<1> DEFINE C == DOMAIN F
           e == C \ {x}
<1>1. PICK g : Sums(g, F, C) /\ SumFunction(F) = g[C]
  BY FunctionSum
<1>2. e \in SUBSET C /\ x \notin e /\ x \in C /\ C = e \cup {x} /\ F[x] \in Nat
  BY DEF Summable
<1> HIDE DEF C, e
<1>3. Sums(g, F, C)
  BY <1>1
<1>4. g[e \cup {x}] = g[e] + F[x]
  <2>1. \A t \in SUBSET C : \A y \in C : y \notin t => g[t \cup {y}] = g[t] + F[y]
    BY <1>3, SumAdds
  <2> QED
    BY <1>2, <2>1
<1>5. g[e] \in Nat
  <2>1. \A t \in SUBSET C : g[t] \in Nat
    BY <1>3, SumType
  <2> QED
    BY <1>2, <2>1
<1> QED
  BY <1>1, <1>2, <1>4, <1>5

\* What is summed under a name is a number, ...
LEMMA WhereIsNat ==
  ASSUME NEW r, IsRun(r), NEW field \in {"sent_bytes", "compute_ms", "transport_ms"},
         NEW hops, HopsOfRun(hops, r)
  PROVE  IsFiniteSet(HopsOf(hops)) /\ \A h \in HopsOf(hops) : SumWhere(hops, h, field) \in Nat
<1> DEFINE D == DOMAIN hops
<1>1. PICK v : v = [j \in D |-> hops[j][field]]
  OBVIOUS
<1>2. PICK name : name = [j \in D |-> hops[j].hop]
  OBVIOUS
<1>3. /\ Summable(v) /\ IsFiniteSet(HopsOf(hops))
      /\ \A g : Sums(g, v, D) => \A h \in HopsOf(hops) : SumWhere(hops, h, field) \in Nat
  BY <1>1, <1>2, WhereIs
<1>4. DOMAIN v = D
  BY <1>1
<1> HIDE DEF D
<1>5. PICK g : Sums(g, v, D)
  BY <1>3, <1>4, FunctionSum
<1> QED
  BY <1>3, <1>5

\* ... and no less than what one of the hops of that name says.
LEMMA WhereIsMore ==
  ASSUME NEW r, IsRun(r), NEW field \in {"sent_bytes", "compute_ms", "transport_ms"},
         NEW hops, HopsOfRun(hops, r), NEW j \in DOMAIN hops
  PROVE  /\ hops[j].hop \in HopsOf(hops)
         /\ SumWhere(hops, hops[j].hop, field) >= r.hops[j][field]
<1> DEFINE h == hops[j].hop
           F == [i \in {i \in DOMAIN hops : hops[i].hop = h} |-> hops[i][field]]
           all == [i \in DOMAIN r.hops |-> r.hops[i][field]]
<1>1. h \in HopsOf(hops)
  BY DEF HopsOf
<1>2. SumWhere(hops, h, field) = SumFunction(F)
  BY DEF SumWhere
<1>3. DOMAIN hops \subseteq DOMAIN r.hops /\ \A i \in DOMAIN hops : hops[i] = r.hops[i]
  BY DEF HopsOfRun
<1>4. DOMAIN F \subseteq DOMAIN all /\ (\A i \in DOMAIN F : F[i] = all[i]) /\ j \in DOMAIN F
      /\ F[j] = r.hops[j][field]
  BY <1>3
<1>5. Summable(all)
  BY RunSums
<1> HIDE DEF F, all, h
<1>6. PICK g : Sums(g, all, DOMAIN all)
  BY <1>5, FunctionSum
<1>7. Summable(F)
  BY <1>4, <1>6, PartSum
<1>8. SumFunction(F) >= F[j]
  BY <1>4, <1>7, SumIsMore
<1> QED
  BY <1>1, <1>2, <1>4, <1>8 DEF h

\* The chart of a phase's bytes: each of its hops, if any, has sent something
\* or another of the phase has.
LEMMA BandwidthIsChart ==
  ASSUME NEW r, IsRun(r), NEW p \in {"prefill", "decode"},
         NEW rows, rows = BandwidthRows(Phase(r.hops, p))
  PROVE  /\ IsChart(rows)
         /\ DOMAIN rows # {} => \E h \in DOMAIN rows : RowTotal(rows[h]) > 0
<1> DEFINE hops == Phase(r.hops, p)
           S(h) == SumWhere(hops, h, "sent_bytes")
<1>1. /\ DOMAIN hops = {j \in DOMAIN r.hops : r.hops[j].phase = p}
      /\ \A j \in DOMAIN hops : hops[j] = r.hops[j]
  BY DEF Phase
<1>2. HopsOfRun(hops, r)
  BY <1>1 DEF HopsOfRun, Phase
<1>3. DOMAIN rows = HopsOf(hops) /\ \A h \in DOMAIN rows : rows[h] = <<S(h)>>
  BY DEF BandwidthRows
<1> HIDE DEF hops
<1>4. IsFiniteSet(HopsOf(hops)) /\ \A h \in HopsOf(hops) : S(h) \in Nat
  BY <1>2, WhereIsNat
<1>5. IsChart(rows)
  BY <1>3, <1>4 DEF IsChart
<1>6. ASSUME DOMAIN rows # {} PROVE \E h \in DOMAIN rows : RowTotal(rows[h]) > 0
  <2>1. PICK i \in DOMAIN hops : TRUE
    BY <1>3, <1>6 DEF HopsOf
  <2>2. PICK k \in DOMAIN r.hops : r.hops[k].phase = r.hops[i].phase /\ r.hops[k].sent_bytes > 0
    BY <1>1, <2>1 DEF IsRun
  <2>3. k \in DOMAIN hops
    BY <1>1, <2>1, <2>2
  <2>4. r.hops[k]["sent_bytes"] \in Nat /\ r.hops[k]["sent_bytes"] > 0
    BY <2>2 DEF IsRun
  <2>5. PICK h : h = hops[k].hop
    OBVIOUS
  <2>6. h \in HopsOf(hops) /\ S(h) >= r.hops[k]["sent_bytes"]
    BY <1>2, <2>3, <2>5, WhereIsMore
  <2>7. S(h) > 0 /\ S(h) \in Nat
    BY <1>4, <2>4, <2>6
  <2>8. RowTotal(rows[h]) = S(h)
    BY <1>3, <2>6, <2>7, RowIs
  <2> QED
    BY <1>3, <2>6, <2>7, <2>8
<1> QED
  BY <1>5, <1>6

\* The chart of the times, of all the hops.
LEMMA LatencyIsChart ==
  ASSUME NEW r, IsRun(r), NEW rows, rows = LatencyRows(r.hops)
  PROVE  /\ IsChart(rows)
         /\ \E h \in DOMAIN rows : RowTotal(rows[h]) > 0
<1> DEFINE hops == r.hops
           C(h) == SumWhere(hops, h, "compute_ms")
           T(h) == SumWhere(hops, h, "transport_ms")
<1>1. HopsOfRun(hops, r)
  <2>1. IsSeq(r.hops)
    BY RunSums
  <2>2. r.hops = [j \in DOMAIN r.hops |-> r.hops[j]]
    BY <2>1 DEF IsSeq
  <2> QED
    BY <2>2 DEF HopsOfRun
<1>2. DOMAIN rows = HopsOf(hops) /\ \A h \in DOMAIN rows : rows[h] = <<C(h), T(h)>>
  BY DEF LatencyRows
<1>3. IsFiniteSet(HopsOf(hops)) /\ \A h \in HopsOf(hops) : C(h) \in Nat
  BY <1>1, WhereIsNat
<1>4. \A h \in HopsOf(hops) : T(h) \in Nat
  BY <1>1, WhereIsNat
<1>5. IsChart(rows)
  BY <1>2, <1>3, <1>4 DEF IsChart
<1>6. PICK k \in DOMAIN r.hops : r.hops[k]["compute_ms"] > 0 /\ r.hops[k]["compute_ms"] \in Nat
  BY DEF IsRun
<1>7. PICK h : h = hops[k].hop
  OBVIOUS
<1>8. h \in HopsOf(hops) /\ C(h) >= r.hops[k]["compute_ms"]
  BY <1>1, <1>6, <1>7, WhereIsMore
<1>9. C(h) \in Nat /\ T(h) \in Nat /\ C(h) > 0
  BY <1>3, <1>4, <1>6, <1>8
<1>10. RowTotal(rows[h]) = C(h) + T(h)
  BY <1>2, <1>8, <1>9, RowIs
<1> QED
  BY <1>2, <1>5, <1>8, <1>9, <1>10

\* The chart of a comparison.
LEMMA TotalIs ==
  ASSUME NEW r, IsRun(r)
  PROVE  r.total_sent_bytes \in Nat /\ r.total_sent_bytes > 0
<1> DEFINE v == [j \in DOMAIN r.hops |-> r.hops[j].sent_bytes]
           w == [j \in DOMAIN r.hops |-> r.hops[j]["sent_bytes"]]
<1>1. Summable(v)
  <2>1. Summable(w)
    BY RunSums
  <2> QED
    BY <2>1
<1>2. r.total_sent_bytes = SumFunction(v)
  BY DEF IsRun
<1>3. PICK k \in DOMAIN r.hops : r.hops[k].sent_bytes > 0 /\ r.hops[k].sent_bytes \in Nat
  BY DEF IsRun
<1>4. k \in DOMAIN v /\ v[k] = r.hops[k].sent_bytes
  OBVIOUS
<1> HIDE DEF v
<1>5. SumFunction(v) \in Nat /\ SumFunction(v) >= v[k]
  BY <1>1, <1>4, SumIsNat, SumIsMore
<1> QED
  BY <1>2, <1>3, <1>4, <1>5

LEMMA CacheIsChart ==
  ASSUME NEW c, IsRun(c.cached), IsRun(c.uncached), NEW rows, rows = CacheRows(c)
  PROVE  /\ IsChart(rows)
         /\ \E h \in DOMAIN rows : RowTotal(rows[h]) > 0
<1>1. PICK a \in Nat, b \in Nat : /\ a = c.uncached.total_sent_bytes /\ a > 0
                                  /\ b = c.cached.total_sent_bytes
  BY TotalIs
<1>2. rows = <<<<a>>, <<b>>>>
  BY <1>1 DEF CacheRows
<1>3. DOMAIN rows = {1, 2} /\ rows[1] = <<a>> /\ rows[2] = <<b>>
  BY <1>2
<1>4. IsFiniteSet({1} \cup {2})
  BY FS_Singleton, FS_AddElement
<1>5. {1, 2} = {1} \cup {2}
  OBVIOUS
<1>6. IsChart(rows)
  BY <1>3, <1>4, <1>5 DEF IsChart
<1>7. RowTotal(rows[1]) = a
  BY <1>3, RowIs
<1> QED
  BY <1>1, <1>3, <1>6, <1>7

\* So a chart that has something to show shows it whole.
LEMMA ChartShows ==
  ASSUME NEW rows, IsChart(rows),
         DOMAIN rows # {} => \E h \in DOMAIN rows : RowTotal(rows[h]) > 0
  PROVE  InThePlot(rows) /\ LongestReaches(rows)
<1>1. InThePlot(rows)
  BY ChartInThePlot
<1>2. CASE DOMAIN rows = {}
  BY <1>1, <1>2 DEF LongestReaches
<1>3. CASE DOMAIN rows # {}
  BY <1>1, <1>3, ChartReaches
<1> QED
  BY <1>2, <1>3

\* What the page shows has been measured.
FiguresAreRuns ==
  /\ shown # <<>> => shown[1] \in Runs
  /\ \A j \in DOMAIN comparison : comparison[j].cached \in Runs /\ comparison[j].uncached \in Runs

LEMMA FiguresStay == UNCHANGED detailVars /\ FiguresAreRuns => FiguresAreRuns'
BY DEF detailVars, FiguresAreRuns

LEMMA FiguresAreMeasured == SiteSpec => []FiguresAreRuns
<1>1. SiteInit => FiguresAreRuns
  BY DEF SiteInit, DetailsInit, FiguresAreRuns
<1>2. FiguresAreRuns /\ [SiteNext]_siteVars => FiguresAreRuns'
  <2> SUFFICES ASSUME FiguresAreRuns, [SiteNext]_siteVars PROVE FiguresAreRuns'
    OBVIOUS
  <2>1. CASE OnPoolPage \/ OnTwoDevices \/ UNCHANGED siteVars
    <3>1. UNCHANGED detailVars
      BY <2>1 DEF OnPoolPage, OnTwoDevices, PoolPageOpen, TwoDevicesOpen, siteVars
    <3> QED
      BY <3>1, FiguresStay
  <2>2. CASE DetailsTopology \/ RefreshTopology \/ DetailsFail
    BY <2>2 DEF DetailsTopology, RefreshTopology, DetailsFail, FiguresAreRuns
  <2>3. ASSUME NEW compare \in BOOLEAN, RunDetails(compare) PROVE FiguresAreRuns'
    <3>1. shown' = shown /\ (comparison' = comparison \/ comparison' = <<>>)
      BY <2>3 DEF RunDetails
    <3> QED
      BY <3>1 DEF FiguresAreRuns
  <2>4. CASE Compared
    <3>1. PICK cached \in Runs, uncached \in Runs :
            /\ comparison' = <<[cached |-> cached, uncached |-> uncached]>>
            /\ shown' = <<cached>>
      BY <2>4 DEF Compared
    <3>2. shown'[1] \in Runs
      BY <3>1
    <3>3. \A j \in DOMAIN comparison' :
            comparison'[j].cached \in Runs /\ comparison'[j].uncached \in Runs
      BY <3>1
    <3> QED
      BY <3>2, <3>3 DEF FiguresAreRuns
  <2>5. CASE Generated
    <3>1. PICK r \in Runs : shown' = <<r>>
      BY <2>5 DEF Generated
    <3>2. shown'[1] \in Runs /\ comparison' = comparison
      BY <2>5, <3>1 DEF Generated
    <3> QED
      BY <3>2 DEF FiguresAreRuns
  <2>6. ASSUME NEW to \in {"/", "/two-devices", "/details"}, Follow(to) PROVE FiguresAreRuns'
    <3>1. UNCHANGED detailVars \/ (shown' = <<>> /\ comparison' = <<>>)
      BY <2>6 DEF Follow, DetailsMounts, detailVars
    <3> QED
      BY <3>1, FiguresStay DEF FiguresAreRuns
  <2> QED
    BY <2>1, <2>2, <2>3, <2>4, <2>5, <2>6 DEF SiteNext, OnDetails
<1> QED
  BY <1>1, <1>2, PTL DEF SiteSpec

\* Whatever was measured, the bars of each chart lie in the plot, one after the
\* other, the longest reaches its end, and no byte that crossed a hop is left
\* out of the charts of bytes (details/page.tsx, HorizontalBars.tsx).
THEOREM ChartsAlwaysAddUp == SiteSpec => []ChartsAddUp
<1>1. FiguresAreRuns => ChartsAddUp
  <2> SUFFICES ASSUME FiguresAreRuns, shown # <<>> PROVE ChartsAddUp
    BY DEF ChartsAddUp
  <2>1. PICK r : r = shown[1]
    OBVIOUS
  <2>2. r \in Runs /\ IsRun(r)
    BY <2>1, DetailsAssumption DEF FiguresAreRuns
  <2> DEFINE prefill == BandwidthRows(Phase(r.hops, "prefill"))
             decode == BandwidthRows(Phase(r.hops, "decode"))
  <2>3. BytesIn(prefill) + BytesIn(decode) = r.total_sent_bytes
    BY <2>2, NoByteIsLeftOut
  <2>4. InThePlot(prefill) /\ LongestReaches(prefill)
    BY <2>2, BandwidthIsChart, ChartShows
  <2>5. InThePlot(decode) /\ LongestReaches(decode)
    BY <2>2, BandwidthIsChart, ChartShows
  <2>6. InThePlot(LatencyRows(r.hops)) /\ LongestReaches(LatencyRows(r.hops))
    BY <2>2, LatencyIsChart, ChartShows
  <2>7. ASSUME NEW j \in DOMAIN comparison
        PROVE  InThePlot(CacheRows(comparison[j])) /\ LongestReaches(CacheRows(comparison[j]))
    <3>1. IsRun(comparison[j].cached) /\ IsRun(comparison[j].uncached)
      BY DetailsAssumption DEF FiguresAreRuns
    <3> QED
      BY <3>1, CacheIsChart, ChartShows
  <2> HIDE DEF prefill, decode
  <2>8. \A rows \in {prefill, decode, LatencyRows(r.hops)}
                      \cup {CacheRows(comparison[j]) : j \in DOMAIN comparison} :
          InThePlot(rows) /\ LongestReaches(rows)
    BY <2>4, <2>5, <2>6, <2>7
  <2> QED
    BY <2>1, <2>3, <2>8 DEF ChartsAddUp, prefill, decode
<1> QED
  BY <1>1, FiguresAreMeasured, PTL
=============================================================================
